-------------------------- MODULE JniCppProxyProofs -------------------------
(***************************************************************************)
(* Proofs about JniCppProxy, for any number of threads, finalizers,        *)
(* implementations and proxies.                                            *)
(*                                                                         *)
(* HandleFreedOnce rests on `destroyed`: a Handle is open until the flag   *)
(* is set (FlagFirst), and the one thread whose getAndSet() found it clear *)
(* is the one that frees (Freeing).  CacheFresh also needs that an entry   *)
(* of the cache is of a proxy of an object at its address (Busy), and that *)
(* an address has one object at a time (OneEach), which an open Handle     *)
(* keeps alive.  NoUseAfterFree needs that the flag is only ever set for a *)
(* proxy that was collected, which holds of the proxies nobody destroys by *)
(* hand, and that nobody has a reference to a collected proxy.             *)
(***************************************************************************)
EXTENDS JniCppProxy, TLAPS

Born(p) == java[p] # "unborn"

FlagFirst ==
    \A p \in Proxies :
        /\ ~Born(p) => javaRefs[p] = {} /\ handle[p] = "none" /\ ~destroyed[p]
        /\ Born(p) => implOf[p] \in Impls /\ handle[p] \in {"open", "freed"}
        /\ Born(p) /\ ~destroyed[p] => handle[p] = "open"

Busy ==
    /\ \A t \in Workers : at[t] # "idle" => on[t] \in Proxies /\ Born(on[t])
    /\ \A t \in Workers : at[t] \notin {"idle", "freeing"} => t \in Threads
    /\ \A a \in Addrs : cache[a] # None =>
          Born(cache[a]) /\ AddrOf[implOf[cache[a]]] = a

OneEach ==
    \A i, j \in Impls : Alive(i) /\ Alive(j) /\ AddrOf[i] = AddrOf[j] => i = j

Freeing ==
    \A t \in Workers : at[t] = "freeing" =>
        /\ destroyed[on[t]] /\ handle[on[t]] = "open"
        /\ \A u \in Workers : at[u] = "freeing" /\ on[u] = on[t] => u = t

CollectedFirst ==
    \A p \in Proxies \ Closeable : destroyed[p] => java[p] = "finalized"

\* The proxies that live and die by the collector alone.
Plain == Proxies \ (Closeable \cup Resurrectable)

Reachable ==
    /\ \A p \in Plain : javaRefs[p] # {} => java[p] = "live"
    /\ \A t \in Workers :
          at[t] \in {"checked", "native", "unwrap"} /\ on[t] \in Plain =>
              java[on[t]] = "live"

IInv ==
    TypeOK /\ FlagFirst /\ Busy /\ OneEach /\ Freeing /\ CollectedFirst /\ Reachable

\* The steps after which no more objects are alive keep their addresses apart.
LEMMA NoneWakes ==
  ASSUME OneEach, \A i \in Impls : Alive(i)' => Alive(i)
  PROVE  OneEach'
BY DEF OneEach

LEMMA Lives ==
  ASSUME UNCHANGED <<cppRefs, implOf, handle>>
  PROVE  \A i \in Impls : Alive(i)' => Alive(i)
BY DEF Alive

-----------------------------------------------------------------------------
(* Each of the steps, apart from the sets they are drawn from.             *)

LEMMA InitInv == Init => IInv
<1> SUFFICES ASSUME Init PROVE IInv
  OBVIOUS
<1>1. OneEach
  BY DEF Init, OneEach, Alive
<1>2. TypeOK /\ FlagFirst /\ Busy /\ Freeing /\ CollectedFirst /\ Reachable
  BY NoProxyAssumption
  DEF Init, TypeOK, FlagFirst, Busy, Freeing, CollectedFirst, Reachable, Plain, Born
<1> QED BY <1>1, <1>2 DEF IInv

\* Steps of C++ alone: an object is born where no other is alive.
LEMMA CppKeepsInv ==
  ASSUME IInv, NEW t \in Threads, NEW i \in Impls,
         NewImpl(t, i) \/ DropImpl(t, i)
  PROVE  IInv'
<1>1. /\ born' \in SUBSET Impls /\ cppRefs' \in [Impls -> SUBSET Threads]
      /\ UNCHANGED <<cache, javaSide, implOf, handle, destroyed, locals>>
  BY DEF NewImpl, DropImpl, IInv, TypeOK
<1>2. TypeOK' /\ FlagFirst' /\ Busy' /\ Freeing' /\ CollectedFirst' /\ Reachable'
  BY <1>1 DEF IInv, TypeOK, FlagFirst, Busy, Freeing, CollectedFirst, Reachable, Plain, Born,
              javaSide, locals
<1>3. OneEach'
  <2>1. CASE NewImpl(t, i)
    <3>1. \A j \in Impls \ {i} : Alive(j)' => Alive(j) /\ AddrOf[j] # AddrOf[i]
      BY <2>1 DEF NewImpl, Alive, IInv, TypeOK
    <3> QED BY <3>1 DEF OneEach, IInv
  <2>2. CASE DropImpl(t, i)
    <3>1. \A j \in Impls : Alive(j)' => Alive(j)
      BY <2>2 DEF DropImpl, Alive, IInv, TypeOK
    <3> QED BY <3>1, NoneWakes DEF IInv
  <2> QED BY <2>1, <2>2
<1> QED BY <1>2, <1>3 DEF IInv

\* Steps that only move references.
LEMMA RefsKeepInv ==
  ASSUME IInv, NEW t \in Threads, NEW u \in Threads, NEW p \in Proxies,
         \/ ShareProxy(t, u, p) \/ DropProxy(t, p) \/ Resurrect(t, p)
         \/ \E i \in Impls : ToJavaCached(t, i)
  PROVE  IInv'
<1>1. /\ javaRefs' \in [Proxies -> SUBSET Threads]
      /\ UNCHANGED <<cppSide, java, implOf, handle, destroyed, locals>>
      /\ \A q \in Proxies : javaRefs'[q] # {} =>
            javaRefs[q] # {} \/ java[q] = "live" \/ (q \in Resurrectable /\ Born(q))
  <2>1. CASE ShareProxy(t, u, p)
    BY <2>1 DEF ShareProxy, Has, IInv, TypeOK
  <2>2. CASE DropProxy(t, p)
    BY <2>2 DEF DropProxy, IInv, TypeOK
  <2>3. CASE Resurrect(t, p)
    BY <2>3 DEF Resurrect, Born, IInv, TypeOK
  <2>4. ASSUME NEW i \in Impls, ToJavaCached(t, i)
        PROVE  /\ javaRefs' \in [Proxies -> SUBSET Threads]
               /\ UNCHANGED <<cppSide, java, implOf, handle, destroyed, locals>>
               /\ \A q \in Proxies : javaRefs'[q] # {} => javaRefs[q] # {} \/ java[q] = "live"
    <3>1. cache[AddrOf[i]] \in Proxies /\ java[cache[AddrOf[i]]] = "live"
      BY <2>4, AddrAssumption DEF ToJavaCached, Cached, Upgradable, IInv, TypeOK
    <3> QED BY <2>4, <3>1 DEF ToJavaCached, IInv, TypeOK
  <2> QED BY <2>1, <2>2, <2>3, <2>4
<1>2. TypeOK' /\ FlagFirst' /\ Busy' /\ Freeing' /\ CollectedFirst' /\ Reachable'
  BY <1>1 DEF IInv, TypeOK, FlagFirst, Busy, Freeing, CollectedFirst, Reachable, Plain, Born,
              cppSide, locals
<1>3. OneEach'
  BY <1>1, Lives, NoneWakes DEF IInv, cppSide
<1> QED BY <1>2, <1>3 DEF IInv

\* A new proxy comes with an open Handle.
LEMMA NewKeepsInv ==
  ASSUME IInv, NEW t \in Threads, NEW i \in Impls, NEW p \in Proxies,
         ToJavaNew(t, i, p)
  PROVE  IInv'
<1> USE DEF IInv, ToJavaNew, Emplace, Born
<1>0. AddrOf[i] \in Addrs
  BY AddrAssumption
<1>1. TypeOK'
  BY <1>0 DEF TypeOK, locals
<1>2. FlagFirst'
  BY DEF TypeOK, FlagFirst
<1>3. Busy'
  BY <1>0, NoProxyAssumption DEF TypeOK, Busy, locals
<1>4. Freeing' /\ CollectedFirst'
  BY DEF TypeOK, FlagFirst, Busy, Freeing, CollectedFirst, locals
<1>5. Reachable'
  BY DEF TypeOK, Busy, Reachable, Plain, locals
<1>6. OneEach'
  <2>1. Alive(i)
    BY DEF Alive
  <2>2. \A j \in Impls : Alive(j)' => Alive(j)
    BY <2>1 DEF Alive, TypeOK
  <2> QED BY <2>2, NoneWakes
<1> QED BY <1>1, <1>2, <1>3, <1>4, <1>5, <1>6

\* Calls of a proxy, and its use as an argument.
LEMMA CallKeepsInv ==
  ASSUME IInv, NEW t \in Workers, NEW p \in Proxies,
         \/ t \in Threads /\ (CallCheck(t, p) \/ ArgRead(t, p))
         \/ CallEnter(t) \/ CallExit(t)
  PROVE  IInv'
<1>1. TypeOK' /\ FlagFirst' /\ Busy' /\ Freeing' /\ CollectedFirst' /\ Reachable'
  <2> USE DEF IInv, TypeOK, FlagFirst, Busy, Freeing, CollectedFirst, Reachable, Plain,
              Born, cppSide, javaSide, Goto, Has
  <2>1. CASE t \in Threads /\ CallCheck(t, p)
    BY <2>1 DEF CallCheck
  <2>2. CASE t \in Threads /\ ArgRead(t, p)
    BY <2>2 DEF ArgRead
  <2>3. CASE CallEnter(t)
    BY <2>3 DEF CallEnter
  <2>4. CASE CallExit(t)
    BY <2>4, NoProxyAssumption DEF CallExit
  <2> QED BY <2>1, <2>2, <2>3, <2>4
<1>2. OneEach'
  BY Lives, NoneWakes DEF IInv, CallCheck, ArgRead, CallEnter, CallExit, cppSide
<1> QED BY <1>1, <1>2 DEF IInv

\* A shared_ptr is copied out of a Handle that keeps its object alive.
LEMMA CopyKeepsInv ==
  ASSUME IInv, NEW t \in Workers, ArgCopy(t)
  PROVE  IInv'
<1>1. on[t] \in Proxies /\ implOf[on[t]] \in Impls /\ t \in Threads
  BY DEF ArgCopy, IInv, FlagFirst, Busy
<1>2. TypeOK' /\ FlagFirst' /\ Busy' /\ Freeing' /\ CollectedFirst' /\ Reachable'
  <2>1. cppRefs' \in [Impls -> SUBSET Threads]
    BY <1>1 DEF ArgCopy, IInv, TypeOK
  <2> QED BY <2>1, NoProxyAssumption
          DEF ArgCopy, IInv, TypeOK, FlagFirst, Busy, Freeing, CollectedFirst, Reachable, Plain,
              Born, javaSide, Goto
<1>3. OneEach'
  <2>1. \A j \in Impls : Alive(j)' => Alive(j)
    BY <1>1 DEF ArgCopy, Alive, IInv, TypeOK
  <2> QED BY <2>1, NoneWakes DEF IInv
<1> QED BY <1>2, <1>3 DEF IInv

\* The flag is set, and whoever found it clear is alone.
LEMMA FlagKeepsInv ==
  ASSUME IInv, NEW t \in Workers, NEW p \in Proxies, at[t] = "idle",
         GetAndSet(t, p), Born(p),
         \/ p \in Closeable /\ UNCHANGED java
         \/ java[p] = "cleared" /\ java' = [java EXCEPT ![p] = "finalized"],
         UNCHANGED <<cppSide, javaRefs, implOf, handle>>
  PROVE  IInv'
<1> USE DEF IInv, GetAndSet, Goto, Born, cppSide, locals
<1>1. TypeOK'
  BY DEF TypeOK
<1>2. FlagFirst'
  BY DEF TypeOK, FlagFirst
<1>3. Busy'
  BY DEF TypeOK, Busy
<1>4. Freeing'
  BY DEF TypeOK, FlagFirst, Freeing
<1>5. CollectedFirst'
  BY DEF TypeOK, CollectedFirst
<1>6. Reachable'
  <2>1. \A u \in Workers : at'[u] \in {"checked", "native", "unwrap"} =>
           at'[u] = at[u] /\ on'[u] = on[u] /\ on[u] \in Proxies
    BY DEF TypeOK, Busy
  <2>2. \A q \in Proxies : java[q] = "live" => java'[q] = "live"
    BY DEF TypeOK
  <2> QED BY <2>1, <2>2 DEF Reachable, Plain
<1>7. OneEach'
  BY Lives, NoneWakes
<1> QED BY <1>1, <1>2, <1>3, <1>4, <1>5, <1>6, <1>7

LEMMA CollectKeepsInv ==
  ASSUME IInv, NEW p \in Proxies, Collect(p)
  PROVE  IInv'
<1> USE DEF IInv, Collect, Born, cppSide, locals
<1>1. TypeOK' /\ FlagFirst' /\ Freeing'
  BY DEF TypeOK, FlagFirst, Freeing
<1>2. Busy'
  BY DEF TypeOK, Busy
<1>3. CollectedFirst'
  BY DEF TypeOK, CollectedFirst
<1>4. Reachable'
  BY DEF TypeOK, Reachable, Plain, Busy
<1>5. OneEach'
  BY Lives, NoneWakes
<1> QED BY <1>1, <1>2, <1>3, <1>4, <1>5

LEMMA FreeKeepsInv ==
  ASSUME IInv, NEW t \in Workers, Free(t)
  PROVE  IInv'
<1> DEFINE p == on[t]
<1> USE DEF IInv, Free, Goto, Born, javaSide
<1>1. p \in Proxies /\ Born(p) /\ implOf[p] \in Impls /\ AddrOf[implOf[p]] \in Addrs
  BY AddrAssumption DEF TypeOK, FlagFirst, Busy
<1>2. TypeOK'
  BY <1>1 DEF TypeOK
<1>3. FlagFirst'
  BY <1>1 DEF TypeOK, FlagFirst, Freeing
<1>4. Busy'
  BY <1>1 DEF TypeOK, Busy
<1>5. Freeing'
  BY <1>1 DEF TypeOK, Freeing
<1>6. CollectedFirst' /\ Reachable'
  BY <1>1 DEF TypeOK, CollectedFirst, Reachable, Plain
<1>7. OneEach'
  <2>1. \A j \in Impls : Alive(j)' => Alive(j)
    BY <1>1 DEF Alive, TypeOK
  <2> QED BY <2>1, NoneWakes
<1> QED BY <1>2, <1>3, <1>4, <1>5, <1>6, <1>7

LEMMA StepKeepsInv == IInv /\ [Next]_vars => IInv'
<1> SUFFICES ASSUME IInv, [Next]_vars PROVE IInv'
  OBVIOUS
<1>1. CASE \E t \in Threads : App(t)
  <2>1. PICK t \in Threads : App(t)
    BY <1>1
  <2>2. t \in Workers
    BY DEF Workers
  <2>3. CASE \E i \in Impls : NewImpl(t, i) \/ DropImpl(t, i)
    BY <2>3, CppKeepsInv
  <2>4. CASE \E i \in Impls : ToJavaCached(t, i)
    <3>1. (\E p \in Proxies : TRUE) => IInv'
      BY <2>1, <2>4, RefsKeepInv
    <3>2. \E p \in Proxies : TRUE
      BY <2>4, AddrAssumption DEF ToJavaCached, Cached, IInv, TypeOK
    <3> QED BY <3>1, <3>2
  <2>5. CASE \E i \in Impls, p \in Proxies : ToJavaNew(t, i, p)
    BY <2>5, NewKeepsInv
  <2>6. CASE \E p \in Proxies : CallCheck(t, p) \/ ArgRead(t, p)
    BY <2>2, <2>6, CallKeepsInv
  <2>7. CASE \E p \in Proxies : Destroy(t, p)
    <3>1. PICK p \in Proxies : Destroy(t, p)
      BY <2>7
    <3>2. at[t] = "idle" /\ Born(p)
      BY <3>1 DEF Destroy, Has, IInv, FlagFirst
    <3> QED BY <2>2, <3>1, <3>2, FlagKeepsInv DEF Destroy, javaSide
  <2>8. CASE \E p \in Proxies, u \in Threads :
                DropProxy(t, p) \/ Resurrect(t, p) \/ ShareProxy(t, u, p)
    BY <2>8, RefsKeepInv
  <2> QED BY <2>1, <2>3, <2>4, <2>5, <2>6, <2>7, <2>8 DEF App
<1>2. CASE \E t \in Workers : Step(t)
  <2>1. PICK t \in Workers : Step(t)
    BY <1>2
  <2>2. CASE Free(t)
    BY <2>2, FreeKeepsInv
  <2>3. CASE CallEnter(t) \/ CallExit(t)
    <3>1. on[t] \in Proxies
      BY <2>3 DEF CallEnter, CallExit, IInv, Busy
    <3> QED BY <2>1, <2>3, <3>1, CallKeepsInv
  <2>4. CASE ArgCopy(t)
    BY <2>1, <2>4, CopyKeepsInv
  <2> QED BY <2>1, <2>2, <2>3, <2>4 DEF Step
<1>3. CASE \E p \in Proxies : Collect(p)
  BY <1>3, CollectKeepsInv
<1>4. CASE \E t \in Finalizers, p \in Proxies : Finalize(t, p)
  <2>1. PICK t \in Finalizers, p \in Proxies : Finalize(t, p)
    BY <1>4
  <2>2. t \in Workers /\ at[t] = "idle" /\ Born(p)
    BY <2>1 DEF Workers, Finalize, Born
  <2> QED BY <2>1, <2>2, FlagKeepsInv DEF Finalize
<1>5. CASE UNCHANGED vars
  BY <1>5 DEF IInv, TypeOK, FlagFirst, Busy, OneEach, Alive, Freeing, CollectedFirst,
     Reachable, Plain, Born, vars, cppSide, javaSide, locals
<1> QED BY <1>1, <1>2, <1>3, <1>4, <1>5 DEF Next

THEOREM Invariance == Spec => []IInv
  BY InitInv, StepKeepsInv, PTL DEF Spec

-----------------------------------------------------------------------------

\* The variables keep their types.
THEOREM TypeCorrect == Spec => []TypeOK
  BY Invariance, PTL DEF IInv

\* Whatever threads and finalizers destroy a proxy, with or without Java
\* assertions, its CppProxyHandle is deleted at most once.
THEOREM FreedOnce == Spec => []HandleFreedOnce
<1>1. IInv => HandleFreedOnce
  BY DEF IInv, Freeing, HandleFreedOnce
<1> QED BY <1>1, Invariance, PTL

\* No call and no argument ever meets a freed Handle of a proxy that nobody
\* destroys by hand and no finalizer brings back.
THEOREM UseSafe == Spec => []NoUseAfterFree
<1>1. IInv => NoUseAfterFree
  BY DEF IInv, FlagFirst, Busy, CollectedFirst, Reachable, Plain, Born,
         NoUseAfterFree
<1> QED BY <1>1, Invariance, PTL

\* What the cache hands out for an object that C++ has is the proxy of this very
\* object, also where others were at its address before, and it has its Handle,
\* unless that very proxy was destroyed by hand and Java still has it.
THEOREM CacheSafe == Spec => []CacheFresh
<1>1. ASSUME IInv, NEW i \in Impls, cppRefs[i] # {}, Cached(AddrOf[i]),
             ~ByHand(cache[AddrOf[i]])
      PROVE  implOf[cache[AddrOf[i]]] = i /\ handle[cache[AddrOf[i]]] = "open"
  <2> DEFINE p == cache[AddrOf[i]]
  <2>1. p \in Proxies /\ AddrOf[implOf[p]] = AddrOf[i] /\ java[p] = "live"
    BY <1>1, AddrAssumption DEF Cached, Upgradable, IInv, TypeOK, Busy
  <2>2. implOf[p] \in Impls /\ handle[p] = "open"
    BY <1>1, <2>1 DEF IInv, FlagFirst, Born, ByHand
  <2>3. Alive(implOf[p]) /\ Alive(i)
    BY <1>1, <2>1, <2>2 DEF Alive
  <2> QED BY <1>1, <2>1, <2>2, <2>3 DEF IInv, OneEach
<1>2. IInv => CacheFresh
  BY <1>1 DEF CacheFresh
<1> QED BY <1>2, Invariance, PTL
=============================================================================
