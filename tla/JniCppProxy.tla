---------------------------- MODULE JniCppProxy -----------------------------
(***************************************************************************)
(* The life of a Java CppProxy: the Java object that stands for a C++      *)
(* implementation (JavaGenerator.scala, JNIGenerator.scala, JniInterface   *)
(* in djinni_support.hpp).  It stores the address of a CppProxyHandle as a *)
(* number, nativeRef, which nothing but the discipline modelled here keeps *)
(* valid: finalize() frees the Handle, and so does the public method       *)
(* _djinni_private_destroy(), while other threads may call the proxy, pass *)
(* it to C++ or receive it again from C++.                                 *)
(*                                                                         *)
(* JniCppProxyCache's get() and remove() are single steps here: module     *)
(* ProxyCache shows that they behave so.  As there, implementations have   *)
(* an identity and an address, and several may have the same address, one  *)
(* after the other.  A thread runs both C++ and Java.                      *)
(***************************************************************************)
EXTENDS Naturals

CONSTANTS
    Threads,          \* threads that run application code
    Finalizers,       \* threads that run Java finalizers
    Impls,            \* C++ implementations, each born at most once
    Addrs,            \* the addresses they may have
    AddrOf,           \* Impls -> Addrs
    Proxies,          \* CppProxy objects, each made at most once
    Closeable,        \* those that somebody calls _djinni_private_destroy() on
    Resurrectable,    \* those that a finalizer of the application's reaches
    Asserts,          \* are Java assertions enabled?
    None

ASSUME WorkersAssumption == Threads \cap Finalizers = {}
ASSUME AddrAssumption    == AddrOf \in [Impls -> Addrs]
ASSUME KindsAssumption   == Closeable \cup Resurrectable \subseteq Proxies
ASSUME AssertsAssumption == Asserts \in BOOLEAN
ASSUME NoProxyAssumption == None \notin Impls \cup Proxies

Workers == Threads \cup Finalizers

VARIABLES
    born,       \* the implementations allocated so far
    cppRefs,    \* cppRefs[i]: the threads that own a shared_ptr to i
    cache,      \* jniCppProxyCache: cache[a] is the proxy that the WeakRef at the
                \* key a refers to
    java,       \* java[p]: "unborn", "live", "cleared" (WeakReferences to p
                \* are), "finalized" (its finalize() has started)
    javaRefs,   \* javaRefs[p]: the threads that hold a reference to p
    implOf,     \* implOf[p]: what p's Handle owns
    handle,     \* handle[p]: p's CppProxyHandle, "none", "open" or "freed"
    destroyed,  \* p.destroyed
    at, on      \* what each thread is doing, and on which proxy

cppSide  == <<born, cppRefs, cache>>
javaSide == <<java, javaRefs>>
locals   == <<at, on>>
vars     == <<cppSide, javaSide, implOf, handle, destroyed, locals>>

TypeOK ==
    /\ born \in SUBSET Impls
    /\ cppRefs \in [Impls -> SUBSET Threads]
    /\ cache \in [Addrs -> Proxies \cup {None}]
    /\ java \in [Proxies -> {"unborn", "live", "cleared", "finalized"}]
    /\ javaRefs \in [Proxies -> SUBSET Threads]
    /\ implOf \in [Proxies -> Impls \cup {None}]
    /\ handle \in [Proxies -> {"none", "open", "freed"}]
    /\ destroyed \in [Proxies -> BOOLEAN]
    /\ at \in [Workers -> {"idle", "checked", "native", "unwrap", "freeing"}]
    /\ on \in [Workers -> Proxies \cup {None}]

Init ==
    /\ born = {}
    /\ cppRefs = [i \in Impls |-> {}]
    /\ cache = [a \in Addrs |-> None]
    /\ java = [p \in Proxies |-> "unborn"]
    /\ javaRefs = [p \in Proxies |-> {}]
    /\ implOf = [p \in Proxies |-> None]
    /\ handle = [p \in Proxies |-> "none"]
    /\ destroyed = [p \in Proxies |-> FALSE]
    /\ at = [t \in Workers |-> "idle"]
    /\ on = [t \in Workers |-> None]

Goto(t, step, p) == /\ at' = [at EXCEPT ![t] = step]
                    /\ on' = [on EXCEPT ![t] = p]

\* A Java reference to p that t may use.
Has(t, p) == at[t] = "idle" /\ t \in javaRefs[p]

\* An implementation lives while C++ or a Handle owns it.
Alive(i) == cppRefs[i] # {}
            \/ \E p \in Proxies : implOf[p] = i /\ handle[p] = "open"

\* Mutant: JNI's WeakGlobalRef, good until the finalizer has run.
Upgradable_WeakGlobal(p) == java[p] \in {"live", "cleared"}
\* Mutant: a PhantomReference, cleared after finalization.
Upgradable_Phantom(p) == java[p] # "unborn"
\* JavaWeakRef::lock() finds p.
Upgradable(p) == java[p] = "live"
Cached(a) == cache[a] # None /\ Upgradable(cache[a])

-----------------------------------------------------------------------------
(* C++ makes, owns and drops implementations, and passes them to Java.     *)

\* An allocation may be given the address of an object that is no more.
NewImpl(t, i) ==
    /\ at[t] = "idle" /\ i \notin born
    /\ \A j \in Impls : AddrOf[j] = AddrOf[i] => ~Alive(j)
    /\ born' = born \cup {i}
    /\ cppRefs' = [cppRefs EXCEPT ![i] = {t}]
    /\ UNCHANGED <<cache, javaSide, implOf, handle, destroyed, locals>>

DropImpl(t, i) ==
    /\ at[t] = "idle" /\ t \in cppRefs[i]
    /\ cppRefs' = [cppRefs EXCEPT ![i] = @ \ {t}]
    /\ UNCHANGED <<born, cache, javaSide, implOf, handle, destroyed, locals>>

\* _toJava(), case 3: the proxy the cache knows.
ToJavaCached(t, i) ==
    /\ at[t] = "idle" /\ t \in cppRefs[i]
    /\ Cached(AddrOf[i])
    /\ javaRefs' = [javaRefs EXCEPT ![cache[AddrOf[i]]] = @ \cup {t}]
    /\ UNCHANGED <<cppSide, java, implOf, handle, destroyed, locals>>

\* Mutant: newCppProxy() returns its two results in the wrong order.
Emplace_Swapped(a, p) == cache' = [cache EXCEPT ![a] = a]
Emplace(a, p) == cache' = [cache EXCEPT ![a] = p]

\* _toJava(), case 4: newCppProxy() makes a Handle and a proxy for it.
ToJavaNew(t, i, p) ==
    /\ at[t] = "idle" /\ t \in cppRefs[i]
    /\ ~Cached(AddrOf[i])
    /\ java[p] = "unborn"
    /\ java' = [java EXCEPT ![p] = "live"]
    /\ javaRefs' = [javaRefs EXCEPT ![p] = {t}]
    /\ implOf' = [implOf EXCEPT ![p] = i]
    /\ handle' = [handle EXCEPT ![p] = "open"]
    /\ Emplace(AddrOf[i], p)
    /\ UNCHANGED <<born, cppRefs, destroyed, locals>>

-----------------------------------------------------------------------------
(* Java uses proxies.                                                      *)

ShareProxy(t, u, p) ==
    /\ Has(t, p)
    /\ javaRefs' = [javaRefs EXCEPT ![p] = @ \cup {u}]
    /\ UNCHANGED <<cppSide, java, implOf, handle, destroyed, locals>>

DropProxy(t, p) ==
    /\ Has(t, p)
    /\ javaRefs' = [javaRefs EXCEPT ![p] = @ \ {t}]
    /\ UNCHANGED <<cppSide, java, implOf, handle, destroyed, locals>>

\* A method of the proxy: assert !destroyed.get() ...
CallCheck(t, p) ==
    /\ Has(t, p)
    /\ Asserts => ~destroyed[p]
    /\ Goto(t, "checked", p)
    /\ UNCHANGED <<cppSide, javaSide, implOf, handle, destroyed>>

\* ... then native_m(nativeRef): objectFromHandleAddress() reads the Handle
\* and the implementation runs on a reference into it, without owning a copy.
CallEnter(t) ==
    /\ at[t] = "checked"
    /\ Goto(t, "native", on[t])
    /\ UNCHANGED <<cppSide, javaSide, implOf, handle, destroyed>>

CallExit(t) ==
    /\ at[t] = "native"
    /\ Goto(t, "idle", None)
    /\ UNCHANGED <<cppSide, javaSide, implOf, handle, destroyed>>

\* _fromJava(), case 2, of an argument: GetLongField(nativeRef), with no look
\* at `destroyed` ...
ArgRead(t, p) ==
    /\ Has(t, p)
    /\ Goto(t, "unwrap", p)
    /\ UNCHANGED <<cppSide, javaSide, implOf, handle, destroyed>>

\* ... then the shared_ptr is copied out of the Handle.
ArgCopy(t) ==
    /\ at[t] = "unwrap"
    /\ cppRefs' = IF handle[on[t]] = "open"
                  THEN [cppRefs EXCEPT ![implOf[on[t]]] = @ \cup {t}]
                  ELSE cppRefs
    /\ Goto(t, "idle", None)
    /\ UNCHANGED <<born, cache, javaSide, implOf, handle, destroyed>>

-----------------------------------------------------------------------------
(* The end of a proxy.                                                     *)

\* Mutant: `if (!destroyed.get()) nativeDestroy()`.
GetAndSet_Get(t, p) ==
    /\ UNCHANGED destroyed
    /\ IF destroyed[p] THEN UNCHANGED locals ELSE Goto(t, "freeing", p)
\* _djinni_private_destroy(): if (!destroyed.getAndSet(true)) nativeDestroy().
GetAndSet(t, p) ==
    /\ destroyed' = [destroyed EXCEPT ![p] = TRUE]
    /\ IF destroyed[p] THEN UNCHANGED locals ELSE Goto(t, "freeing", p)

Destroy(t, p) ==
    /\ p \in Closeable
    /\ Has(t, p)
    /\ GetAndSet(t, p)
    /\ UNCHANGED <<cppSide, javaSide, implOf, handle>>

\* The collector clears the WeakReferences to p: no thread has a reference to
\* it, not even as the `this` of a native method or as its argument.
Collect(p) ==
    /\ java[p] = "live" /\ javaRefs[p] = {}
    /\ \A t \in Workers : on[t] # p
    /\ java' = [java EXCEPT ![p] = "cleared"]
    /\ UNCHANGED <<cppSide, javaRefs, implOf, handle, destroyed, locals>>

\* Mutant: finalize() forgets _djinni_private_destroy().
Finalize_Super(t, p) ==
    /\ at[t] = "idle" /\ java[p] = "cleared"
    /\ java' = [java EXCEPT ![p] = "finalized"]
    /\ UNCHANGED <<cppSide, javaRefs, implOf, handle, destroyed, locals>>
\* finalize(), which the virtual machine calls once.
Finalize(t, p) ==
    /\ at[t] = "idle" /\ java[p] = "cleared"
    /\ java' = [java EXCEPT ![p] = "finalized"]
    /\ GetAndSet(t, p)
    /\ UNCHANGED <<cppSide, javaRefs, implOf, handle>>

\* The finalizer of an object that held the last reference to p uses p again;
\* finalizers run in any order.
Resurrect(t, p) ==
    /\ p \in Resurrectable
    /\ at[t] = "idle" /\ java[p] \in {"cleared", "finalized"}
    /\ javaRefs' = [javaRefs EXCEPT ![p] = @ \cup {t}]
    /\ UNCHANGED <<cppSide, java, implOf, handle, destroyed, locals>>

\* nativeDestroy(): ~Handle erases the entry if it has expired (a live one is
\* taken to be that of another proxy) and lets go of the implementation.
Free(t) ==
    /\ at[t] = "freeing"
    /\ LET p == on[t]
           a == AddrOf[implOf[p]]
       IN  /\ cache' = [cache EXCEPT ![a] = IF Cached(a) THEN @ ELSE None]
           /\ handle' = [handle EXCEPT ![p] = "freed"]
    /\ Goto(t, "idle", None)
    /\ UNCHANGED <<born, cppRefs, javaSide, implOf, destroyed>>

-----------------------------------------------------------------------------

Step(t) == CallEnter(t) \/ CallExit(t) \/ ArgCopy(t) \/ Free(t)

App(t) ==
    \/ \E i \in Impls : NewImpl(t, i) \/ DropImpl(t, i) \/ ToJavaCached(t, i)
    \/ \E i \in Impls, p \in Proxies : ToJavaNew(t, i, p)
    \/ \E p \in Proxies : \/ DropProxy(t, p) \/ CallCheck(t, p) \/ ArgRead(t, p)
                          \/ Destroy(t, p) \/ Resurrect(t, p)
    \/ \E p \in Proxies, u \in Threads : ShareProxy(t, u, p)

Next ==
    \/ \E t \in Threads : App(t)
    \/ \E t \in Workers : Step(t)
    \/ \E p \in Proxies : Collect(p)
    \/ \E t \in Finalizers, p \in Proxies : Finalize(t, p)

Spec == Init /\ [][Next]_vars

\* Native code returns and finalizers are run; nothing forces a collection.
Fairness ==
    /\ \A t \in Workers : WF_vars(Step(t))
    /\ \A t \in Finalizers : WF_vars(\E p \in Proxies : Finalize(t, p))

FairSpec == Spec /\ Fairness

-----------------------------------------------------------------------------
(* Properties.                                                             *)

\* While C++ runs a method of an implementation, or is about to copy the
\* shared_ptr out of a Handle, that Handle has not been freed: unless its own
\* proxy is destroyed by hand or brought back, whatever happens to others.
NoUseAfterFree ==
    \A t \in Workers :
        at[t] \in {"native", "unwrap"} /\ on[t] \notin Closeable \cup Resurrectable
            => handle[on[t]] = "open"

\* However many threads and the finalizer destroy a proxy, its Handle is
\* deleted once: whoever is about to delete it is alone and it is still there.
HandleFreedOnce ==
    \A t \in Workers : at[t] = "freeing" =>
        /\ handle[on[t]] = "open"
        /\ \A u \in Workers : at[u] = "freeing" /\ on[u] = on[t] => u = t

\* What the cache would hand out for an object that C++ has is the proxy of this
\* very object, not of a former one at its address, and has its Handle; only a
\* proxy that was destroyed by hand, and is still referred to, stays behind and
\* may be found in its place.
ByHand(p) == destroyed[p] /\ java[p] = "live"

CacheFresh ==
    \A i \in Impls : cppRefs[i] # {} /\ Cached(AddrOf[i]) =>
        LET p == cache[AddrOf[i]]
        IN  ByHand(p) \/ (implOf[p] = i /\ handle[p] = "open")

\* A proxy whose weak references were cleared lets go of its implementation.
EventuallyFreed ==
    \A p \in Proxies : java[p] = "cleared" ~> handle[p] = "freed"
=============================================================================
