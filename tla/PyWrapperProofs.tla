-------------------------- MODULE PyWrapperProofs --------------------------
(***************************************************************************)
(* Proofs about PyWrapper, for any finite number of threads and CppProxies *)
(* and any number of objects, handles and wrappers.                        *)
(*                                                                         *)
(* The counts are the heart of it: RefsCounted says what a count is the    *)
(* number of, and each step adds or takes one owner together with one      *)
(* count.  From it a wrapper that somebody owns is never deleted, so its   *)
(* shared_ptr keeps the PythonProxy and the PythonProxy its handle         *)
(* (HandlesHeld), and what arrives is what was sent (RightObject).         *)
(***************************************************************************)
EXTENDS PyWrapper, FiniteSetTheorems, TLAPS

\* A thread is at a wrapper exactly while it converts.
Resting == \A t \in Threads : at[t] = "idle" <=> arg[t] = None

\* Python has no name for a CppProxy that was collected.
NamedLive == \A p \in CppProxies : Named(p) => impl[p] # None

\* A CppProxy is of an implementation in C++: a Python object that comes back
\* from C++ is never seen through a second proxy.
ProxyOfCpp == \A p \in CppProxies : impl[p] # None => wrapped[impl[p]] \in CppObjs

IInv ==
    TypeOK /\ Resting /\ NamedLive /\ ProxyOfCpp
           /\ RefsCounted /\ HandlesHeld /\ RightObject

-----------------------------------------------------------------------------
(* What the invariant says of a wrapper, of a conversion and of a proxy.   *)

LEMMA OwnersFinite ==
  ASSUME NEW w
  PROVE  IsFiniteSet(Owners(w)) /\ Cardinality(Owners(w)) \in Nat
  <1>1. IsFiniteSet(CppProxies \cup Threads)
    BY FS_Union, FiniteAssumption
  <1>2. Owners(w) \in SUBSET (CppProxies \cup Threads)
    BY DEF Owners
  <1>3. IsFiniteSet(Owners(w))
    BY <1>1, <1>2, FS_Subset
  <1>4. QED
    BY <1>3, FS_CardinalityType

LEMMA NoneFree ==
  ASSUME IInv, NEW w \in Wrappers, Free(w)
  PROVE  /\ count[w] = 0 /\ w \notin lost
         /\ Owners(w) = {} /\ Deleters(w) = {}
  <1>1. count[w] \in Nat
    BY DEF IInv, TypeOK
  <1>2. /\ count[w] = Cardinality(Owners(w)) + (IF w \in lost THEN 1 ELSE 0)
        /\ ~(count[w] > 0) /\ Deleters(w) = {}
    BY DEF IInv, RefsCounted
  <1>3. Cardinality(Owners(w)) = 0 /\ w \notin lost
    BY <1>1, <1>2, OwnersFinite
  <1>4. Owners(w) = {}
    BY <1>3, OwnersFinite, FS_EmptySet
  <1>5. QED
    BY <1>1, <1>2, <1>3, <1>4

LEMMA OwnedLives ==
  ASSUME IInv, NEW w \in Wrappers, NEW x \in Owners(w)
  PROVE  /\ count[w] \in Nat /\ count[w] > 0
         /\ ~Free(w) /\ wrapped[w] \in Shared
         /\ Deleters(w) = {}
  <1>1. count[w] \in Nat /\ wrapped[w] \in Shared \cup {None}
    BY DEF IInv, TypeOK
  <1>2. Cardinality(Owners(w)) # 0
    BY OwnersFinite, FS_EmptySet
  <1>3. count[w] > 0
    <2>1. count[w] = Cardinality(Owners(w)) + (IF w \in lost THEN 1 ELSE 0)
      BY DEF IInv, RefsCounted
    <2>2. QED
      BY <2>1, <1>2, OwnersFinite
  <1>4. ~Free(w) /\ Deleters(w) = {}
    BY <1>1, <1>3 DEF IInv, RefsCounted
  <1>5. QED
    BY <1>1, <1>3, <1>4 DEF Free

LEMMA Converting ==
  ASSUME IInv, NEW t \in Threads, at[t] # "idle"
  PROVE  /\ arg[t] \in Wrappers
         /\ ~Free(arg[t]) /\ wrapped[arg[t]] \in Shared
         /\ at[t] # "delete" =>
              t \in Owners(arg[t]) /\ count[arg[t]] > 0 /\ Deleters(arg[t]) = {}
         /\ at[t] = "delete" =>
              t \in Deleters(arg[t]) /\ count[arg[t]] = 0 /\ Owners(arg[t]) = {}
  <1>1. arg[t] \in Wrappers
    BY DEF IInv, TypeOK, Resting
  <1>2. CASE at[t] = "delete"
    <2>1. t \in Deleters(arg[t])
      BY <1>1, <1>2 DEF Deleters
    <2>2. ~Free(arg[t]) /\ count[arg[t]] = 0
      BY <1>1, <2>1 DEF IInv, RefsCounted
    <2>3. wrapped[arg[t]] \in Shared
      BY <1>1, <2>2 DEF IInv, TypeOK, Free
    <2>4. Owners(arg[t]) = {}
      BY <1>1, <2>1, OwnedLives
    <2>5. QED
      BY <1>1, <1>2, <2>1, <2>2, <2>3, <2>4
  <1>3. CASE at[t] # "delete"
    <2>1. t \in Owners(arg[t])
      BY <1>1, <1>3 DEF Owners
    <2>2. QED
      BY <1>1, <1>3, <2>1, OwnedLives
  <1>4. QED
    BY <1>2, <1>3

LEMMA ProxyLives ==
  ASSUME IInv, NEW p \in CppProxies, impl[p] # None
  PROVE  /\ impl[p] \in Wrappers /\ p \in Owners(impl[p])
         /\ ~Free(impl[p]) /\ wrapped[impl[p]] \in CppObjs
         /\ Deleters(impl[p]) = {}
  <1>1. impl[p] \in Wrappers /\ p \in Owners(impl[p])
    BY DEF IInv, TypeOK, Owners
  <1>2. wrapped[impl[p]] \in CppObjs
    BY DEF IInv, ProxyOfCpp
  <1>3. QED
    BY <1>1, <1>2, OwnedLives

LEMMA MeaningType ==
  ASSUME TypeOK, NEW o \in Shared \cup {None}
  PROVE  Meaning(o) \in PyObjs \cup CppObjs \cup {None}
  BY NoneAssumption DEF TypeOK, Meaning, Shared

LEMMA Add ==
  ASSUME NEW S, NEW x, IsFiniteSet(S), x \notin S
  PROVE  Cardinality(S \cup {x}) = Cardinality(S) + 1
  BY FS_AddElement

LEMMA Take ==
  ASSUME NEW S, NEW x \in S, IsFiniteSet(S)
  PROVE  Cardinality(S \ {x}) = Cardinality(S) - 1
  BY FS_RemoveElement

-----------------------------------------------------------------------------
(* Types, and the small conjuncts.                                         *)

LEMMA TypeNext ==
  ASSUME IInv, Next
  PROVE  TypeOK'
  <1> USE DEF IInv, TypeOK
  <1>0. PICK t \in Threads : App(t) \/ Step(t) \/ Collect(t)
    BY DEF Next
  <1>1. ASSUME NEW x \in PyObjs, NewPy(t, x)  PROVE TypeOK'
    BY <1>1 DEF NewPy, objects, Python
  <1>2. ASSUME NEW x \in Python, NEW u \in Threads, SharePy(t, u, x)  PROVE TypeOK'
    BY <1>2 DEF SharePy, objects
  <1>3. ASSUME NEW x \in Python, DropPy(t, x)  PROVE TypeOK'
    BY <1>3 DEF DropPy, objects
  <1>4. ASSUME NEW o \in CppObjs, NewCpp(t, o)  PROVE TypeOK'
    BY <1>4 DEF NewCpp, objects, Shared
  <1>5. ASSUME NEW o \in Shared, NEW u \in Threads, ShareCpp(t, u, o)  PROVE TypeOK'
    BY <1>5 DEF ShareCpp, objects
  <1>6. ASSUME NEW o \in Shared, DropCpp(t, o)  PROVE TypeOK'
    BY <1>6 DEF DropCpp, Release
  <1>7. ASSUME NEW p \in CppProxies, FromPyProxy(t, p)  PROVE TypeOK'
    <2>1. impl[p] \in Wrappers
      BY <1>7, ProxyLives DEF FromPyProxy, NamedLive, Named
    <2>2. Meaning(wrapped[impl[p]]) \in PyObjs \cup CppObjs \cup {None}
      BY <2>1, MeaningType
    <2>3. QED
      BY <1>7, <2>1, <2>2 DEF FromPyProxy, AddRef, Goto
  <1>8. ASSUME NEW x \in PyObjs, NEW h \in Handles, NEW w \in Wrappers, FromPyObject(t, x, h, w)
        PROVE  TypeOK'
    BY <1>8 DEF FromPyObject, Goto, Shared
  <1>9. ASSUME NEW o \in Shared, NEW w \in Wrappers, Wrap(t, o, w)  PROVE TypeOK'
    <2>1. Meaning(o) \in PyObjs \cup CppObjs \cup {None}
      BY MeaningType
    <2>2. QED
      BY <1>9, <2>1 DEF Wrap, Goto
  <1>10. CASE Get(t)
    BY <1>10, Converting DEF Get, Goto, objects
  <1>11. CASE FromPyFails(t)
    BY <1>11, Converting DEF FromPyFails, Goto, objects
  <1>12. CASE ToPyObject(t)
    <2>1. arg[t] \in Wrappers /\ wrapped[arg[t]] \in Handles /\ ~Free(arg[t])
      BY <1>12, Converting DEF ToPyObject
    <2>2. self[wrapped[arg[t]]] \in PyObjs
      BY <2>1 DEF HandlesHeld, Owned
    <2>3. QED
      BY <1>12, <2>1, <2>2 DEF ToPyObject, AfterUnwrap, Goto, objects, Python
  <1>13. ASSUME NEW p \in CppProxies, ToPyProxy(t, p)  PROVE TypeOK'
    BY <1>13, Converting DEF ToPyProxy, Goto, Python
  <1>14. CASE DecRef(t)
    <2>1. arg[t] \in Wrappers /\ count[arg[t]] > 0
      BY <1>14, Converting DEF DecRef
    <2>2. count[arg[t]] - 1 \in Nat
      BY <2>1
    <2>3. count' \in [Wrappers -> Nat]
      BY <1>14, <2>2 DEF DecRef
    <2>4. QED
      BY <1>14, <2>1, <2>3 DEF DecRef, Goto
  <1>15. CASE Delete(t)
    BY <1>15, Converting DEF Delete, Release, Goto
  <1>16. ASSUME NEW p \in CppProxies, Del(t, p)  PROVE TypeOK'
    BY <1>16 DEF Del, Goto
  <1>17. QED
    BY <1>0, <1>1, <1>2, <1>3, <1>4, <1>5, <1>6, <1>7, <1>8, <1>9, <1>10, <1>11,
       <1>12, <1>13, <1>14, <1>15, <1>16 DEF App, Step, Collect

\* A step that leaves the wrappers, their owners and the threads alone.
Quiet == UNCHANGED <<wrapped, count, impl, at, arg, lost>>

LEMMA QuietNext ==
  ASSUME IInv, NEW t \in Threads, App(t)
  PROVE  \/ Quiet /\ UNCHANGED stands
         \/ \E p \in CppProxies : FromPyProxy(t, p)
         \/ \E x \in PyObjs, h \in Handles, w \in Wrappers : FromPyObject(t, x, h, w)
         \/ \E o \in Shared, w \in Wrappers : Wrap(t, o, w)
  BY DEF App, Quiet, NewPy, SharePy, DropPy, NewCpp, ShareCpp, DropCpp, objects

LEMMA RestingNext ==
  ASSUME IInv, Next
  PROVE  Resting'
  <1> USE NoneAssumption DEF IInv, TypeOK, Resting
  <1>0. PICK t \in Threads : App(t) \/ Step(t) \/ Collect(t)
    BY DEF Next
  <1>1. CASE Quiet
    BY <1>1 DEF Quiet
  <1>2. ASSUME NEW p \in CppProxies, FromPyProxy(t, p)  PROVE Resting'
    BY <1>2, ProxyLives DEF FromPyProxy, NamedLive, Named, Goto
  <1>3. ASSUME NEW x \in PyObjs, NEW h \in Handles, NEW w \in Wrappers, FromPyObject(t, x, h, w)
        PROVE  Resting'
    BY <1>3 DEF FromPyObject, Goto
  <1>4. ASSUME NEW o \in Shared, NEW w \in Wrappers, Wrap(t, o, w)  PROVE Resting'
    BY <1>4 DEF Wrap, Goto
  <1>5. CASE Get(t)
    BY <1>5 DEF Get, Goto
  <1>6. CASE FromPyFails(t)
    BY <1>6 DEF FromPyFails, Goto
  <1>7. CASE ToPyObject(t)
    BY <1>7 DEF ToPyObject, AfterUnwrap, Goto
  <1>8. ASSUME NEW p \in CppProxies, ToPyProxy(t, p)  PROVE Resting'
    BY <1>8 DEF ToPyProxy, Goto
  <1>9. CASE DecRef(t)
    BY <1>9 DEF DecRef, Goto
  <1>10. CASE Delete(t)
    BY <1>10 DEF Delete, Goto
  <1>11. ASSUME NEW p \in CppProxies, Del(t, p)  PROVE Resting'
    BY <1>11 DEF Del, Goto
  <1>12. QED
    BY <1>0, <1>1, <1>2, <1>3, <1>4, <1>5, <1>6, <1>7, <1>8, <1>9, <1>10, <1>11,
       QuietNext DEF Step, Collect

LEMMA NamedLiveNext ==
  ASSUME IInv, Next
  PROVE  NamedLive'
  <1>1. SUFFICES ASSUME NEW p \in CppProxies, Named(p)'
                 PROVE  impl'[p] # None
    BY DEF NamedLive
  <1>2. PICK u \in Threads : p \in pyRefs'[u]
    BY <1>1 DEF Named
  <1>3. PICK t \in Threads : App(t) \/ Step(t) \/ Collect(t)
    BY DEF Next
  <1>4. CASE Named(p)
    <2>1. impl[p] # None
      BY <1>4 DEF IInv, NamedLive
    <2>2. CASE impl'[p] = impl[p]
      BY <2>1, <2>2
    <2>3. ASSUME NEW q \in CppProxies, ToPyProxy(t, q)  PROVE impl'[p] # None
      <3>1. arg[t] # None
        BY <2>3, Converting, NoneAssumption DEF ToPyProxy
      <3>2. QED
        BY <2>1, <2>3, <3>1 DEF ToPyProxy, IInv, TypeOK
    <2>4. ASSUME NEW q \in CppProxies, Del(t, q)  PROVE impl'[p] # None
      BY <1>4, <2>1, <2>4 DEF Del, IInv, TypeOK
    <2>5. QED
      BY <1>3, <2>2, <2>3, <2>4, QuietNext DEF Quiet, Step, Collect, FromPyProxy, FromPyObject,
         Wrap, Get, FromPyFails, ToPyObject, DecRef, Delete, objects
  <1>5. CASE ~Named(p)
    <2>1. p \notin pyRefs[u] /\ p \notin PyObjs
      BY <1>5, DisjointAssumption DEF Named
    <2>2. CASE UNCHANGED pyRefs
      BY <1>2, <2>1, <2>2
    <2>3. ASSUME NEW x \in PyObjs, NewPy(t, x)  PROVE FALSE
      BY <1>2, <2>1, <2>3 DEF NewPy, IInv, TypeOK
    <2>4. ASSUME NEW x \in Python, NEW v \in Threads, SharePy(t, v, x)  PROVE FALSE
      BY <1>2, <1>5, <2>1, <2>4 DEF SharePy, IInv, TypeOK, Named
    <2>5. ASSUME NEW x \in Python, DropPy(t, x)  PROVE FALSE
      BY <1>2, <2>1, <2>5 DEF DropPy, IInv, TypeOK
    <2>6. ASSUME ToPyObject(t)  PROVE FALSE
      <3>1. wrapped[arg[t]] \in Handles /\ arg[t] \in Wrappers
        BY <2>6, Converting DEF ToPyObject
      <3>2. self[wrapped[arg[t]]] # None
        BY <3>1 DEF IInv, HandlesHeld, Owned
      <3>3. self[wrapped[arg[t]]] \in PyObjs
        BY <3>1, <3>2 DEF IInv, TypeOK
      <3>4. QED
        BY <1>2, <2>1, <2>6, <3>3 DEF ToPyObject, IInv, TypeOK
    <2>7. ASSUME NEW q \in CppProxies, ToPyProxy(t, q)  PROVE impl'[p] # None
      <3>1. arg[t] # None
        BY <2>7, Converting, NoneAssumption DEF ToPyProxy
      <3>2. p = q
        BY <1>2, <2>1, <2>7 DEF ToPyProxy, IInv, TypeOK
      <3>3. QED
        BY <2>7, <3>1, <3>2 DEF ToPyProxy, IInv, TypeOK
    <2>8. QED
      BY <1>3, <2>2, <2>3, <2>4, <2>5, <2>6, <2>7 DEF App, Step, Collect, NewCpp, ShareCpp,
         DropCpp, FromPyProxy, FromPyObject, Wrap, Get, FromPyFails, DecRef, Delete, Del
  <1>6. QED
    BY <1>4, <1>5

-----------------------------------------------------------------------------
(* Counts.                                                                 *)

\* RefsCounted, of one wrapper.
Counted(w) ==
    /\ count[w] = Cardinality(Owners(w)) + (IF w \in lost THEN 1 ELSE 0)
    /\ ~Free(w) <=> count[w] > 0 \/ Deleters(w) # {}
    /\ Deleters(w) # {} => count[w] = 0
    /\ \A t, u \in Deleters(w) : t = u

\* What Counted(w) speaks of, when it is given as numbers and sets: an owner is
\* added, taken or exchanged with the count that stands for it.
LEMMA CountedSame ==
  ASSUME NEW w, Counted(w), count'[w] = count[w], wrapped'[w] = wrapped[w],
         Owners(w)' = Owners(w), Deleters(w)' = Deleters(w), w \in lost' <=> w \in lost
  PROVE  Counted(w)'
  BY DEF Counted, Free

LEMMA CountedNew ==
  ASSUME IInv, NEW w \in Wrappers, Free(w), NEW t,
         count'[w] = 1, wrapped'[w] # None,
         Owners(w)' = Owners(w) \cup {t}, Deleters(w)' = Deleters(w),
         w \in lost' <=> w \in lost
  PROVE  Counted(w)'
  <1>1. Owners(w)' = {t} /\ Deleters(w)' = {} /\ w \notin lost'
    BY NoneFree
  <1>2. Cardinality(Owners(w)') = 1
    BY <1>1, FS_Singleton
  <1>3. QED
    BY <1>1, <1>2 DEF Counted, Free

LEMMA CountedSwap ==
  ASSUME IInv, NEW w \in Wrappers, NEW x \in Owners(w), NEW y, y \notin Owners(w),
         count'[w] = count[w], wrapped'[w] = wrapped[w],
         Owners(w)' = (Owners(w) \ {x}) \cup {y}, Deleters(w)' = Deleters(w),
         w \in lost' <=> w \in lost
  PROVE  Counted(w)'
  <1>1. IsFiniteSet(Owners(w)) /\ Cardinality(Owners(w)) \in Nat
    BY OwnersFinite
  <1>2. Cardinality(Owners(w) \ {x}) = Cardinality(Owners(w)) - 1 /\ IsFiniteSet(Owners(w) \ {x})
    BY <1>1, Take, FS_RemoveElement
  <1>3. Cardinality(Owners(w)') = Cardinality(Owners(w) \ {x}) + 1
    BY <1>2, Add
  <1>4. Cardinality(Owners(w)') = Cardinality(Owners(w))
    BY <1>1, <1>2, <1>3
  <1>5. Counted(w)
    BY DEF IInv, RefsCounted, Counted
  <1>6. QED
    BY <1>4, <1>5 DEF Counted, Free

LEMMA CountsFromPyProxy ==
  ASSUME IInv, NEW t \in Threads, NEW p \in CppProxies, FromPyProxy(t, p), NEW w \in Wrappers
  PROVE  Counted(w)'
  <1>1. Counted(w)
    BY DEF IInv, RefsCounted, Counted
  <1>2. /\ impl[p] \in Wrappers /\ p \in Owners(impl[p])
        /\ at[t] = "idle" /\ arg[t] = None
    BY ProxyLives DEF FromPyProxy, Idle, IInv, NamedLive, Named, Resting
  <1>3. /\ impl' = impl /\ wrapped' = wrapped /\ lost' = lost
        /\ at' = [at EXCEPT ![t] = "toCpp"] /\ arg' = [arg EXCEPT ![t] = impl[p]]
        /\ count' = [count EXCEPT ![impl[p]] = @ + 1]
    BY DEF FromPyProxy, AddRef, Goto
  <1>4. Deleters(w)' = Deleters(w)
    BY <1>2, <1>3, NoneAssumption DEF Deleters, IInv, TypeOK
  <1>5. CASE w # impl[p]
    <2>1. Owners(w)' = Owners(w)
      BY <1>2, <1>3, <1>5, NoneAssumption DEF Owners, IInv, TypeOK
    <2>2. QED
      BY <1>1, <1>3, <1>4, <1>5, <2>1, CountedSame DEF IInv, TypeOK
  <1>6. CASE w = impl[p]
    <2>1. Owners(w)' = Owners(w) \cup {t} /\ t \notin Owners(w)
      BY <1>2, <1>3, <1>6, NoneAssumption, DisjointAssumption DEF Owners, IInv, TypeOK
    <2>2. Cardinality(Owners(w)') = Cardinality(Owners(w)) + 1
      BY <2>1, OwnersFinite, Add
    <2>3. count[w] \in Nat /\ ~Free(w) /\ Deleters(w) = {} /\ count'[w] = count[w] + 1
      BY <1>2, <1>3, <1>6, OwnedLives DEF IInv, TypeOK
    <2>4. count'[w] = Cardinality(Owners(w)') + (IF w \in lost' THEN 1 ELSE 0)
      BY <1>1, <1>3, <2>2, <2>3, OwnersFinite DEF Counted
    <2>5. QED
      BY <1>3, <1>4, <2>3, <2>4 DEF Counted, Free
  <1>7. QED
    BY <1>5, <1>6

LEMMA CountsNewWrapper ==
  ASSUME IInv, NEW t \in Threads, NEW v \in Wrappers, NEW o \in Shared,
         NEW step \in {"toCpp", "toPy"}, Idle(t), Free(v),
         wrapped' = [wrapped EXCEPT ![v] = o], count' = [count EXCEPT ![v] = 1],
         at' = [at EXCEPT ![t] = step], arg' = [arg EXCEPT ![t] = v],
         impl' = impl, lost' = lost,
         NEW w \in Wrappers
  PROVE  Counted(w)'
  <1>1. Counted(w)
    BY DEF IInv, RefsCounted, Counted
  <1>2. at[t] = "idle" /\ arg[t] = None /\ o # None
    BY NoneAssumption DEF Idle, IInv, Resting, Shared
  <1>4. Deleters(w)' = Deleters(w)
    BY <1>2, NoneAssumption DEF Deleters, IInv, TypeOK
  <1>5. CASE w # v
    <2>1. Owners(w)' = Owners(w)
      BY <1>2, <1>5, NoneAssumption DEF Owners, IInv, TypeOK
    <2>2. QED
      BY <1>1, <1>4, <1>5, <2>1, CountedSame DEF IInv, TypeOK
  <1>6. CASE w = v
    <2>1. Owners(w)' = Owners(w) \cup {t}
      BY <1>2, <1>6, NoneAssumption DEF Owners, IInv, TypeOK
    <2>2. count'[w] = 1 /\ wrapped'[w] # None
      BY <1>2, <1>6 DEF IInv, TypeOK
    <2>3. QED
      BY <1>4, <1>6, <2>1, <2>2, CountedNew
  <1>7. QED
    BY <1>5, <1>6

\* A step of t that leaves it at its wrapper, which it still owns.
LEMMA CountsStays ==
  ASSUME IInv, NEW t \in Threads, at[t] \notin {"idle", "delete"}, Goto(t, "decRef", arg[t], None),
         UNCHANGED <<wrapped, count, impl, lost>>,
         NEW w \in Wrappers
  PROVE  Counted(w)'
  <1>1. Counted(w)
    BY DEF IInv, RefsCounted, Counted
  <1>2. at' = [at EXCEPT ![t] = "decRef"] /\ arg' = arg
    BY DEF Goto, IInv, TypeOK
  <1>3. Owners(w)' = Owners(w) /\ Deleters(w)' = Deleters(w)
    BY <1>2 DEF Owners, Deleters, IInv, TypeOK
  <1>4. QED
    BY <1>1, <1>3, CountedSame

LEMMA CountsFromPyFails ==
  ASSUME IInv, NEW t \in Threads, FromPyFails(t), NEW w \in Wrappers
  PROVE  Counted(w)'
  <1>1. Counted(w)
    BY DEF IInv, RefsCounted, Counted
  <1>2. /\ at[t] = "toCpp" /\ arg[t] \notin lost /\ lost' = lost \cup {arg[t]}
        /\ impl' = impl /\ wrapped' = wrapped /\ count' = count
        /\ at' = [at EXCEPT ![t] = "idle"] /\ arg' = [arg EXCEPT ![t] = None]
    BY DEF FromPyFails, Goto, objects
  <1>3. arg[t] \in Wrappers /\ t \in Owners(arg[t])
    BY <1>2, Converting
  <1>4. Deleters(w)' = Deleters(w)
    BY <1>2, NoneAssumption DEF Deleters, IInv, TypeOK
  <1>5. CASE w # arg[t]
    <2>1. Owners(w)' = Owners(w)
      BY <1>2, <1>5, NoneAssumption DEF Owners, IInv, TypeOK
    <2>2. QED
      BY <1>1, <1>2, <1>4, <1>5, <2>1, CountedSame
  <1>6. CASE w = arg[t]
    <2>1. Owners(w)' = Owners(w) \ {t}
      BY <1>2, <1>6, NoneAssumption, DisjointAssumption DEF Owners, IInv, TypeOK
    <2>2. Cardinality(Owners(w)') = Cardinality(Owners(w)) - 1
      BY <1>3, <1>6, <2>1, OwnersFinite, Take
    <2>3. count'[w] = Cardinality(Owners(w)') + (IF w \in lost' THEN 1 ELSE 0)
      BY <1>1, <1>2, <1>6, <2>2, OwnersFinite DEF Counted
    <2>4. QED
      BY <1>1, <1>2, <1>4, <2>3 DEF Counted, Free
  <1>7. QED
    BY <1>5, <1>6

LEMMA CountsToPyProxy ==
  ASSUME IInv, NEW t \in Threads, NEW p \in CppProxies, ToPyProxy(t, p), NEW w \in Wrappers
  PROVE  Counted(w)'
  <1>1. Counted(w)
    BY DEF IInv, RefsCounted, Counted
  <1>2. /\ at[t] = "toPy" /\ impl[p] = None /\ lost' = lost
        /\ impl' = [impl EXCEPT ![p] = arg[t]] /\ wrapped' = wrapped /\ count' = count
        /\ at' = [at EXCEPT ![t] = "idle"] /\ arg' = [arg EXCEPT ![t] = None]
    BY DEF ToPyProxy, Goto
  <1>3. arg[t] \in Wrappers /\ t \in Owners(arg[t])
    BY <1>2, Converting
  <1>4. Deleters(w)' = Deleters(w)
    BY <1>2, NoneAssumption DEF Deleters, IInv, TypeOK
  <1>5. CASE w # arg[t]
    <2>1. Owners(w)' = Owners(w)
      BY <1>2, <1>5, NoneAssumption DEF Owners, IInv, TypeOK
    <2>2. QED
      BY <1>1, <1>2, <1>4, <1>5, <2>1, CountedSame
  <1>6. CASE w = arg[t]
    <2>1. p \notin Owners(w) /\ Owners(w)' = (Owners(w) \ {t}) \cup {p}
      BY <1>2, <1>6, NoneAssumption, DisjointAssumption DEF Owners, IInv, TypeOK
    <2>2. QED
      BY <1>2, <1>3, <1>4, <1>6, <2>1, CountedSwap
  <1>7. QED
    BY <1>5, <1>6

LEMMA CountsDel ==
  ASSUME IInv, NEW t \in Threads, NEW p \in CppProxies, Del(t, p), NEW w \in Wrappers
  PROVE  Counted(w)'
  <1>1. Counted(w)
    BY DEF IInv, RefsCounted, Counted
  <1>2. /\ at[t] = "idle" /\ arg[t] = None /\ impl[p] # None /\ lost' = lost
        /\ impl' = [impl EXCEPT ![p] = None] /\ wrapped' = wrapped /\ count' = count
        /\ at' = [at EXCEPT ![t] = "decRef"] /\ arg' = [arg EXCEPT ![t] = impl[p]]
    BY DEF Del, Goto, Idle, IInv, Resting
  <1>3. impl[p] \in Wrappers /\ p \in Owners(impl[p])
    BY <1>2, ProxyLives
  <1>4. Deleters(w)' = Deleters(w)
    BY <1>2, NoneAssumption DEF Deleters, IInv, TypeOK
  <1>5. CASE w # impl[p]
    <2>1. Owners(w)' = Owners(w)
      BY <1>2, <1>5, NoneAssumption DEF Owners, IInv, TypeOK
    <2>2. QED
      BY <1>1, <1>2, <1>4, <1>5, <2>1, CountedSame
  <1>6. CASE w = impl[p]
    <2>1. t \notin Owners(w) /\ Owners(w)' = (Owners(w) \ {p}) \cup {t}
      BY <1>2, <1>6, NoneAssumption, DisjointAssumption DEF Owners, IInv, TypeOK
    <2>2. QED
      BY <1>2, <1>3, <1>4, <1>6, <2>1, CountedSwap
  <1>7. QED
    BY <1>5, <1>6

LEMMA CountsDecRef ==
  ASSUME IInv, NEW t \in Threads, DecRef(t), NEW w \in Wrappers
  PROVE  Counted(w)'
  <1>1. Counted(w)
    BY DEF IInv, RefsCounted, Counted
  <1>2. /\ at[t] = "decRef" /\ lost' = lost /\ impl' = impl /\ wrapped' = wrapped
        /\ count' = [count EXCEPT ![arg[t]] = @ - 1]
        /\ IF Last(t) THEN Goto(t, "delete", arg[t], None) ELSE Goto(t, "idle", None, None)
    BY DEF DecRef
  <1>3. /\ arg[t] \in Wrappers /\ t \in Owners(arg[t])
        /\ ~Free(arg[t]) /\ Deleters(arg[t]) = {}
    BY <1>2, Converting
  <1>4. CASE w # arg[t]
    <2>1. Owners(w)' = Owners(w) /\ Deleters(w)' = Deleters(w)
      BY <1>2, <1>4, NoneAssumption DEF Goto, Owners, Deleters, IInv, TypeOK
    <2>2. QED
      BY <1>1, <1>2, <1>4, <2>1, CountedSame DEF IInv, TypeOK
  <1>5. CASE w = arg[t]
    <2>1. Owners(w)' = Owners(w) \ {t}
      BY <1>2, <1>5, NoneAssumption, DisjointAssumption DEF Goto, Owners, IInv, TypeOK
    <2>2. Cardinality(Owners(w)') = Cardinality(Owners(w)) - 1
      BY <1>3, <1>5, <2>1, OwnersFinite, Take
    <2>3. count[w] \in Nat /\ count[w] > 0 /\ count'[w] = count[w] - 1
      BY <1>2, <1>3, <1>5, OwnedLives DEF IInv, TypeOK
    <2>4. count'[w] = Cardinality(Owners(w)') + (IF w \in lost' THEN 1 ELSE 0)
      BY <1>1, <1>2, <2>2, <2>3, OwnersFinite DEF Counted
    <2>5. CASE Last(t)
      <3>1. Deleters(w)' = {t}
        BY <1>2, <1>3, <1>5, <2>5, NoneAssumption DEF Goto, Deleters, IInv, TypeOK
      <3>2. count'[w] = 0
        BY <1>5, <2>3, <2>5 DEF Last
      <3>3. QED
        BY <1>2, <1>3, <1>5, <2>4, <3>1, <3>2 DEF Counted, Free
    <2>6. CASE ~Last(t)
      <3>1. Deleters(w)' = {}
        BY <1>2, <1>3, <1>5, <2>6, NoneAssumption DEF Goto, Deleters, IInv, TypeOK
      <3>2. count'[w] > 0
        BY <1>5, <2>3, <2>6 DEF Last
      <3>3. QED
        BY <1>2, <1>3, <1>5, <2>4, <3>1, <3>2 DEF Counted, Free
    <2>7. QED
      BY <2>5, <2>6
  <1>6. QED
    BY <1>4, <1>5

LEMMA CountsDelete ==
  ASSUME IInv, NEW t \in Threads, Delete(t), NEW w \in Wrappers
  PROVE  Counted(w)'
  <1>1. Counted(w)
    BY DEF IInv, RefsCounted, Counted
  <1>2. /\ at[t] = "delete" /\ lost' = lost /\ impl' = impl /\ count' = count
        /\ wrapped' = [wrapped EXCEPT ![arg[t]] = None]
        /\ at' = [at EXCEPT ![t] = "idle"] /\ arg' = [arg EXCEPT ![t] = None]
    BY DEF Delete, Goto
  <1>3. /\ arg[t] \in Wrappers /\ t \in Deleters(arg[t])
        /\ count[arg[t]] = 0 /\ Owners(arg[t]) = {}
    BY <1>2, Converting
  <1>4. Owners(w)' = Owners(w)
    BY <1>2, <1>3, NoneAssumption DEF Owners, IInv, TypeOK
  <1>5. CASE w # arg[t]
    <2>1. Deleters(w)' = Deleters(w)
      BY <1>2, <1>5, NoneAssumption DEF Deleters, IInv, TypeOK
    <2>2. QED
      BY <1>1, <1>2, <1>4, <1>5, <2>1, CountedSame DEF IInv, TypeOK
  <1>6. CASE w = arg[t]
    <2>1. Deleters(w) = {t}
      BY <1>1, <1>3, <1>6 DEF Counted
    <2>2. Deleters(w)' = {}
      BY <1>2, <1>6, <2>1, NoneAssumption DEF Deleters, IInv, TypeOK
    <2>3. wrapped'[w] = None /\ count'[w] = 0
      BY <1>2, <1>3, <1>6 DEF IInv, TypeOK
    <2>4. count'[w] = Cardinality(Owners(w)') + (IF w \in lost' THEN 1 ELSE 0)
      BY <1>1, <1>2, <1>4 DEF Counted
    <2>5. QED
      BY <2>2, <2>3, <2>4 DEF Counted, Free
  <1>7. QED
    BY <1>5, <1>6

LEMMA CountsNext ==
  ASSUME IInv, Next
  PROVE  RefsCounted'
  <1>1. SUFFICES ASSUME NEW w \in Wrappers
                 PROVE  Counted(w)'
    BY DEF RefsCounted, Counted
  <1>2. PICK t \in Threads : App(t) \/ Step(t) \/ Collect(t)
    BY DEF Next
  <1>3. CASE Quiet
    <2>1. Counted(w)
      BY DEF IInv, RefsCounted, Counted
    <2>2. Owners(w)' = Owners(w) /\ Deleters(w)' = Deleters(w)
      BY <1>3 DEF Quiet, Owners, Deleters
    <2>3. QED
      BY <1>3, <2>1, <2>2, CountedSame DEF Quiet
  <1>4. ASSUME NEW p \in CppProxies, FromPyProxy(t, p)  PROVE Counted(w)'
    BY <1>4, CountsFromPyProxy
  <1>5. ASSUME NEW x \in PyObjs, NEW h \in Handles, NEW v \in Wrappers, FromPyObject(t, x, h, v)
        PROVE  Counted(w)'
    <2>1. /\ Idle(t) /\ Free(v) /\ wrapped' = [wrapped EXCEPT ![v] = h]
          /\ count' = [count EXCEPT ![v] = 1] /\ at' = [at EXCEPT ![t] = "toCpp"]
          /\ arg' = [arg EXCEPT ![t] = v] /\ impl' = impl /\ lost' = lost
      BY <1>5 DEF FromPyObject, Goto
    <2>2. h \in Shared
      BY DEF Shared
    <2>3. QED
      BY <2>1, <2>2, CountsNewWrapper
  <1>6. ASSUME NEW o \in Shared, NEW v \in Wrappers, Wrap(t, o, v)  PROVE Counted(w)'
    <2>1. /\ Idle(t) /\ Free(v) /\ wrapped' = [wrapped EXCEPT ![v] = o]
          /\ count' = [count EXCEPT ![v] = 1] /\ at' = [at EXCEPT ![t] = "toPy"]
          /\ arg' = [arg EXCEPT ![t] = v] /\ impl' = impl /\ lost' = lost
      BY <1>6 DEF Wrap, Goto
    <2>2. QED
      BY <2>1, CountsNewWrapper
  <1>7. CASE Get(t)
    BY <1>7, CountsStays DEF Get, objects
  <1>8. CASE FromPyFails(t)
    BY <1>8, CountsFromPyFails
  <1>9. CASE ToPyObject(t)
    BY <1>9, CountsStays DEF ToPyObject, AfterUnwrap, objects
  <1>10. ASSUME NEW p \in CppProxies, ToPyProxy(t, p)  PROVE Counted(w)'
    BY <1>10, CountsToPyProxy
  <1>11. CASE DecRef(t)
    BY <1>11, CountsDecRef
  <1>12. CASE Delete(t)
    BY <1>12, CountsDelete
  <1>13. ASSUME NEW p \in CppProxies, Del(t, p)  PROVE Counted(w)'
    BY <1>13, CountsDel
  <1>14. QED
    BY <1>2, <1>3, <1>4, <1>5, <1>6, <1>7, <1>8, <1>9, <1>10, <1>11, <1>12, <1>13,
       QuietNext DEF Step, Collect

-----------------------------------------------------------------------------
(* What a wrapper holds.                                                   *)

\* A wrapper that has an owner keeps its shared_ptr over a step.
LEMMA WrappedKept ==
  ASSUME IInv, Next, NEW w \in Wrappers, NEW x \in Owners(w)
  PROVE  wrapped'[w] = wrapped[w]
  <1>1. ~Free(w) /\ Deleters(w) = {}
    BY OwnedLives
  <1>2. PICK t \in Threads : App(t) \/ Step(t) \/ Collect(t)
    BY DEF Next
  <1>3. ASSUME NEW y \in PyObjs, NEW h \in Handles, NEW v \in Wrappers, FromPyObject(t, y, h, v)
        PROVE  wrapped'[w] = wrapped[w]
    BY <1>1, <1>3 DEF FromPyObject, IInv, TypeOK
  <1>4. ASSUME NEW o \in Shared, NEW v \in Wrappers, Wrap(t, o, v)  PROVE wrapped'[w] = wrapped[w]
    BY <1>1, <1>4 DEF Wrap, IInv, TypeOK
  <1>5. CASE Delete(t)
    <2>1. at[t] = "delete" /\ wrapped' = [wrapped EXCEPT ![arg[t]] = None]
      BY <1>5 DEF Delete
    <2>2. arg[t] # w
      BY <1>1, <2>1 DEF Deleters
    <2>3. QED
      BY <2>1, <2>2 DEF IInv, TypeOK
  <1>6. QED
    BY <1>2, <1>3, <1>4, <1>5, QuietNext DEF Quiet, Step, Collect, FromPyProxy, Get,
       FromPyFails, ToPyObject, ToPyProxy, DecRef, Del, objects

LEMMA ProxyOfCppNext ==
  ASSUME IInv, Next
  PROVE  ProxyOfCpp'
  <1>1. SUFFICES ASSUME NEW p \in CppProxies, impl'[p] # None
                 PROVE  wrapped'[impl'[p]] \in CppObjs
    BY DEF ProxyOfCpp
  <1>2. PICK t \in Threads : App(t) \/ Step(t) \/ Collect(t)
    BY DEF Next
  <1>3. CASE impl'[p] = impl[p]
    BY <1>1, <1>3, ProxyLives, WrappedKept
  <1>4. ASSUME NEW q \in CppProxies, ToPyProxy(t, q)  PROVE wrapped'[impl'[p]] \in CppObjs
    <2>1. /\ at[t] = "toPy" /\ wrapped[arg[t]] \notin Handles
          /\ impl' = [impl EXCEPT ![q] = arg[t]] /\ wrapped' = wrapped
      BY <1>4 DEF ToPyProxy
    <2>2. wrapped[arg[t]] \in CppObjs
      BY <2>1, Converting DEF Shared
    <2>3. CASE p = q
      BY <2>1, <2>2, <2>3 DEF IInv, TypeOK
    <2>4. CASE p # q
      BY <1>3, <2>1, <2>4 DEF IInv, TypeOK
    <2>5. QED
      BY <2>3, <2>4
  <1>5. ASSUME NEW q \in CppProxies, Del(t, q)  PROVE wrapped'[impl'[p]] \in CppObjs
    BY <1>1, <1>3, <1>5 DEF Del, IInv, TypeOK
  <1>6. QED
    BY <1>2, <1>3, <1>4, <1>5, QuietNext DEF Quiet, Step, Collect, FromPyProxy, FromPyObject,
       Wrap, Get, FromPyFails, ToPyObject, DecRef, Delete, objects

LEMMA HeldNext ==
  ASSUME IInv, Next
  PROVE  HandlesHeld'
  <1>1. SUFFICES ASSUME NEW h \in Handles
                 PROVE  self'[h] # None <=> Owned(h)'
    BY DEF HandlesHeld
  <1>2. /\ self[h] # None <=> Owned(h)
        /\ h # None /\ h \notin CppObjs
    BY NoneAssumption, DisjointAssumption DEF IInv, HandlesHeld
  <1>3. PICK t \in Threads : App(t) \/ Step(t) \/ Collect(t)
    BY DEF Next
  <1> USE DEF IInv, TypeOK
  <1>4. CASE UNCHANGED <<wrapped, self, cppRefs>>
    BY <1>2, <1>4 DEF Owned
  <1>5. ASSUME NEW o \in CppObjs, NewCpp(t, o)  PROVE self'[h] # None <=> Owned(h)'
    BY <1>2, <1>5 DEF NewCpp, Owned, objects
  <1>6. ASSUME NEW o \in Shared, NEW u \in Threads, ShareCpp(t, u, o)
        PROVE  self'[h] # None <=> Owned(h)'
    BY <1>2, <1>6 DEF ShareCpp, Owned, objects
  <1>7. ASSUME NEW o \in Shared, DropCpp(t, o)  PROVE self'[h] # None <=> Owned(h)'
    <2>1. /\ o \in cppRefs[t] /\ cppRefs' = [cppRefs EXCEPT ![t] = @ \ {o}]
          /\ wrapped' = wrapped
      BY <1>7 DEF DropCpp
    <2>2. CASE h # o
      <3>1. Owned(h)' <=> Owned(h)
        BY <2>1, <2>2 DEF Owned
      <3>2. self'[h] = self[h]
        BY <1>7, <2>2 DEF DropCpp, Release
      <3>3. QED
        BY <1>2, <3>1, <3>2
    <2>3. CASE h = o
      <3>1. Owned(h)
        BY <2>1, <2>3 DEF Owned
      <3>2. CASE (\E u \in Threads \ {t} : o \in cppRefs[u]) \/ \E w \in Wrappers : wrapped[w] = o
        <4>1. Owned(h)' /\ self' = self
          BY <1>7, <2>1, <2>3, <3>2 DEF DropCpp, Owned
        <4>2. QED
          BY <1>2, <3>1, <4>1
      <3>3. CASE ~((\E u \in Threads \ {t} : o \in cppRefs[u]) \/ \E w \in Wrappers : wrapped[w] = o)
        <4>1. self'[h] = None
          BY <1>7, <2>3, <3>3 DEF DropCpp, Release
        <4>2. ~Owned(h)'
          BY <2>1, <2>3, <3>3 DEF Owned
        <4>3. QED
          BY <4>1, <4>2
      <3>4. QED
        BY <3>2, <3>3
    <2>4. QED
      BY <2>2, <2>3
  <1>8. ASSUME NEW x \in PyObjs, NEW g \in Handles, NEW w \in Wrappers, FromPyObject(t, x, g, w)
        PROVE  self'[h] # None <=> Owned(h)'
    <2>1. /\ wrapped[w] = None /\ self' = [self EXCEPT ![g] = x]
          /\ wrapped' = [wrapped EXCEPT ![w] = g] /\ cppRefs' = cppRefs
      BY <1>8 DEF FromPyObject, Free
    <2>2. CASE h = g
      BY <2>1, <2>2, NoneAssumption DEF Owned
    <2>3. CASE h # g
      <3>1. self'[h] = self[h]
        BY <2>1, <2>3
      <3>2. Owned(h)' <=> Owned(h)
        BY <1>2, <2>1, <2>3 DEF Owned
      <3>3. QED
        BY <1>2, <3>1, <3>2
    <2>4. QED
      BY <2>2, <2>3
  <1>9. ASSUME NEW o \in Shared, NEW w \in Wrappers, Wrap(t, o, w)
        PROVE  self'[h] # None <=> Owned(h)'
    <2>1. /\ wrapped[w] = None /\ self' = self /\ o \in cppRefs[t]
          /\ wrapped' = [wrapped EXCEPT ![w] = o] /\ cppRefs' = cppRefs
      BY <1>9 DEF Wrap, Free
    <2>2. Owned(h)' <=> Owned(h)
      BY <1>2, <2>1 DEF Owned
    <2>3. QED
      BY <1>2, <2>1, <2>2
  <1>10. CASE Get(t)
    <2>1. arg[t] \in Wrappers
      BY <1>10, Converting DEF Get
    <2>2. /\ cppRefs' = [cppRefs EXCEPT ![t] = @ \cup {wrapped[arg[t]]}]
          /\ wrapped' = wrapped /\ self' = self
      BY <1>10 DEF Get, objects
    <2>3. Owned(h)' <=> Owned(h)
      BY <2>1, <2>2 DEF Owned
    <2>4. QED
      BY <1>2, <2>2, <2>3
  <1>11. CASE Delete(t)
    <2> DEFINE w == arg[t]
               o == wrapped[w]
               Kept == (\E u \in Threads : o \in cppRefs[u]) \/ \E v \in Wrappers \ {w} : wrapped[v] = o
    <2>1. w \in Wrappers /\ o \in Shared
      BY <1>11, Converting DEF Delete
    <2>2. /\ wrapped' = [wrapped EXCEPT ![w] = None] /\ cppRefs' = cppRefs
          /\ IF Kept THEN UNCHANGED self ELSE Release(o)
      BY <1>11 DEF Delete
    <2>3. CASE h # o
      <3>1. Owned(h)' <=> Owned(h)
        BY <1>2, <2>1, <2>2, <2>3 DEF Owned
      <3>2. self'[h] = self[h]
        BY <2>2, <2>3 DEF Release
      <3>3. QED
        BY <1>2, <3>1, <3>2
    <2>4. CASE h = o
      <3>1. Owned(h)
        BY <2>1, <2>4 DEF Owned
      <3>2. Owned(h)' <=> Kept
        BY <1>2, <2>1, <2>2, <2>4 DEF Owned
      <3>3. CASE Kept
        BY <1>2, <2>2, <3>1, <3>2, <3>3
      <3>4. CASE ~Kept
        BY <2>2, <2>4, <3>2, <3>4 DEF Release
      <3>5. QED
        BY <3>3, <3>4
    <2>5. QED
      BY <2>3, <2>4
  <1>12. QED
    BY <1>3, <1>4, <1>5, <1>6, <1>7, <1>8, <1>9, <1>10, <1>11 DEF App, Step, Collect, NewPy,
       SharePy, DropPy, FromPyProxy, FromPyFails, ToPyObject, ToPyProxy, DecRef, Del, objects

\* A handle that a wrapper with an owner leads to keeps its Python object.
LEMMA SelfKept ==
  ASSUME IInv, Next, NEW w \in Wrappers, NEW x \in Owners(w), wrapped[w] \in Handles
  PROVE  self'[wrapped[w]] = self[wrapped[w]]
  <1> DEFINE h == wrapped[w]
  <1>1. self[h] # None /\ Deleters(w) = {}
    BY OwnedLives DEF IInv, HandlesHeld, Owned
  <1>2. PICK t \in Threads : App(t) \/ Step(t) \/ Collect(t)
    BY DEF Next
  <1>3. ASSUME NEW o \in Shared, DropCpp(t, o)  PROVE self'[h] = self[h]
    BY <1>3 DEF DropCpp, Release
  <1>4. ASSUME NEW y \in PyObjs, NEW g \in Handles, NEW v \in Wrappers, FromPyObject(t, y, g, v)
        PROVE  self'[h] = self[h]
    BY <1>1, <1>4 DEF FromPyObject, IInv, TypeOK
  <1>5. CASE Delete(t)
    <2>1. at[t] = "delete"
      BY <1>5 DEF Delete
    <2>2. w # arg[t]
      BY <1>1, <2>1 DEF Deleters
    <2>3. QED
      BY <1>5, <2>2 DEF Delete, Release
  <1>6. QED
    BY <1>2, <1>3, <1>4, <1>5 DEF App, Step, Collect, NewPy, SharePy, DropPy, NewCpp, ShareCpp,
       FromPyProxy, Wrap, Get, FromPyFails, ToPyObject, ToPyProxy, DecRef, Del, objects

\* What a thread that goes on converting is at.
LEMMA RightKept ==
  ASSUME IInv, Next, NEW u \in Threads, at[u] \in {"toCpp", "toPy"},
         arg'[u] = arg[u], stands'[u] = stands[u]
  PROVE  ~Free(arg[u])' /\ Meaning(wrapped[arg[u]])' = stands'[u]
  <1>1. /\ arg[u] \in Wrappers /\ u \in Owners(arg[u])
        /\ ~Free(arg[u]) /\ wrapped[arg[u]] \in Shared
    BY Converting
  <1>2. wrapped'[arg[u]] = wrapped[arg[u]]
    BY <1>1, WrappedKept
  <1>3. Meaning(wrapped[arg[u]]) = stands[u]
    BY DEF IInv, RightObject
  <1>4. wrapped'[arg'[u]] \in Handles => self'[wrapped'[arg'[u]]] = self[wrapped[arg[u]]]
    BY <1>1, <1>2, SelfKept
  <1>5. QED
    BY <1>1, <1>2, <1>3, <1>4 DEF Free, Meaning

LEMMA RightNext ==
  ASSUME IInv, Next
  PROVE  RightObject'
  <1>1. SUFFICES ASSUME NEW u \in Threads, at'[u] \in {"toCpp", "toPy"}
                 PROVE  ~Free(arg[u])' /\ Meaning(wrapped[arg[u]])' = stands'[u]
    BY DEF RightObject
  <1>2. PICK t \in Threads : App(t) \/ Step(t) \/ Collect(t)
    BY DEF Next
  <1> USE DEF IInv, TypeOK
  <1>3. CASE at'[u] = at[u] /\ arg'[u] = arg[u] /\ stands'[u] = stands[u]
    BY <1>1, <1>3, RightKept
  <1>4. ASSUME NEW p \in CppProxies, FromPyProxy(t, p), u = t
        PROVE  ~Free(arg[u])' /\ Meaning(wrapped[arg[u]])' = stands'[u]
    <2>1. ~Free(impl[p])
      BY <1>4, ProxyLives DEF FromPyProxy, NamedLive, Named
    <2>2. /\ arg'[t] = impl[p] /\ stands'[t] = Meaning(wrapped[impl[p]])
          /\ wrapped' = wrapped /\ self' = self
      BY <1>4 DEF FromPyProxy, Goto
    <2>3. QED
      BY <1>4, <2>1, <2>2 DEF Free, Meaning
  <1>5. ASSUME NEW x \in PyObjs, NEW h \in Handles, NEW w \in Wrappers, FromPyObject(t, x, h, w), u = t
        PROVE  ~Free(arg[u])' /\ Meaning(wrapped[arg[u]])' = stands'[u]
    <2>1. /\ arg'[t] = w /\ stands'[t] = x /\ wrapped'[w] = h /\ self'[h] = x
      BY <1>5 DEF FromPyObject, Goto
    <2>2. QED
      BY <1>5, <2>1, NoneAssumption DEF Free, Meaning
  <1>6. ASSUME NEW o \in Shared, NEW w \in Wrappers, Wrap(t, o, w), u = t
        PROVE  ~Free(arg[u])' /\ Meaning(wrapped[arg[u]])' = stands'[u]
    <2>1. arg'[t] = w /\ stands'[t] = Meaning(o) /\ wrapped'[w] = o /\ self' = self /\ o # None
      BY <1>6, NoneAssumption DEF Wrap, Goto, Shared
    <2>2. QED
      BY <1>6, <2>1 DEF Free, Meaning
  <1>7. CASE u # t
    BY <1>2, <1>3, <1>7, QuietNext DEF Quiet, Step, Collect, Goto, FromPyProxy, FromPyObject,
       Wrap, Get, FromPyFails, ToPyObject, AfterUnwrap, ToPyProxy, DecRef, Delete, Del
  <1>8. CASE u = t /\ (Step(t) \/ Collect(t))
    BY <1>1, <1>8 DEF Step, Collect, Goto, Get, FromPyFails, ToPyObject, AfterUnwrap,
       ToPyProxy, DecRef, Delete, Del
  <1>9. CASE u = t /\ App(t)
    BY <1>3, <1>4, <1>5, <1>6, <1>9, QuietNext DEF Quiet
  <1>10. QED
    BY <1>2, <1>7, <1>8, <1>9

-----------------------------------------------------------------------------
(* The theorems.                                                           *)

LEMMA InitInv == Init => IInv
  <1>1. SUFFICES ASSUME Init  PROVE IInv
    OBVIOUS
  <1>2. TypeOK /\ Resting /\ NamedLive /\ ProxyOfCpp /\ RightObject
    BY <1>1 DEF Init, TypeOK, Resting, NamedLive, Named, ProxyOfCpp, RightObject
  <1>3. RefsCounted
    <2>1. SUFFICES ASSUME NEW w \in Wrappers  PROVE Counted(w)
      BY DEF RefsCounted, Counted
    <2>2. Owners(w) = {} /\ Deleters(w) = {}
      BY <1>1, NoneAssumption DEF Init, Owners, Deleters
    <2>3. QED
      BY <1>1, <2>2, FS_EmptySet DEF Init, Counted, Free
  <1>4. HandlesHeld
    BY <1>1, NoneAssumption DEF Init, HandlesHeld, Owned
  <1>5. QED
    BY <1>2, <1>3, <1>4 DEF IInv

LEMMA StepInv == IInv /\ [Next]_vars => IInv'
  <1>1. ASSUME IInv, Next  PROVE IInv'
    BY <1>1, TypeNext, RestingNext, NamedLiveNext, ProxyOfCppNext, CountsNext, HeldNext,
       RightNext DEF IInv
  <1>2. ASSUME IInv, UNCHANGED vars  PROVE IInv'
    <2>1. IInv' <=> IInv
      BY <1>2 DEF vars, objects, IInv, TypeOK, Resting, NamedLive, Named, ProxyOfCpp, RefsCounted,
         Owners, Deleters, Free, HandlesHeld, Owned, RightObject, Meaning
    <2>2. QED
      BY <1>2, <2>1
  <1>3. QED
    BY <1>1, <1>2

\* The invariant that the others follow from.
THEOREM Inductive == Spec => []IInv
  BY InitInv, StepInv, PTL DEF Spec

\* Every variable keeps to its type.
THEOREM TypeCorrect == Spec => []TypeOK
  <1>1. IInv => TypeOK
    BY DEF IInv
  <1>2. QED
    BY Inductive, <1>1, PTL

\* Every count is owned, and is given back by one that owns it: a wrapper is
\* deleted once, by one thread, after the last of its owners.
THEOREM CountsRight == Spec => []RefsCounted
  <1>1. IInv => RefsCounted
    BY DEF IInv
  <1>2. QED
    BY Inductive, <1>1, PTL

\* c_data_set holds exactly the Python objects that C++ still refers to.
THEOREM HandlesRight == Spec => []HandlesHeld
  <1>1. IInv => HandlesHeld
    BY DEF IInv
  <1>2. QED
    BY Inductive, <1>1, PTL

\* The object that arrives is the one that was sent.
THEOREM ArrivesRight == Spec => []RightObject
  <1>1. IInv => RightObject
    BY DEF IInv
  <1>2. QED
    BY Inductive, <1>1, PTL

\* A CppProxy never stands for an object of Python: what C++ gives back to
\* Python is the object itself.
THEOREM NoProxyOfOwn == Spec => []ProxyOfCpp
  <1>1. IInv => ProxyOfCpp
    BY DEF IInv
  <1>2. QED
    BY Inductive, <1>1, PTL

\* A CppProxy stands for one implementation for all its life.
THEOREM ProxyKeepsImpl == Spec => ProxyFaithful
  <1> DEFINE Keeps == \A p \in CppProxies : impl[p] # None /\ impl'[p] # None
                          => wrapped'[impl'[p]] = wrapped[impl[p]]
  <1>1. ASSUME IInv, Next  PROVE Keeps
    <2>1. SUFFICES ASSUME NEW p \in CppProxies, impl[p] # None, impl'[p] # None
                   PROVE  wrapped'[impl'[p]] = wrapped[impl[p]]
      OBVIOUS
    <2>2. PICK t \in Threads : App(t) \/ Step(t) \/ Collect(t)
      BY <1>1 DEF Next
    <2>3. impl'[p] = impl[p]
      BY <1>1, <2>1, <2>2, QuietNext DEF Quiet, Step, Collect, FromPyProxy, FromPyObject, Wrap, Get,
         FromPyFails, ToPyObject, ToPyProxy, DecRef, Delete, Del, objects, IInv, TypeOK
    <2>4. QED
      BY <1>1, <2>1, <2>3, ProxyLives, WrappedKept
  <1>2. IInv /\ [Next]_vars => [Keeps]_vars
    BY <1>1
  <1>3. QED
    BY Inductive, <1>2, PTL DEF Spec, ProxyFaithful
=============================================================================
