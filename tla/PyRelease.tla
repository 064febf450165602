----------------------------- MODULE PyRelease ------------------------------
(***************************************************************************)
(* How Python implementations are let go (support.py, MultiSet;            *)
(* PythonGenerator.scala, ___delete and __del__; CWrapperGenerator.scala,  *)
(* ~PythonProxy and ___wrapper_dec_ref).  A PythonProxy that dies in C++   *)
(* takes its handle out of its interface's c_data_set.  The set has a lock *)
(* that is not reentrant, and the handle may hold the last reference to    *)
(* the Python object, which may hold a CppProxy of an object in C++, which *)
(* may hold another PythonProxy, all of which die on the spot.             *)
(*                                                                         *)
(* The model begins where only C++ holds the objects that threads have:    *)
(* Python code holds none but those that its objects refer to.             *)
(***************************************************************************)
EXTENDS Naturals, Sequences

CONSTANTS
    Threads,
    PyObjs,    \* implementations in Python, and their PythonProxies
    CppObjs,   \* implementations in C++, and their CppProxies
    Ifaces,    \* interfaces of PyObjs, each with a c_data_set
    None

Objects == PyObjs \cup CppObjs

\* What an instance has to say of its constants.
Distinct ==
    /\ PyObjs \cap CppObjs = {} /\ Threads \cap Objects = {}
    /\ None \notin Objects \cup Threads

VARIABLES
    iface,      \* iface[p]: the interface of a Python object
    holds,      \* holds[o]: what o refers to in the other language, or None
    roots,      \* roots[t]: what thread t has a shared_ptr to
    c_data_set, \* the Python objects that have a handle in their interface's set
    lock,       \* lock[i]: who has the lock of the set of i, or None
    deleting    \* deleting[t]: the ___delete callbacks t is in, innermost last

vars == <<iface, holds, roots, c_data_set, lock, deleting>>

Owners(o) == {t \in Threads : o \in roots[t]} \cup {x \in Objects : holds[x] = o}

\* Every object has one owner, and none owns itself through others: of some objects,
\* one at least is owned from outside.
Init ==
    /\ iface \in [PyObjs -> Ifaces]
    /\ holds \in {f \in [Objects -> Objects \cup {None}] :
                     \A o \in Objects : f[o] = None \/ (f[o] \in PyObjs <=> o \in CppObjs)}
    /\ roots \in [Threads -> SUBSET Objects]
    /\ \A o \in Objects : \E x \in Owners(o) : Owners(o) = {x}
    /\ \A S \in SUBSET Objects : S # {} => \E o \in S : Owners(o) \cap S = {}
    /\ c_data_set = PyObjs
    /\ lock = [i \in Ifaces |-> None]
    /\ deleting = [t \in Threads |-> <<>>]

Now(t) == deleting[t][Len(deleting[t])]
At(t, step) == deleting[t] # <<>> /\ Now(t).at = step
LockOf(p) == lock[iface[p]]

\* The ___delete callback of p, at this step.
Call(p, step) == [obj |-> p, at |-> step]
Outer(t) == SubSeq(deleting[t], 1, Len(deleting[t]) - 1)

\* What o's end makes t do: ~PythonProxy calls ___delete; ~CppProxy gives back
\* the wrapper, whose implementation dies and lets go of its PythonProxy.
Dying(o) ==
    IF o \in PyObjs THEN <<Call(o, "assert")>>
    ELSE IF o # None /\ holds[o] # None THEN <<Call(holds[o], "assert")>>
    ELSE <<>>

\* C++ code of t lets go of o.
Drop(t, o) ==
    /\ deleting[t] = <<>> /\ o \in roots[t]
    /\ roots' = [roots EXCEPT ![t] = @ \ {o}]
    /\ deleting' = [deleting EXCEPT ![t] = Dying(o)]
    /\ UNCHANGED <<iface, holds, c_data_set, lock>>

\* assert c_ptr in c_data_set, which takes and gives back the lock.
Assert(t) ==
    /\ At(t, "assert") /\ LockOf(Now(t).obj) = None
    /\ deleting' = [deleting EXCEPT ![t] = Append(Outer(t), Call(Now(t).obj, "remove"))]
    /\ UNCHANGED <<iface, holds, roots, c_data_set, lock>>

\* MultiSet.remove() takes the lock and deletes the handle; the Python object
\* and what it holds die before the lock is given back.
Remove(t) ==
    LET p == Now(t).obj IN
    /\ At(t, "remove") /\ LockOf(p) = None
    /\ lock' = [lock EXCEPT ![iface[p]] = t]
    /\ c_data_set' = c_data_set \ {p}
    /\ deleting' = [deleting EXCEPT ![t] =
                       Append(Outer(t), Call(p, "unlock")) \o Dying(holds[p])]
    /\ UNCHANGED <<iface, holds, roots>>

Unlock(t) ==
    /\ At(t, "unlock")
    /\ lock' = [lock EXCEPT ![iface[Now(t).obj]] = None]
    /\ deleting' = [deleting EXCEPT ![t] = Outer(t)]
    /\ UNCHANGED <<iface, holds, roots, c_data_set>>

Step(t) == Assert(t) \/ Remove(t) \/ Unlock(t)

Next == \E t \in Threads : Step(t) \/ \E o \in Objects : Drop(t, o)

Spec == Init /\ [][Next]_vars /\ \A t \in Threads : WF_vars(Step(t))

-----------------------------------------------------------------------------
\* When C++ has let go of everything, c_data_set is empty in the end.
SetEmptied == (\A t \in Threads : roots[t] = {}) ~> c_data_set = {}
=============================================================================
