------------------------------ MODULE PyWrapper ------------------------------
(***************************************************************************)
(* Objects across the Python/C++ border (PythonGenerator.scala,            *)
(* CWrapperGenerator.scala; see cw__foo_listener_bf.cpp and                *)
(* foo_listener_bf.py in test-suite/generated-src for what they generate). *)
(*                                                                         *)
(* What crosses is the address of a DjinniWrapper, a counted box around a  *)
(* shared_ptr.  An implementation in C++ is seen in Python through a       *)
(* CppProxy, which owns a count of its wrapper.  One in Python is seen in  *)
(* C++ through a PythonProxy, which owns a handle: c_data_set keeps the    *)
(* Python object alive while the PythonProxy lives.  cffi gives up the GIL *)
(* in every C function, so threads interleave between any two of them.     *)
(*                                                                         *)
(* A Handle h also stands for the PythonProxy that was made for it.        *)
(***************************************************************************)
EXTENDS FiniteSets, Naturals

CONSTANTS
    Threads,
    PyObjs,      \* implementations in Python
    CppObjs,     \* implementations in C++
    Handles,     \* addresses of cffi handles, and their PythonProxies
    Wrappers,    \* addresses of DjinniWrappers
    CppProxies,  \* Python objects of class CppProxy
    MaxLost,     \* bound: how many wrappers lose a reference, each one
    None

ASSUME NoneAssumption ==
    None \notin Threads \cup PyObjs \cup CppObjs \cup Handles \cup Wrappers
                        \cup CppProxies
ASSUME DisjointAssumption ==
    /\ CppObjs \cap Handles = {} /\ PyObjs \cap CppProxies = {}
    /\ Threads \cap CppProxies = {}
ASSUME BoundAssumption == MaxLost \in Nat
ASSUME FiniteAssumption == IsFiniteSet(Threads) /\ IsFiniteSet(CppProxies)

Shared == CppObjs \cup Handles        \* what a shared_ptr may own
Python == PyObjs \cup CppProxies      \* what a Python variable may name

VARIABLES
    wrapped,   \* wrapped_obj of a wrapper
    count,     \* its ref_count
    self,      \* self[h]: the Python object that handle h of c_data_set is of
    impl,      \* _cpp_impl of a CppProxy
    pyRefs,    \* pyRefs[t]: the Python objects that thread t refers to
    cppRefs,   \* cppRefs[t]: the objects that t has a shared_ptr to
    at,        \* what each thread is at
    arg,       \* the wrapper it is at
    stands,    \* the object that this wrapper is to stand for
    lost       \* the wrappers with a count that nobody will give back

objects == <<wrapped, count, self, impl>>
vars    == <<objects, pyRefs, cppRefs, at, arg, stands, lost>>

TypeOK ==
    /\ wrapped \in [Wrappers -> Shared \cup {None}]
    /\ count \in [Wrappers -> Nat]
    /\ self \in [Handles -> PyObjs \cup {None}]
    /\ impl \in [CppProxies -> Wrappers \cup {None}]
    /\ pyRefs \in [Threads -> SUBSET Python]
    /\ cppRefs \in [Threads -> SUBSET Shared]
    /\ at \in [Threads -> {"idle", "toCpp", "toPy", "decRef", "delete"}]
    /\ arg \in [Threads -> Wrappers \cup {None}]
    /\ stands \in [Threads -> PyObjs \cup CppObjs \cup {None}]
    /\ lost \subseteq Wrappers

Init ==
    /\ wrapped = [w \in Wrappers |-> None]
    /\ count = [w \in Wrappers |-> 0]
    /\ self = [h \in Handles |-> None]
    /\ impl = [p \in CppProxies |-> None]
    /\ pyRefs = [t \in Threads |-> {}]
    /\ cppRefs = [t \in Threads |-> {}]
    /\ at = [t \in Threads |-> "idle"]
    /\ arg = [t \in Threads |-> None]
    /\ stands = [t \in Threads |-> None]
    /\ lost = {}

Named(x)  == \E t \in Threads : x \in pyRefs[t]
Free(w)   == wrapped[w] = None
Owned(o)  == \/ \E t \in Threads : o \in cppRefs[t]
             \/ \E w \in Wrappers : wrapped[w] = o
\* The implementation behind a shared_ptr.
Meaning(o) == IF o \in Handles THEN self[o] ELSE o

Goto(t, step, w, x) ==
    /\ at' = [at EXCEPT ![t] = step]
    /\ arg' = [arg EXCEPT ![t] = w]
    /\ stands' = [stands EXCEPT ![t] = x]

Idle(t) == at[t] = "idle"

-----------------------------------------------------------------------------
(* Application code on both sides.                                         *)

NewPy(t, x) ==
    /\ Idle(t) /\ ~Named(x) /\ \A h \in Handles : self[h] # x
    /\ pyRefs' = [pyRefs EXCEPT ![t] = @ \cup {x}]
    /\ UNCHANGED <<objects, cppRefs, at, arg, stands, lost>>

SharePy(t, u, x) ==
    /\ Idle(t) /\ x \in pyRefs[t] /\ x \notin pyRefs[u]
    /\ pyRefs' = [pyRefs EXCEPT ![u] = @ \cup {x}]
    /\ UNCHANGED <<objects, cppRefs, at, arg, stands, lost>>

DropPy(t, x) ==
    /\ Idle(t) /\ x \in pyRefs[t]
    /\ pyRefs' = [pyRefs EXCEPT ![t] = @ \ {x}]
    /\ UNCHANGED <<objects, cppRefs, at, arg, stands, lost>>

NewCpp(t, o) ==
    /\ Idle(t) /\ ~Owned(o)
    /\ cppRefs' = [cppRefs EXCEPT ![t] = @ \cup {o}]
    /\ UNCHANGED <<objects, pyRefs, at, arg, stands, lost>>

ShareCpp(t, u, o) ==
    /\ Idle(t) /\ o \in cppRefs[t] /\ o \notin cppRefs[u]
    /\ cppRefs' = [cppRefs EXCEPT ![u] = @ \cup {o}]
    /\ UNCHANGED <<objects, pyRefs, at, arg, stands, lost>>

\* Mutant: ~PythonProxy does not call ___delete.
Release_Keep(o) == UNCHANGED self
\* The last shared_ptr to o goes.  ~PythonProxy calls ___delete, which takes
\* its handle out of c_data_set.
Release(o) == self' = [h \in Handles |-> IF h = o THEN None ELSE self[h]]

DropCpp(t, o) ==
    /\ Idle(t) /\ o \in cppRefs[t]
    /\ cppRefs' = [cppRefs EXCEPT ![t] = @ \ {o}]
    /\ IF (\E u \in Threads \ {t} : o \in cppRefs[u]) \/ \E w \in Wrappers : wrapped[w] = o
       THEN UNCHANGED self ELSE Release(o)
    /\ UNCHANGED <<wrapped, count, impl, pyRefs, at, arg, stands, lost>>

-----------------------------------------------------------------------------
(* From Python to C++: an argument of a method, or a callback's result.    *)

\* Mutant: ___wrapper_add_ref is not called.
AddRef_Not(w) == UNCHANGED count
AddRef(w) == count' = [count EXCEPT ![w] = @ + 1]

\* fromPy() of a CppProxy passes on its wrapper, counted once more.
FromPyProxy(t, p) ==
    /\ Idle(t) /\ p \in pyRefs[t] \cap CppProxies
    /\ AddRef(impl[p])
    /\ Goto(t, "toCpp", impl[p], Meaning(wrapped[impl[p]]))
    /\ UNCHANGED <<wrapped, self, impl, pyRefs, cppRefs, lost>>

\* fromPy() of another object makes a handle, puts it in c_data_set and makes
\* a wrapper around a new PythonProxy of the handle.
FromPyObject(t, x, h, w) ==
    /\ Idle(t) /\ x \in pyRefs[t] \cap PyObjs
    /\ self[h] = None /\ Free(w)
    /\ self' = [self EXCEPT ![h] = x]
    /\ wrapped' = [wrapped EXCEPT ![w] = h]
    /\ count' = [count EXCEPT ![w] = 1]
    /\ Goto(t, "toCpp", w, x)
    /\ UNCHANGED <<impl, pyRefs, cppRefs, lost>>

\* fromPy() of the next argument raises TypeError: the C function is never
\* called, and nobody has the reference that this argument was given.
FromPyFails(t) ==
    /\ at[t] = "toCpp"
    /\ arg[t] \notin lost /\ Cardinality(lost) < MaxLost
    /\ lost' = lost \cup {arg[t]}
    /\ Goto(t, "idle", None, None)
    /\ UNCHANGED <<objects, pyRefs, cppRefs>>

\* The C function takes the wrapper over and get() copies the shared_ptr.
Get(t) ==
    /\ at[t] = "toCpp"
    /\ cppRefs' = [cppRefs EXCEPT ![t] = @ \cup {wrapped[arg[t]]}]
    /\ Goto(t, "decRef", arg[t], None)
    /\ UNCHANGED <<objects, pyRefs, lost>>

-----------------------------------------------------------------------------
(* From C++ to Python: a method's result, or an argument of a callback.    *)

\* Bound: an object crosses only while there is a CppProxy left for it.
ProxiesLeft ==
    Cardinality({t \in Threads : at[t] = "toPy" /\ wrapped[arg[t]] \in CppObjs})
        < Cardinality({p \in CppProxies : impl[p] = None})

\* wrap() and release().
Wrap(t, o, w) ==
    /\ Idle(t) /\ o \in cppRefs[t]
    /\ Free(w)
    /\ o \in CppObjs => ProxiesLeft
    /\ wrapped' = [wrapped EXCEPT ![w] = o]
    /\ count' = [count EXCEPT ![w] = 1]
    /\ Goto(t, "toPy", w, Meaning(o))
    /\ UNCHANGED <<self, impl, pyRefs, cppRefs, lost>>

\* Mutant: the wrapper is not given back.
AfterUnwrap_Leak(t) == Goto(t, "idle", None, None)
AfterUnwrap(t) == Goto(t, "decRef", arg[t], None)

\* toPy(): get_handle_from_proxy_object finds a PythonProxy: Python gets its
\* own object, and the wrapper is given back.
ToPyObject(t) ==
    LET h == wrapped[arg[t]] IN
    /\ at[t] = "toPy" /\ h \in Handles
    /\ pyRefs' = [pyRefs EXCEPT ![t] = @ \cup {self[h]}]
    /\ AfterUnwrap(t)
    /\ UNCHANGED <<objects, cppRefs, lost>>

\* Otherwise a new CppProxy takes the wrapper over.
ToPyProxy(t, p) ==
    /\ at[t] = "toPy" /\ wrapped[arg[t]] \notin Handles
    /\ impl[p] = None
    /\ impl' = [impl EXCEPT ![p] = arg[t]]
    /\ pyRefs' = [pyRefs EXCEPT ![t] = @ \cup {p}]
    /\ Goto(t, "idle", None, None)
    /\ UNCHANGED <<wrapped, count, self, cppRefs, lost>>

\* CppProxy.__del__, on whatever thread the interpreter collects it.
Del(t, p) ==
    /\ Idle(t) /\ impl[p] # None /\ ~Named(p)
    /\ impl' = [impl EXCEPT ![p] = None]
    /\ Goto(t, "decRef", impl[p], None)
    /\ UNCHANGED <<wrapped, count, self, pyRefs, cppRefs, lost>>

-----------------------------------------------------------------------------
(* ___wrapper_dec_ref: fetch_sub, then the thread that took the last count *)
(* deletes.                                                                *)

\* Mutant: one count too early.
Last_Two(t) == count[arg[t]] <= 2
Last(t) == count[arg[t]] = 1

DecRef(t) ==
    /\ at[t] = "decRef"
    /\ count' = [count EXCEPT ![arg[t]] = @ - 1]
    /\ IF Last(t) THEN Goto(t, "delete", arg[t], None)
                  ELSE Goto(t, "idle", None, None)
    /\ UNCHANGED <<wrapped, self, impl, pyRefs, cppRefs, lost>>

Delete(t) ==
    LET w == arg[t]
        o == wrapped[w]
    IN  /\ at[t] = "delete"
        /\ wrapped' = [wrapped EXCEPT ![w] = None]
        /\ IF (\E u \in Threads : o \in cppRefs[u])
                  \/ \E v \in Wrappers \ {w} : wrapped[v] = o
           THEN UNCHANGED self ELSE Release(o)
        /\ Goto(t, "idle", None, None)
        /\ UNCHANGED <<count, impl, pyRefs, cppRefs, lost>>

-----------------------------------------------------------------------------
App(t) ==
    \/ \E x \in PyObjs : NewPy(t, x)
    \/ \E x \in Python : DropPy(t, x) \/ \E u \in Threads : SharePy(t, u, x)
    \/ \E o \in CppObjs : NewCpp(t, o)
    \/ \E o \in Shared : DropCpp(t, o) \/ \E u \in Threads : ShareCpp(t, u, o)
    \/ \E p \in CppProxies : FromPyProxy(t, p)
    \/ \E x \in PyObjs, h \in Handles, w \in Wrappers : FromPyObject(t, x, h, w)
    \/ \E o \in Shared, w \in Wrappers : Wrap(t, o, w)

\* The steps of a conversion that is under way.
Step(t) ==
    \/ Get(t) \/ FromPyFails(t) \/ ToPyObject(t)
    \/ \E p \in CppProxies : ToPyProxy(t, p)
    \/ DecRef(t) \/ Delete(t)

Collect(t) == \E p \in CppProxies : Del(t, p)

Next == \E t \in Threads : App(t) \/ Step(t) \/ Collect(t)

Spec == Init /\ [][Next]_vars

\* A conversion goes on once it has begun.  A CppProxy that nobody names is
\* collected some time: at once by its reference count, or by a later run of
\* the collector, on a thread that need not be idle all the time.
Fairness ==
    /\ \A t \in Threads : WF_vars(Step(t))
    /\ \A p \in CppProxies : SF_vars(\E t \in Threads : Del(t, p))

FairSpec == Spec /\ Fairness

-----------------------------------------------------------------------------
(* Properties.                                                             *)

\* Who will give back a count of w.
Owners(w) == {p \in CppProxies : impl[p] = w}
             \cup {t \in Threads : arg[t] = w /\ at[t] # "delete"}
Deleters(w) == {t \in Threads : arg[t] = w /\ at[t] = "delete"}

\* ref_count is the number of CppProxies and of conversions under way that own
\* the wrapper, and of the references that a failed call has lost: no other is
\* leaked, and a wrapper is deleted once, by one thread, when nobody is left.
RefsCounted ==
    \A w \in Wrappers :
        /\ count[w] = Cardinality(Owners(w)) + (IF w \in lost THEN 1 ELSE 0)
        /\ ~Free(w) <=> count[w] > 0 \/ Deleters(w) # {}
        /\ Deleters(w) # {} => count[w] = 0
        /\ \A t, u \in Deleters(w) : t = u

\* c_data_set has the handles of the PythonProxies that C++ still owns: no
\* callback meets a Python object that is gone, and none is kept for nothing.
HandlesHeld == \A h \in Handles : self[h] # None <=> Owned(h)

\* What arrives is the object that was sent, however often its wrapper's
\* address was used before and whatever other threads drop meanwhile.
RightObject ==
    \A t \in Threads : at[t] \in {"toCpp", "toPy"} =>
        ~Free(arg[t]) /\ Meaning(wrapped[arg[t]]) = stands[t]

\* A CppProxy stands for one implementation for all its life.
ProxyFaithful ==
    [][\A p \in CppProxies : impl[p] # None /\ impl'[p] # None
           => wrapped'[impl'[p]] = wrapped[impl[p]]]_vars

\* A wrapper goes when its proxies have, unless a failed call lost a reference.
WrapperFreed ==
    \A w \in Wrappers :
        ~Free(w) ~> \/ Free(w) \/ w \in lost
                   \/ \E p \in CppProxies : impl[p] = w /\ Named(p)
=============================================================================
