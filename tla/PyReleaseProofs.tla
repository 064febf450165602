-------------------------- MODULE PyReleaseProofs ---------------------------
(***************************************************************************)
(* Proofs about PyRelease, for any objects, interfaces and threads.        *)
(*                                                                         *)
(* A thread may wait for a lock that it holds itself: py_release shows it. *)
(* Here is when none does.  If the interfaces can be ranked so that every  *)
(* Python object comes before those that it reaches through an object of   *)
(* C++ (Ranking), a thread waits only for locks of higher rank than all    *)
(* that it holds (LockOrdered), so that neither one thread nor a circle of *)
(* them waits for itself.  And when the threads are through with           *)
(* everything, no c_data_set has anything left (EmptyAtRest).              *)
(***************************************************************************)
EXTENDS PyRelease, SequenceTheorems, WellFoundedInduction, TLAPS

Steps == {"assert", "remove", "unlock"}
Calls == [obj : PyObjs, at : Steps]

TypeOK ==
    /\ iface \in [PyObjs -> Ifaces]
    /\ holds \in [Objects -> Objects \cup {None}]
    /\ \A o \in Objects : holds[o] = None \/ (holds[o] \in PyObjs <=> o \in CppObjs)
    /\ roots \in [Threads -> SUBSET Objects]
    /\ c_data_set \in SUBSET PyObjs
    /\ lock \in [Ifaces -> Threads \cup {None}]
    /\ deleting \in [Threads -> Seq(Calls)]

-----------------------------------------------------------------------------
(* Locks.                                                                  *)

Frame(t, n) == deleting[t][n]
Frames(t) == 1..Len(deleting[t])

\* Callbacks inside which there is another hold the lock of their set; and no lock
\* is held otherwise, nor by two callbacks.
Nested ==
    \A t \in Threads :
        /\ \A n \in Frames(t) : n # Len(deleting[t]) => Frame(t, n).at = "unlock"
        /\ \A n \in Frames(t) : Frame(t, n).at = "unlock" => LockOf(Frame(t, n).obj) = t
        /\ \A m, n \in Frames(t) :
              Frame(t, m).at = "unlock" /\ Frame(t, n).at = "unlock"
              /\ iface[Frame(t, m).obj] = iface[Frame(t, n).obj] => m = n
Locked ==
    \A t \in Threads, i \in Ifaces : lock[i] = t =>
        \E n \in Frames(t) : Frame(t, n).at = "unlock" /\ iface[Frame(t, n).obj] = i

\* Python object p reaches q through an object of C++.
Reaches(p, q) == holds[p] # None /\ holds[holds[p]] = q

Ranking(r) == \A p, q \in PyObjs : Reaches(p, q) => r[iface[p]] < r[iface[q]]

\* Callbacks nest in the order of the ranks.
Ascending ==
    \A r \in [Ifaces -> Nat] : Ranking(r) =>
        \A t \in Threads : \A m, n \in Frames(t) :
            m < n => r[iface[Frame(t, m).obj]] < r[iface[Frame(t, n).obj]]

\* A thread waits for locks of higher rank than those that it holds.
LockOrdered ==
    \A r \in [Ifaces -> Nat] : Ranking(r) =>
        \A t \in Threads, i \in Ifaces :
            lock[i] = t /\ (At(t, "assert") \/ At(t, "remove"))
            => r[i] < r[iface[Now(t).obj]]

-----------------------------------------------------------------------------
(* What is left.                                                           *)

\* A callback that will take p out of its set is on its way.
Doomed(p) == \E t \in Threads : \E n \in Frames(t) : Frame(t, n).obj = p /\ Frame(t, n).at # "unlock"

Rooted(o) == \E t \in Threads : o \in roots[t]

\* What has a handle is on its way out, or somebody has it who can let go of it.
Kept ==
    \A p \in c_data_set :
        \/ Doomed(p) \/ Rooted(p)
        \/ \E c \in CppObjs : /\ holds[c] = p
                              /\ Rooted(c) \/ \E q \in c_data_set : holds[q] = c

\* The references among the objects, which no step changes.
Grounded == \A S \in SUBSET Objects : S # {} => \E o \in S : \A x \in S : holds[x] # o

\* When C++ has let go of everything and no callback is under way, c_data_set is empty.
EmptyAtRest ==
    (\A t \in Threads : roots[t] = {} /\ deleting[t] = <<>>) => c_data_set = {}

\* t waits for a lock that u has.
WaitsFor(t, u) == (At(t, "assert") \/ At(t, "remove")) /\ LockOf(Now(t).obj) = u

\* Among the threads there is always one that waits for none of them.
NoCircle ==
    \A k \in Nat : \A r \in [Ifaces -> 0..k] : Ranking(r) =>
        \A W \in SUBSET Threads : W # {} => \E t \in W : \A u \in W : ~WaitsFor(t, u)

IInv == TypeOK /\ Nested /\ Locked /\ Ascending /\ Kept /\ Grounded

-----------------------------------------------------------------------------
(* What the steps do to the callbacks of a thread.                         *)

LEMMA OuterOf ==
  ASSUME NEW S, NEW s \in Seq(S), s # <<>>
  PROVE  LET o == SubSeq(s, 1, Len(s) - 1) IN
         /\ o \in Seq(S) /\ Len(s) \in Nat /\ Len(s) > 0 /\ Len(o) = Len(s) - 1
         /\ \A n \in 1..(Len(s) - 1) : o[n] = s[n]
<1>1. Len(s) \in Nat /\ Len(s) > 0
  BY SMT
<1>2. 1 \in 1..(Len(s) + 1) /\ Len(s) - 1 \in (1 - 1)..Len(s)
  BY <1>1, SMT
<1> DEFINE o == SubSeq(s, 1, Len(s) - 1)
<1>3. /\ o \in Seq(S)
      /\ Len(o) = IF 1 <= Len(s) - 1 THEN (Len(s) - 1) - 1 + 1 ELSE 0
      /\ \A n \in 1..((Len(s) - 1) - 1 + 1) : o[n] = s[1 + n - 1]
  BY <1>2, SubSeqProperties
<1> HIDE DEF o
<1>4. Len(o) = Len(s) - 1
  <2> DEFINE l == Len(s)
  <2>1. Len(o) = IF 1 <= l - 1 THEN (l - 1) - 1 + 1 ELSE 0
    BY <1>3
  <2>2. l \in Nat /\ l > 0
    BY <1>1
  <2> HIDE DEF l
  <2>3. Len(o) = l - 1
    BY <2>1, <2>2, SMT
  <2> QED BY <2>3 DEF l
<1>5. ASSUME NEW n \in 1..(Len(s) - 1) PROVE o[n] = s[n]
  <2>1. n \in 1..((Len(s) - 1) - 1 + 1) /\ 1 + n - 1 = n
    BY <1>1, <1>5, SMT
  <2> QED BY <1>3, <2>1
<1> QED BY <1>1, <1>3, <1>4, <1>5 DEF o

\* A sequence whose last element is replaced.
LEMMA LastReplaced ==
  ASSUME NEW S, NEW s \in Seq(S), s # <<>>, NEW c \in S, NEW d,
         d = Append(SubSeq(s, 1, Len(s) - 1), c)
  PROVE  /\ d \in Seq(S) /\ Len(d) = Len(s) /\ Len(s) \in Nat /\ Len(s) > 0
         /\ d[Len(s)] = c /\ \A n \in 1..(Len(s) - 1) : d[n] = s[n]
<1> DEFINE o == SubSeq(s, 1, Len(s) - 1)
<1>1. /\ o \in Seq(S) /\ Len(s) \in Nat /\ Len(s) > 0 /\ Len(o) = Len(s) - 1
      /\ \A n \in 1..(Len(s) - 1) : o[n] = s[n]
  BY OuterOf
<1> HIDE DEF o
<1>2. d = Append(o, c)
  BY DEF o
<1> QED BY <1>1, <1>2, SMT

LEMMA CallTyped ==
  ASSUME NEW p \in PyObjs, NEW s \in Steps
  PROVE  Call(p, s) \in Calls /\ Call(p, s).obj = p /\ Call(p, s).at = s
BY DEF Call, Calls

\* The callback that a thread is in.
LEMMA Current ==
  ASSUME TypeOK, NEW t \in Threads, NEW s, At(t, s)
  PROVE  /\ deleting[t] \in Seq(Calls) /\ deleting[t] # <<>>
         /\ Len(deleting[t]) \in Frames(t) /\ Len(deleting[t]) \in Nat
         /\ Frame(t, Len(deleting[t])) = Now(t) /\ Now(t).at = s
         /\ Now(t).obj \in PyObjs /\ iface[Now(t).obj] \in Ifaces
<1>1. deleting[t] \in Seq(Calls) /\ deleting[t] # <<>> /\ Now(t).at = s
  BY DEF TypeOK, At
<1>2. Len(deleting[t]) \in Nat /\ Len(deleting[t]) \in 1..Len(deleting[t])
  BY <1>1, SMT
<1>3. Now(t) \in Calls
  BY <1>1, <1>2 DEF Now
<1>4. Now(t).obj \in PyObjs
  BY <1>3 DEF Calls
<1> QED BY <1>1, <1>2, <1>4 DEF Frames, Frame, Now, TypeOK

LEMMA FrameTyped ==
  ASSUME TypeOK, NEW t \in Threads, NEW n \in Frames(t)
  PROVE  Frame(t, n) \in Calls /\ Frame(t, n).obj \in PyObjs /\ Frame(t, n).at \in Steps
         /\ iface[Frame(t, n).obj] \in Ifaces
<1>1. Frame(t, n) \in Calls
  BY DEF TypeOK, Frame, Frames
<1>2. Frame(t, n).obj \in PyObjs /\ Frame(t, n).at \in Steps
  BY <1>1 DEF Calls
<1> QED BY <1>1, <1>2 DEF TypeOK

\* The end of what a Python object holds: nothing, or the ___delete of what it reaches.
LEMMA DyingBelow ==
  ASSUME Distinct, TypeOK, NEW p \in PyObjs
  PROVE  \/ Dying(holds[p]) = <<>> /\ \A q \in PyObjs : ~Reaches(p, q)
         \/ \E q \in PyObjs : /\ Dying(holds[p]) = <<Call(q, "assert")>> /\ Reaches(p, q)
                              /\ \A x \in PyObjs : Reaches(p, x) => x = q
<1>1. CASE holds[p] = None
  <2>1. None \notin PyObjs
    BY DEF Distinct, Objects
  <2> QED BY <1>1, <2>1 DEF Dying, Reaches
<1>2. CASE holds[p] # None
  <2>1. p \notin CppObjs /\ p \in Objects
    BY DEF Distinct, Objects
  <2>2. holds[p] \notin PyObjs /\ holds[p] \in Objects
    BY <1>2, <2>1 DEF TypeOK
  <2>3. holds[p] \in CppObjs
    BY <2>2 DEF Objects
  <2>4. CASE holds[holds[p]] = None
    <3>1. None \notin PyObjs
      BY DEF Distinct, Objects
    <3> QED BY <1>2, <2>2, <2>4, <3>1 DEF Dying, Reaches
  <2>5. CASE holds[holds[p]] # None
    <3>1. holds[holds[p]] \in PyObjs
      BY <2>2, <2>3, <2>5 DEF TypeOK
    <3> QED BY <1>2, <2>2, <2>5, <3>1 DEF Dying, Reaches
  <2> QED BY <2>4, <2>5
<1> QED BY <1>1, <1>2

\* A sequence whose last element is replaced, and that gets another or not.
LEMMA Pushed ==
  ASSUME NEW S, NEW s \in Seq(S), NEW c \in S
  PROVE  /\ s \o <<>> = s
         /\ s \o <<c>> \in Seq(S) /\ Len(s \o <<c>>) = Len(s) + 1 /\ (s \o <<c>>)[Len(s) + 1] = c
         /\ \A n \in 1..Len(s) : (s \o <<c>>)[n] = s[n]
BY SMT

\* One step of a callback, in terms of its frames: the frames below stay, the innermost
\* moves on or ends, and inside it another may begin.
Others(t) == \A u \in Threads : u # t => deleting'[u] = deleting[u]
Below(t) == \A n \in 1..(Len(deleting[t]) - 1) : deleting'[t][n] = deleting[t][n]

LEMMA AssertShape ==
  ASSUME TypeOK, NEW t \in Threads, Assert(t)
  PROVE  LET L == Len(deleting[t]) IN
         /\ iface' = iface /\ holds' = holds /\ roots' = roots /\ c_data_set' = c_data_set
         /\ lock' = lock /\ Others(t) /\ Below(t)
         /\ deleting' \in [Threads -> Seq(Calls)] /\ Len(deleting'[t]) = L
         /\ deleting'[t][L].obj = Now(t).obj /\ deleting'[t][L].at = "remove"
<1> DEFINE c == Call(Now(t).obj, "remove")
           d == Append(Outer(t), c)
<1>1. At(t, "assert") /\ deleting' = [deleting EXCEPT ![t] = d]
  BY DEF Assert
<1>2. deleting[t] \in Seq(Calls) /\ deleting[t] # <<>> /\ Now(t).obj \in PyObjs
  BY <1>1, Current
<1>3. c \in Calls /\ c.obj = Now(t).obj /\ c.at = "remove"
  BY <1>2, CallTyped DEF Steps
<1> HIDE DEF c
<1>4. /\ d \in Seq(Calls) /\ Len(d) = Len(deleting[t]) /\ d[Len(deleting[t])] = c
      /\ \A n \in 1..(Len(deleting[t]) - 1) : d[n] = deleting[t][n]
  BY <1>2, <1>3, LastReplaced DEF Outer
<1> HIDE DEF d
<1>5. deleting'[t] = d /\ Others(t) /\ deleting' \in [Threads -> Seq(Calls)]
  BY <1>1, <1>4 DEF Others, TypeOK
<1> QED BY <1>3, <1>4, <1>5 DEF Assert, Below

LEMMA RemoveShape ==
  ASSUME Distinct, TypeOK, NEW t \in Threads, Remove(t)
  PROVE  LET L == Len(deleting[t])
             p == Now(t).obj IN
         /\ iface' = iface /\ holds' = holds /\ roots' = roots /\ c_data_set' = c_data_set \ {p}
         /\ lock[iface[p]] = None /\ lock'[iface[p]] = t
         /\ \A i \in Ifaces : i # iface[p] => lock'[i] = lock[i]
         /\ lock' \in [Ifaces -> Threads \cup {None}]
         /\ Others(t) /\ Below(t)
         /\ deleting' \in [Threads -> Seq(Calls)]
         /\ deleting'[t][L].obj = p /\ deleting'[t][L].at = "unlock"
         /\ \/ Len(deleting'[t]) = L /\ \A q \in PyObjs : ~Reaches(p, q)
            \/ /\ Len(deleting'[t]) = L + 1 /\ Reaches(p, deleting'[t][L + 1].obj)
               /\ deleting'[t][L + 1].obj \in PyObjs /\ deleting'[t][L + 1].at = "assert"
               /\ \A q \in PyObjs : Reaches(p, q) => q = deleting'[t][L + 1].obj
<1> DEFINE p == Now(t).obj
           c == Call(p, "unlock")
           d == Append(Outer(t), c)
           D == d \o Dying(holds[p])
<1>1. At(t, "remove") /\ deleting' = [deleting EXCEPT ![t] = D]
  BY DEF Remove
<1>2. /\ deleting[t] \in Seq(Calls) /\ deleting[t] # <<>> /\ p \in PyObjs
      /\ iface[p] \in Ifaces
  BY <1>1, Current
<1>3. c \in Calls /\ c.obj = p /\ c.at = "unlock"
  BY <1>2, CallTyped DEF Steps
<1> HIDE DEF c
<1>4. /\ d \in Seq(Calls) /\ Len(d) = Len(deleting[t]) /\ d[Len(deleting[t])] = c
      /\ Len(deleting[t]) \in 1..Len(d)
      /\ \A n \in 1..(Len(deleting[t]) - 1) : n \in 1..Len(d) /\ d[n] = deleting[t][n]
  <2>1. /\ d \in Seq(Calls) /\ Len(d) = Len(deleting[t]) /\ d[Len(deleting[t])] = c
        /\ Len(deleting[t]) \in Nat /\ Len(deleting[t]) > 0
        /\ \A n \in 1..(Len(deleting[t]) - 1) : d[n] = deleting[t][n]
    BY <1>2, <1>3, LastReplaced DEF Outer
  <2> HIDE DEF d
  <2> QED BY <2>1
<1>6. \/ D = d /\ \A q \in PyObjs : ~Reaches(p, q)
      \/ \E q \in PyObjs : /\ D = d \o <<Call(q, "assert")>> /\ Reaches(p, q)
                           /\ \A x \in PyObjs : Reaches(p, x) => x = q
  <2>1. d \o <<>> = d
    BY <1>3, <1>4, Pushed
  <2> HIDE DEF d
  <2> QED BY <1>2, <2>1, DyingBelow
<1> HIDE DEF d, D
<1>7. /\ D \in Seq(Calls) /\ \A n \in 1..Len(d) : D[n] = d[n]
      /\ \/ Len(D) = Len(d) /\ \A q \in PyObjs : ~Reaches(p, q)
         \/ /\ Len(D) = Len(d) + 1 /\ Reaches(p, D[Len(d) + 1].obj)
            /\ D[Len(d) + 1].obj \in PyObjs /\ D[Len(d) + 1].at = "assert"
            /\ \A q \in PyObjs : Reaches(p, q) => q = D[Len(d) + 1].obj
  <2>1. CASE D = d /\ \A q \in PyObjs : ~Reaches(p, q)
    BY <1>4, <2>1
  <2>2. CASE \E q \in PyObjs : /\ D = d \o <<Call(q, "assert")>> /\ Reaches(p, q)
                               /\ \A x \in PyObjs : Reaches(p, x) => x = q
    <3>1. PICK q \in PyObjs : /\ D = d \o <<Call(q, "assert")>> /\ Reaches(p, q)
                              /\ \A x \in PyObjs : Reaches(p, x) => x = q
      BY <2>2
    <3> DEFINE e == Call(q, "assert")
    <3>2. e \in Calls /\ e.obj = q /\ e.at = "assert"
      BY <3>1, CallTyped DEF Steps
    <3>3. D = d \o <<e>>
      BY <3>1
    <3> HIDE DEF e
    <3>4. d \in Seq(Calls)
      BY <1>4
    <3>5. /\ D \in Seq(Calls) /\ Len(D) = Len(d) + 1 /\ D[Len(d) + 1] = e
          /\ \A n \in 1..Len(d) : D[n] = d[n]
      BY <3>2, <3>3, <3>4, Pushed
    <3> QED BY <3>1, <3>2, <3>5
  <2> QED BY <1>6, <2>1, <2>2
<1>8. deleting'[t] = D /\ Others(t) /\ deleting' \in [Threads -> Seq(Calls)]
  BY <1>1, <1>7 DEF Others, TypeOK
<1>9. /\ lock[iface[p]] = None /\ lock'[iface[p]] = t
      /\ \A i \in Ifaces : i # iface[p] => lock'[i] = lock[i]
      /\ lock' \in [Ifaces -> Threads \cup {None}]
  BY <1>2 DEF Remove, LockOf, TypeOK
<1>10. Below(t)
  BY <1>4, <1>7, <1>8 DEF Below
<1>11. deleting'[t][Len(deleting[t])] = c
  BY <1>4, <1>7, <1>8
<1>12. /\ iface' = iface /\ holds' = holds /\ roots' = roots /\ c_data_set' = c_data_set \ {p}
  BY DEF Remove
<1> HIDE DEF p
<1> QED BY <1>3, <1>4, <1>7, <1>8, <1>9, <1>10, <1>11, <1>12 DEF p

LEMMA UnlockShape ==
  ASSUME TypeOK, NEW t \in Threads, Unlock(t)
  PROVE  LET i == iface[Now(t).obj] IN
         /\ iface' = iface /\ holds' = holds /\ roots' = roots /\ c_data_set' = c_data_set
         /\ lock'[i] = None /\ \A j \in Ifaces : j # i => lock'[j] = lock[j]
         /\ lock' \in [Ifaces -> Threads \cup {None}]
         /\ Others(t) /\ Below(t)
         /\ deleting' \in [Threads -> Seq(Calls)] /\ Len(deleting'[t]) = Len(deleting[t]) - 1
<1>1. At(t, "unlock") /\ deleting' = [deleting EXCEPT ![t] = Outer(t)]
  BY DEF Unlock
<1>2. deleting[t] \in Seq(Calls) /\ deleting[t] # <<>> /\ iface[Now(t).obj] \in Ifaces
  BY <1>1, Current
<1>3. /\ Outer(t) \in Seq(Calls) /\ Len(Outer(t)) = Len(deleting[t]) - 1
      /\ \A n \in 1..(Len(deleting[t]) - 1) : Outer(t)[n] = deleting[t][n]
  BY <1>2, OuterOf DEF Outer
<1>4. deleting'[t] = Outer(t) /\ Others(t) /\ deleting' \in [Threads -> Seq(Calls)]
  BY <1>1, <1>3 DEF Others, TypeOK
<1>5. /\ lock'[iface[Now(t).obj]] = None
      /\ \A j \in Ifaces : j # iface[Now(t).obj] => lock'[j] = lock[j]
      /\ lock' \in [Ifaces -> Threads \cup {None}]
  BY <1>2 DEF Unlock, TypeOK
<1>6. Below(t)
  BY <1>3, <1>4 DEF Below
<1>7. iface' = iface /\ holds' = holds /\ roots' = roots /\ c_data_set' = c_data_set
  BY DEF Unlock
<1> QED BY <1>3, <1>4, <1>5, <1>6, <1>7

\* C++ lets go of an object: its ___delete begins, or that of what it holds.
LEMMA DropShape ==
  ASSUME Distinct, TypeOK, NEW t \in Threads, NEW o \in Objects, Drop(t, o)
  PROVE  /\ iface' = iface /\ holds' = holds /\ c_data_set' = c_data_set /\ lock' = lock
         /\ roots' \in [Threads -> SUBSET Objects] /\ o \in roots[t]
         /\ \A u \in Threads, x \in Objects : x # o /\ x \in roots[u] => x \in roots'[u]
         /\ deleting[t] = <<>> /\ Others(t)
         /\ deleting' \in [Threads -> Seq(Calls)]
         /\ \/ deleting'[t] = <<>> /\ o \notin PyObjs /\ \A q \in PyObjs : holds[o] # q
            \/ \E q \in PyObjs : /\ deleting'[t] = <<Call(q, "assert")>>
                                 /\ o = q \/ (o \notin PyObjs /\ holds[o] = q)
<1>1. /\ deleting' = [deleting EXCEPT ![t] = Dying(o)]
      /\ roots' = [roots EXCEPT ![t] = @ \ {o}]
      /\ iface' = iface /\ holds' = holds /\ c_data_set' = c_data_set /\ lock' = lock
      /\ deleting[t] = <<>> /\ o \in roots[t]
  BY DEF Drop
<1>2. \/ Dying(o) = <<>> /\ o \notin PyObjs /\ \A q \in PyObjs : holds[o] # q
      \/ \E q \in PyObjs : /\ Dying(o) = <<Call(q, "assert")>>
                           /\ o = q \/ (o \notin PyObjs /\ holds[o] = q)
  <2>1. CASE o \in PyObjs
    BY <2>1 DEF Dying
  <2>2. CASE o \notin PyObjs /\ holds[o] = None
    <3>1. None \notin PyObjs
      BY DEF Distinct, Objects
    <3> QED BY <2>2, <3>1 DEF Dying
  <2>3. CASE o \notin PyObjs /\ holds[o] # None
    <3>1. o \in CppObjs /\ o # None
      BY <2>3 DEF Distinct, Objects
    <3>2. holds[o] \in PyObjs
      BY <2>3, <3>1 DEF TypeOK
    <3> QED BY <2>3, <3>1, <3>2 DEF Dying
  <2> QED BY <2>1, <2>2, <2>3
<1>3. Dying(o) \in Seq(Calls)
  <2>1. CASE Dying(o) = <<>>
    BY <2>1
  <2>2. CASE \E q \in PyObjs : Dying(o) = <<Call(q, "assert")>>
    <3>1. PICK q \in PyObjs : Dying(o) = <<Call(q, "assert")>>
      BY <2>2
    <3>2. Call(q, "assert") \in Calls
      BY <3>1, CallTyped DEF Steps
    <3> QED BY <3>1, <3>2
  <2>3. Dying(o) = <<>> \/ \E q \in PyObjs : Dying(o) = <<Call(q, "assert")>>
    BY <1>2, Zenon
  <2> QED BY <2>1, <2>2, <2>3
<1>4. deleting'[t] = Dying(o) /\ Others(t) /\ deleting' \in [Threads -> Seq(Calls)]
  BY <1>1, <1>3 DEF Others, TypeOK
<1>5. roots' \in [Threads -> SUBSET Objects]
  BY <1>1 DEF TypeOK
<1>6. ASSUME NEW u \in Threads, NEW x \in Objects, x # o, x \in roots[u] PROVE x \in roots'[u]
  BY <1>1, <1>6 DEF TypeOK
<1> QED BY <1>1, <1>2, <1>4, <1>5, <1>6

-----------------------------------------------------------------------------
(* The same, frame by frame.                                               *)

LEMMA AssertFrames ==
  ASSUME Distinct, TypeOK, NEW t \in Threads, Assert(t)
  PROVE  LET L == Len(deleting[t]) IN
         /\ L \in Frames(t) /\ L \in Nat /\ Frame(t, L).at = "assert"
         /\ \A u \in Threads :
               /\ Len(deleting[u])' = Len(deleting[u]) /\ Frames(u)' = Frames(u)
               /\ \A n \in Frames(u) :
                     /\ Frame(u, n)'.obj = Frame(u, n).obj
                     /\ IF u = t /\ n = L THEN Frame(u, n)'.at = "remove"
                        ELSE Frame(u, n)'.at = Frame(u, n).at
<1> DEFINE L == Len(deleting[t])
<1>1. At(t, "assert")
  BY DEF Assert
<1>2. /\ L \in Frames(t) /\ L \in Nat /\ Frame(t, L) = Now(t) /\ Now(t).at = "assert"
  BY <1>1, Current
<1>3. /\ Others(t) /\ Below(t) /\ Len(deleting'[t]) = L
      /\ deleting'[t][L].obj = Now(t).obj /\ deleting'[t][L].at = "remove"
  BY AssertShape
<1>4. ASSUME NEW n \in Frames(t), n # L PROVE n \in 1..(L - 1)
  BY <1>2, <1>4, SMT DEF Frames
<1>5. ASSUME NEW u \in Threads
      PROVE  /\ Len(deleting[u])' = Len(deleting[u]) /\ Frames(u)' = Frames(u)
             /\ \A n \in Frames(u) :
                   /\ Frame(u, n)'.obj = Frame(u, n).obj
                   /\ IF u = t /\ n = L THEN Frame(u, n)'.at = "remove"
                      ELSE Frame(u, n)'.at = Frame(u, n).at
  <2>1. CASE u # t
    BY <1>3, <2>1 DEF Others, Frames, Frame
  <2>2. CASE u = t
    <3>1. ASSUME NEW n \in Frames(t), n # L PROVE Frame(t, n)' = Frame(t, n)
      BY <1>3, <1>4, <3>1 DEF Below, Frame
    <3>2. Frame(t, L)'.obj = Frame(t, L).obj /\ Frame(t, L)'.at = "remove"
      BY <1>2, <1>3 DEF Frame
    <3> QED BY <1>3, <2>2, <3>1, <3>2 DEF Frames
  <2> QED BY <2>1, <2>2
<1> QED BY <1>2, <1>5

\* What the object of the callback holds dies: the last frame, if it is new.
LEMMA RemoveFrames ==
  ASSUME Distinct, TypeOK, NEW t \in Threads, Remove(t)
  PROVE  LET L == Len(deleting[t])
             p == Now(t).obj IN
         /\ L \in Frames(t) /\ L \in Nat /\ Frame(t, L).at = "remove" /\ Frame(t, L).obj = p
         /\ p \in PyObjs /\ iface[p] \in Ifaces
         /\ \A u \in Threads :
               /\ Frames(u) \subseteq Frames(u)'
               /\ \A n \in Frames(u) :
                     /\ Frame(u, n)'.obj = Frame(u, n).obj
                     /\ IF u = t /\ n = L THEN Frame(u, n)'.at = "unlock"
                        ELSE Frame(u, n)'.at = Frame(u, n).at
               /\ u # t => Len(deleting[u])' = Len(deleting[u])
               /\ \A n \in Frames(u)' :
                     \/ n \in Frames(u)
                     \/ /\ u = t /\ n = L + 1 /\ n = Len(deleting[u])' /\ Frame(u, n)'.at = "assert"
                        /\ Frame(u, n)'.obj \in PyObjs /\ Reaches(p, Frame(u, n)'.obj)
         /\ \A q \in PyObjs : Reaches(p, q) =>
               \E n \in Frames(t)' : Frame(t, n)'.obj = q /\ Frame(t, n)'.at = "assert"
<1> DEFINE L == Len(deleting[t])
           p == Now(t).obj
<1>1. At(t, "remove")
  BY DEF Remove
<1>2. /\ L \in Frames(t) /\ L \in Nat /\ Frame(t, L) = Now(t) /\ Now(t).at = "remove"
      /\ p \in PyObjs /\ iface[p] \in Ifaces
  BY <1>1, Current
<1>3. /\ Others(t) /\ Below(t)
      /\ deleting'[t][L].obj = p /\ deleting'[t][L].at = "unlock"
      /\ \/ Len(deleting'[t]) = L /\ \A q \in PyObjs : ~Reaches(p, q)
         \/ /\ Len(deleting'[t]) = L + 1 /\ Reaches(p, deleting'[t][L + 1].obj)
            /\ deleting'[t][L + 1].obj \in PyObjs /\ deleting'[t][L + 1].at = "assert"
            /\ \A q \in PyObjs : Reaches(p, q) => q = deleting'[t][L + 1].obj
  BY RemoveShape
<1>4. ASSUME NEW n \in Frames(t), n # L PROVE n \in 1..(L - 1)
  BY <1>2, <1>4, SMT DEF Frames
<1>5. /\ Frames(t) = 1..L /\ 1..L \subseteq 1..(L + 1) /\ L + 1 \in 1..(L + 1)
      /\ \A n \in 1..(L + 1) : n \in 1..L \/ n = L + 1
  BY <1>2, SMT DEF Frames
<1>6. Frames(t)' = 1..Len(deleting'[t])
  BY DEF Frames
<1>7. ASSUME NEW n \in Frames(t)
      PROVE  /\ Frame(t, n)'.obj = Frame(t, n).obj
             /\ IF n = L THEN Frame(t, n)'.at = "unlock" ELSE Frame(t, n)'.at = Frame(t, n).at
  <2>1. CASE n = L
    BY <1>2, <1>3, <2>1 DEF Frame
  <2>2. CASE n # L
    BY <1>3, <1>4, <2>2 DEF Frame, Below
  <2> QED BY <2>1, <2>2
<1>8. Frames(t) \subseteq Frames(t)'
  BY <1>3, <1>5, <1>6
<1>9. ASSUME NEW n \in Frames(t)', n \notin Frames(t)
      PROVE  /\ n = L + 1 /\ n = Len(deleting[t])' /\ Frame(t, n)'.at = "assert"
             /\ Frame(t, n)'.obj \in PyObjs /\ Reaches(p, Frame(t, n)'.obj)
  BY <1>3, <1>5, <1>6, <1>9 DEF Frame
<1>10. ASSUME NEW q \in PyObjs, Reaches(p, q)
       PROVE  \E n \in Frames(t)' : Frame(t, n)'.obj = q /\ Frame(t, n)'.at = "assert"
  <2>1. /\ Len(deleting'[t]) = L + 1 /\ deleting'[t][L + 1].at = "assert"
        /\ \A x \in PyObjs : Reaches(p, x) => x = deleting'[t][L + 1].obj
    BY <1>3, <1>10
  <2>2. q = deleting'[t][L + 1].obj
    BY <1>10, <2>1
  <2>3. L + 1 \in Frames(t)'
    BY <1>5, <1>6, <2>1
  <2> QED BY <2>1, <2>2, <2>3 DEF Frame
<1>11. ASSUME NEW u \in Threads, u # t
       PROVE  /\ Len(deleting[u])' = Len(deleting[u]) /\ Frames(u)' = Frames(u)
              /\ \A n \in Frames(u) : Frame(u, n)' = Frame(u, n)
  BY <1>3, <1>11 DEF Others, Frames, Frame
<1> HIDE DEF L, p
<1>12. ASSUME NEW u \in Threads
       PROVE  /\ Frames(u) \subseteq Frames(u)'
              /\ \A n \in Frames(u) :
                    /\ Frame(u, n)'.obj = Frame(u, n).obj
                    /\ IF u = t /\ n = L THEN Frame(u, n)'.at = "unlock"
                       ELSE Frame(u, n)'.at = Frame(u, n).at
              /\ u # t => Len(deleting[u])' = Len(deleting[u])
              /\ \A n \in Frames(u)' :
                    \/ n \in Frames(u)
                    \/ /\ u = t /\ n = L + 1 /\ n = Len(deleting[u])' /\ Frame(u, n)'.at = "assert"
                       /\ Frame(u, n)'.obj \in PyObjs /\ Reaches(p, Frame(u, n)'.obj)
  <2>1. CASE u = t
    BY <1>7, <1>8, <1>9, <2>1
  <2>2. CASE u # t
    BY <1>11, <2>2
  <2> QED BY <2>1, <2>2
<1> QED BY <1>2, <1>10, <1>12 DEF L, p

LEMMA UnlockFrames ==
  ASSUME TypeOK, NEW t \in Threads, Unlock(t)
  PROVE  LET L == Len(deleting[t]) IN
         /\ L \in Frames(t) /\ L \in Nat /\ Frame(t, L).at = "unlock" /\ Frame(t, L) = Now(t)
         /\ Now(t).obj \in PyObjs /\ iface[Now(t).obj] \in Ifaces
         /\ Len(deleting[t])' = L - 1 /\ Frames(t)' = Frames(t) \ {L}
         /\ \A n \in Frames(t)' : Frame(t, n)' = Frame(t, n)
         /\ \A u \in Threads : u # t =>
               /\ Len(deleting[u])' = Len(deleting[u]) /\ Frames(u)' = Frames(u)
               /\ \A n \in Frames(u)' : Frame(u, n)' = Frame(u, n)
<1> DEFINE L == Len(deleting[t])
<1>1. At(t, "unlock")
  BY DEF Unlock
<1>2. /\ L \in Frames(t) /\ L \in Nat /\ Frame(t, L) = Now(t) /\ Now(t).at = "unlock"
      /\ Now(t).obj \in PyObjs /\ iface[Now(t).obj] \in Ifaces
  BY <1>1, Current
<1>3. Others(t) /\ Below(t) /\ Len(deleting'[t]) = L - 1
  BY UnlockShape
<1>4. Frames(t)' = 1..(L - 1) /\ 1..(L - 1) = Frames(t) \ {L}
  <2>1. 1..(L - 1) = (1..L) \ {L}
    BY <1>2, SMT
  <2> QED BY <1>3, <2>1 DEF Frames
<1>5. \A n \in Frames(t)' : Frame(t, n)' = Frame(t, n)
  BY <1>3, <1>4 DEF Below, Frame
<1>6. ASSUME NEW u \in Threads, u # t
      PROVE  /\ Len(deleting[u])' = Len(deleting[u]) /\ Frames(u)' = Frames(u)
             /\ \A n \in Frames(u)' : Frame(u, n)' = Frame(u, n)
  BY <1>3, <1>6 DEF Others, Frames, Frame
<1> QED BY <1>2, <1>3, <1>4, <1>5, <1>6

\* No callback of t is under way when it lets go of o, and afterwards one at most.
LEMMA DropFrames ==
  ASSUME Distinct, TypeOK, NEW t \in Threads, NEW o \in Objects, Drop(t, o)
  PROVE  /\ Frames(t) = {}
         /\ \A m, n \in Frames(t)' : m = n /\ n = Len(deleting[t])' /\ Frame(t, n)'.at = "assert"
         /\ \A u \in Threads : u # t =>
               /\ Len(deleting[u])' = Len(deleting[u]) /\ Frames(u)' = Frames(u)
               /\ \A n \in Frames(u) : Frame(u, n)' = Frame(u, n)
         /\ \A q \in PyObjs : o = q \/ (o \notin PyObjs /\ holds[o] = q) =>
               \E n \in Frames(t)' : Frame(t, n)'.obj = q /\ Frame(t, n)'.at = "assert"
<1>1. /\ deleting[t] = <<>> /\ Others(t)
      /\ \/ deleting'[t] = <<>> /\ o \notin PyObjs /\ \A q \in PyObjs : holds[o] # q
         \/ \E q \in PyObjs : /\ deleting'[t] = <<Call(q, "assert")>>
                              /\ o = q \/ (o \notin PyObjs /\ holds[o] = q)
  BY DropShape
<1>2. Frames(t) = {}
  BY <1>1, SMT DEF Frames
<1>3. ASSUME NEW u \in Threads, u # t
      PROVE  /\ Len(deleting[u])' = Len(deleting[u]) /\ Frames(u)' = Frames(u)
             /\ \A n \in Frames(u) : Frame(u, n)' = Frame(u, n)
  BY <1>1, <1>3 DEF Others, Frames, Frame
<1>4. /\ \A m, n \in Frames(t)' : m = n /\ n = Len(deleting[t])' /\ Frame(t, n)'.at = "assert"
      /\ \A q \in PyObjs : o = q \/ (o \notin PyObjs /\ holds[o] = q) =>
            \E n \in Frames(t)' : Frame(t, n)'.obj = q /\ Frame(t, n)'.at = "assert"
  <2>1. CASE deleting'[t] = <<>> /\ o \notin PyObjs /\ \A q \in PyObjs : holds[o] # q
    <3>1. Frames(t)' = {}
      BY <2>1, SMT DEF Frames
    <3> QED BY <2>1, <3>1
  <2>2. CASE \E q \in PyObjs : /\ deleting'[t] = <<Call(q, "assert")>>
                               /\ o = q \/ (o \notin PyObjs /\ holds[o] = q)
    <3>1. PICK q \in PyObjs : /\ deleting'[t] = <<Call(q, "assert")>>
                              /\ o = q \/ (o \notin PyObjs /\ holds[o] = q)
      BY <2>2
    <3> DEFINE c == Call(q, "assert")
    <3>2. c.obj = q /\ c.at = "assert"
      BY <3>1, CallTyped DEF Steps
    <3>3. deleting'[t] = <<c>>
      BY <3>1
    <3> HIDE DEF c
    <3>4. Frames(t)' = {1} /\ Len(deleting[t])' = 1 /\ Frame(t, 1)' = c
      BY <3>3, SMT DEF Frames, Frame
    <3>5. \A x \in PyObjs : o = x \/ (o \notin PyObjs /\ holds[o] = x) => x = q
      BY <3>1
    <3> QED BY <3>2, <3>4, <3>5
  <2> QED BY <1>1, <2>1, <2>2
<1> QED BY <1>2, <1>3, <1>4

-----------------------------------------------------------------------------
(* The steps keep the invariant.                                           *)

LEMMA TypeInit ==
  ASSUME Init
  PROVE  TypeOK
<1>1. \A t \in Threads : deleting[t] = <<>>
  BY DEF Init
<1>2. deleting \in [Threads -> Seq(Calls)]
  BY DEF Init
<1>3. /\ iface \in [PyObjs -> Ifaces] /\ holds \in [Objects -> Objects \cup {None}]
      /\ \A o \in Objects : holds[o] = None \/ (holds[o] \in PyObjs <=> o \in CppObjs)
      /\ roots \in [Threads -> SUBSET Objects] /\ c_data_set \in SUBSET PyObjs
      /\ lock \in [Ifaces -> Threads \cup {None}]
  BY DEF Init
<1> QED BY <1>2, <1>3 DEF TypeOK

LEMMA TypeStep ==
  ASSUME Distinct, TypeOK, NEW t \in Threads,
         Step(t) \/ \E o \in Objects : Drop(t, o)
  PROVE  TypeOK'
<1>1. CASE Assert(t)
  <2>1. /\ iface' = iface /\ holds' = holds /\ roots' = roots /\ c_data_set' = c_data_set
        /\ lock' = lock /\ deleting' \in [Threads -> Seq(Calls)]
    BY <1>1, AssertShape
  <2> QED BY <2>1 DEF TypeOK
<1>2. CASE Remove(t)
  <2>1. /\ iface' = iface /\ holds' = holds /\ roots' = roots
        /\ c_data_set' = c_data_set \ {Now(t).obj}
        /\ lock' \in [Ifaces -> Threads \cup {None}] /\ deleting' \in [Threads -> Seq(Calls)]
    BY <1>2, RemoveShape
  <2> QED BY <2>1 DEF TypeOK
<1>3. CASE Unlock(t)
  <2>1. /\ iface' = iface /\ holds' = holds /\ roots' = roots /\ c_data_set' = c_data_set
        /\ lock' \in [Ifaces -> Threads \cup {None}] /\ deleting' \in [Threads -> Seq(Calls)]
    BY <1>3, UnlockShape
  <2> QED BY <2>1 DEF TypeOK
<1>4. CASE \E o \in Objects : Drop(t, o)
  <2>1. PICK o \in Objects : Drop(t, o)
    BY <1>4
  <2>2. /\ iface' = iface /\ holds' = holds /\ c_data_set' = c_data_set /\ lock' = lock
        /\ roots' \in [Threads -> SUBSET Objects] /\ deleting' \in [Threads -> Seq(Calls)]
    BY <2>1, DropShape
  <2> QED BY <2>2 DEF TypeOK
<1> QED BY <1>1, <1>2, <1>3, <1>4 DEF Step

LEMMA NestedAssert ==
  ASSUME Distinct, TypeOK, Nested, NEW t \in Threads, Assert(t)
  PROVE  Nested'
<1> DEFINE L == Len(deleting[t])
<1>1. /\ L \in Frames(t) /\ Frame(t, L).at = "assert"
      /\ \A u \in Threads :
            /\ Len(deleting[u])' = Len(deleting[u]) /\ Frames(u)' = Frames(u)
            /\ \A n \in Frames(u) :
                  /\ Frame(u, n)'.obj = Frame(u, n).obj
                  /\ IF u = t /\ n = L THEN Frame(u, n)'.at = "remove"
                     ELSE Frame(u, n)'.at = Frame(u, n).at
  BY AssertFrames
<1>2. iface' = iface /\ lock' = lock
  BY DEF Assert
<1>3. ASSUME NEW u \in Threads, NEW n \in Frames(u), Frame(u, n)'.at = "unlock"
      PROVE  Frame(u, n).at = "unlock"
  BY <1>1, <1>3
<1>4. ASSUME NEW u \in Threads, NEW n \in Frames(u), n # Len(deleting[u])
      PROVE  Frame(u, n)'.at = "unlock"
  BY <1>1, <1>4 DEF Nested
<1>5. ASSUME NEW u \in Threads, NEW n \in Frames(u), Frame(u, n)'.at = "unlock"
      PROVE  lock'[iface'[Frame(u, n)'.obj]] = u
  BY <1>1, <1>2, <1>3, <1>5 DEF Nested, LockOf
<1>6. ASSUME NEW u \in Threads, NEW m \in Frames(u), NEW n \in Frames(u),
             Frame(u, m)'.at = "unlock", Frame(u, n)'.at = "unlock",
             iface'[Frame(u, m)'.obj] = iface'[Frame(u, n)'.obj]
      PROVE  m = n
  BY <1>1, <1>2, <1>3, <1>6 DEF Nested
<1> QED BY <1>1, <1>4, <1>5, <1>6 DEF Nested, LockOf

LEMMA NestedRemove ==
  ASSUME Distinct, TypeOK, Nested, NEW t \in Threads, Remove(t)
  PROVE  Nested'
<1> DEFINE L == Len(deleting[t])
           p == Now(t).obj
<1>1. /\ L \in Frames(t) /\ L \in Nat /\ Frame(t, L).at = "remove" /\ Frame(t, L).obj = p
      /\ \A u \in Threads :
            /\ \A n \in Frames(u) :
                  /\ Frame(u, n)'.obj = Frame(u, n).obj
                  /\ IF u = t /\ n = L THEN Frame(u, n)'.at = "unlock"
                     ELSE Frame(u, n)'.at = Frame(u, n).at
            /\ u # t => Len(deleting[u])' = Len(deleting[u])
            /\ \A n \in Frames(u)' :
                  \/ n \in Frames(u)
                  \/ u = t /\ n = L + 1 /\ n = Len(deleting[u])' /\ Frame(u, n)'.at = "assert"
  BY RemoveFrames
<1>2. /\ iface' = iface /\ lock[iface[p]] = None /\ lock'[iface[p]] = t
      /\ \A i \in Ifaces : i # iface[p] => lock'[i] = lock[i]
  BY RemoveShape
<1>3. t # None /\ \A u \in Threads : u # None
  BY DEF Distinct
<1> HIDE DEF L, p
<1>4. ASSUME NEW u \in Threads, NEW n \in Frames(u)', Frame(u, n)'.at = "unlock"
      PROVE  /\ n \in Frames(u) /\ (Frame(u, n).at = "unlock" \/ (u = t /\ n = L))
             /\ lock'[iface'[Frame(u, n)'.obj]] = u
  <2>1. n \in Frames(u) /\ (Frame(u, n).at = "unlock" \/ (u = t /\ n = L))
    BY <1>1, <1>4
  <2>2. CASE u = t /\ n = L
    BY <1>1, <1>2, <2>1, <2>2
  <2>3. CASE Frame(u, n).at = "unlock"
    <3>1. lock[iface[Frame(u, n).obj]] = u /\ iface[Frame(u, n).obj] \in Ifaces
      BY <2>1, <2>3, FrameTyped DEF Nested, LockOf
    <3> QED BY <1>1, <1>2, <1>3, <2>1, <3>1
  <2> QED BY <2>1, <2>2, <2>3
<1>5. ASSUME NEW u \in Threads, NEW n \in Frames(u)', n # Len(deleting[u])'
      PROVE  Frame(u, n)'.at = "unlock"
  <2>1. n \in Frames(u)
    BY <1>1, <1>5
  <2>2. CASE u = t /\ n = L
    BY <1>1, <2>1, <2>2
  <2>3. CASE ~(u = t /\ n = L)
    <3>1. n # Len(deleting[u])
      BY <1>1, <1>5, <2>3 DEF L
    <3>2. Frame(u, n).at = "unlock"
      BY <2>1, <3>1 DEF Nested
    <3> QED BY <1>1, <2>1, <2>3, <3>2
  <2> QED BY <2>2, <2>3
<1>6. ASSUME NEW u \in Threads, NEW m \in Frames(u)', NEW n \in Frames(u)',
             Frame(u, m)'.at = "unlock", Frame(u, n)'.at = "unlock",
             iface'[Frame(u, m)'.obj] = iface'[Frame(u, n)'.obj]
      PROVE  m = n
  <2>1. /\ m \in Frames(u) /\ (Frame(u, m).at = "unlock" \/ (u = t /\ m = L))
        /\ n \in Frames(u) /\ (Frame(u, n).at = "unlock" \/ (u = t /\ n = L))
    BY <1>4, <1>6
  <2>2. iface[Frame(u, m).obj] = iface[Frame(u, n).obj]
    BY <1>1, <1>2, <1>6, <2>1
  <2>3. CASE Frame(u, m).at = "unlock" /\ Frame(u, n).at = "unlock"
    BY <2>1, <2>2, <2>3 DEF Nested
  <2>4. CASE u = t /\ m = L /\ Frame(u, n).at = "unlock"
    <3>1. lock[iface[Frame(u, n).obj]] = u
      BY <2>1, <2>4 DEF Nested, LockOf
    <3> QED BY <1>1, <1>2, <1>3, <2>2, <2>4, <3>1
  <2>5. CASE u = t /\ n = L /\ Frame(u, m).at = "unlock"
    <3>1. lock[iface[Frame(u, m).obj]] = u
      BY <2>1, <2>5 DEF Nested, LockOf
    <3> QED BY <1>1, <1>2, <1>3, <2>2, <2>5, <3>1
  <2> QED BY <2>1, <2>3, <2>4, <2>5
<1> QED BY <1>4, <1>5, <1>6 DEF Nested, LockOf

LEMMA NestedUnlock ==
  ASSUME TypeOK, Nested, NEW t \in Threads, Unlock(t)
  PROVE  Nested'
<1> DEFINE L == Len(deleting[t])
           i == iface[Now(t).obj]
<1>1. /\ L \in Frames(t) /\ Frame(t, L).at = "unlock" /\ Frame(t, L) = Now(t)
      /\ Len(deleting[t])' = L - 1 /\ Frames(t)' = Frames(t) \ {L}
      /\ \A n \in Frames(t)' : Frame(t, n)' = Frame(t, n)
      /\ \A u \in Threads : u # t =>
            /\ Len(deleting[u])' = Len(deleting[u]) /\ Frames(u)' = Frames(u)
            /\ \A n \in Frames(u)' : Frame(u, n)' = Frame(u, n)
  BY UnlockFrames
<1>2. iface' = iface /\ \A j \in Ifaces : j # i => lock'[j] = lock[j]
  BY UnlockShape
<1>3. lock[i] = t
  BY <1>1 DEF Nested, LockOf
<1>4. ASSUME NEW u \in Threads, NEW n \in Frames(u)'
      PROVE  n \in Frames(u) /\ Frame(u, n)' = Frame(u, n) /\ (u = t => n # L)
  BY <1>1, <1>4
<1>5. ASSUME NEW u \in Threads, NEW n \in Frames(u)', Frame(u, n)'.at = "unlock"
      PROVE  lock'[iface'[Frame(u, n)'.obj]] = u
  <2>1. n \in Frames(u) /\ Frame(u, n)' = Frame(u, n) /\ (u = t => n # L)
    BY <1>4, <1>5
  <2>2. /\ lock[iface[Frame(u, n).obj]] = u
        /\ u = t /\ iface[Frame(u, n).obj] = iface[Frame(t, L).obj] => n = L
    BY <1>1, <1>5, <2>1 DEF Nested, LockOf
  <2>3. iface[Frame(u, n).obj] \in Ifaces
    BY <2>1, FrameTyped
  <2>4. iface[Frame(u, n).obj] # i
    BY <1>1, <1>3, <2>1, <2>2
  <2> QED BY <1>2, <2>1, <2>2, <2>3, <2>4
<1>6. ASSUME NEW u \in Threads, NEW n \in Frames(u)', n # Len(deleting[u])'
      PROVE  Frame(u, n)'.at = "unlock"
  <2>1. n \in Frames(u) /\ Frame(u, n)' = Frame(u, n) /\ (u = t => n # L)
    BY <1>4, <1>6
  <2>2. n # Len(deleting[u])
    BY <1>1, <1>6, <2>1
  <2> QED BY <2>1, <2>2 DEF Nested
<1>7. ASSUME NEW u \in Threads, NEW m \in Frames(u)', NEW n \in Frames(u)',
             Frame(u, m)'.at = "unlock", Frame(u, n)'.at = "unlock",
             iface'[Frame(u, m)'.obj] = iface'[Frame(u, n)'.obj]
      PROVE  m = n
  BY <1>2, <1>4, <1>7 DEF Nested
<1> QED BY <1>5, <1>6, <1>7 DEF Nested, LockOf

LEMMA NestedDrop ==
  ASSUME Distinct, TypeOK, Nested, NEW t \in Threads, NEW o \in Objects, Drop(t, o)
  PROVE  Nested'
<1>1. /\ \A m, n \in Frames(t)' : m = n /\ n = Len(deleting[t])' /\ Frame(t, n)'.at = "assert"
      /\ \A u \in Threads : u # t =>
            /\ Len(deleting[u])' = Len(deleting[u]) /\ Frames(u)' = Frames(u)
            /\ \A n \in Frames(u) : Frame(u, n)' = Frame(u, n)
  BY DropFrames
<1>2. iface' = iface /\ lock' = lock
  BY DEF Drop
<1>3. ASSUME NEW u \in Threads, NEW n \in Frames(u)', Frame(u, n)'.at = "unlock"
      PROVE  lock'[iface'[Frame(u, n)'.obj]] = u
  <2>1. u # t /\ n \in Frames(u) /\ Frame(u, n)' = Frame(u, n)
    BY <1>1, <1>3
  <2> QED BY <1>2, <1>3, <2>1 DEF Nested, LockOf
<1>4. ASSUME NEW u \in Threads, NEW n \in Frames(u)', n # Len(deleting[u])'
      PROVE  Frame(u, n)'.at = "unlock"
  <2>1. u # t
    BY <1>1, <1>4
  <2> QED BY <1>1, <1>4, <2>1 DEF Nested
<1>5. ASSUME NEW u \in Threads, NEW m \in Frames(u)', NEW n \in Frames(u)',
             Frame(u, m)'.at = "unlock", Frame(u, n)'.at = "unlock",
             iface'[Frame(u, m)'.obj] = iface'[Frame(u, n)'.obj]
      PROVE  m = n
  <2>1. CASE u = t
    BY <1>1, <1>5, <2>1
  <2>2. CASE u # t
    BY <1>1, <1>2, <1>5, <2>2 DEF Nested
  <2> QED BY <2>1, <2>2
<1> QED BY <1>3, <1>4, <1>5 DEF Nested, LockOf

LEMMA LockedStep ==
  ASSUME Distinct, TypeOK, Nested, Locked, NEW t \in Threads,
         Step(t) \/ \E o \in Objects : Drop(t, o)
  PROVE  Locked'
<1> DEFINE L == Len(deleting[t])
<1> SUFFICES ASSUME NEW u \in Threads, NEW i \in Ifaces, lock'[i] = u
             PROVE  \E n \in Frames(u)' : Frame(u, n)'.at = "unlock" /\ iface'[Frame(u, n)'.obj] = i
  BY DEF Locked
<1>1. ASSUME lock[i] = u
      PROVE  \E n \in Frames(u) : Frame(u, n).at = "unlock" /\ iface[Frame(u, n).obj] = i
  BY <1>1 DEF Locked
<1>2. CASE Assert(t)
  <2>1. /\ Frame(t, L).at = "assert"
        /\ \A x \in Threads :
              /\ Frames(x)' = Frames(x)
              /\ \A n \in Frames(x) :
                    /\ Frame(x, n)'.obj = Frame(x, n).obj
                    /\ IF x = t /\ n = L THEN Frame(x, n)'.at = "remove"
                       ELSE Frame(x, n)'.at = Frame(x, n).at
    BY <1>2, AssertFrames
  <2>2. iface' = iface /\ lock' = lock
    BY <1>2 DEF Assert
  <2> HIDE DEF L
  <2>3. PICK n \in Frames(u) : Frame(u, n).at = "unlock" /\ iface[Frame(u, n).obj] = i
    BY <1>1, <2>2
  <2> QED BY <2>1, <2>2, <2>3
<1>3. CASE Remove(t)
  <2> DEFINE p == Now(t).obj
  <2>1. /\ L \in Frames(t) /\ Frame(t, L).at = "remove" /\ Frame(t, L).obj = p
        /\ \A x \in Threads :
              /\ Frames(x) \subseteq Frames(x)'
              /\ \A n \in Frames(x) :
                    /\ Frame(x, n)'.obj = Frame(x, n).obj
                    /\ IF x = t /\ n = L THEN Frame(x, n)'.at = "unlock"
                       ELSE Frame(x, n)'.at = Frame(x, n).at
    BY <1>3, RemoveFrames
  <2>2. /\ iface' = iface /\ lock'[iface[p]] = t
        /\ \A j \in Ifaces : j # iface[p] => lock'[j] = lock[j]
    BY <1>3, RemoveShape
  <2> HIDE DEF L, p
  <2>3. CASE i = iface[p]
    BY <2>1, <2>2, <2>3
  <2>4. CASE i # iface[p]
    <3>1. PICK n \in Frames(u) : Frame(u, n).at = "unlock" /\ iface[Frame(u, n).obj] = i
      BY <1>1, <2>2, <2>4
    <3> QED BY <2>1, <2>2, <3>1
  <2> QED BY <2>3, <2>4
<1>4. CASE Unlock(t)
  <2>1. /\ Frame(t, L) = Now(t) /\ Frames(t)' = Frames(t) \ {L}
        /\ \A n \in Frames(t)' : Frame(t, n)' = Frame(t, n)
        /\ \A x \in Threads : x # t =>
              Frames(x)' = Frames(x) /\ \A n \in Frames(x)' : Frame(x, n)' = Frame(x, n)
    BY <1>4, UnlockFrames
  <2>2. /\ iface' = iface /\ lock'[iface[Now(t).obj]] = None
        /\ \A j \in Ifaces : j # iface[Now(t).obj] => lock'[j] = lock[j]
    BY <1>4, UnlockShape
  <2>3. i # iface[Now(t).obj]
    BY <2>2 DEF Distinct
  <2> HIDE DEF L
  <2>4. PICK n \in Frames(u) : Frame(u, n).at = "unlock" /\ iface[Frame(u, n).obj] = i
    BY <1>1, <2>2, <2>3
  <2>5. n \in Frames(u)' /\ Frame(u, n)' = Frame(u, n)
    BY <2>1, <2>3, <2>4
  <2> QED BY <2>2, <2>4, <2>5
<1>5. CASE \E o \in Objects : Drop(t, o)
  <2>1. PICK o \in Objects : Drop(t, o)
    BY <1>5
  <2>2. /\ Frames(t) = {}
        /\ \A x \in Threads : x # t =>
              Frames(x)' = Frames(x) /\ \A n \in Frames(x) : Frame(x, n)' = Frame(x, n)
    BY <2>1, DropFrames
  <2>3. iface' = iface /\ lock' = lock
    BY <2>1 DEF Drop
  <2>4. PICK n \in Frames(u) : Frame(u, n).at = "unlock" /\ iface[Frame(u, n).obj] = i
    BY <1>1, <2>3
  <2> QED BY <2>2, <2>3, <2>4
<1> QED BY <1>2, <1>3, <1>4, <1>5 DEF Step

LEMMA AscendingStep ==
  ASSUME Distinct, TypeOK, Ascending, NEW t \in Threads,
         Step(t) \/ \E o \in Objects : Drop(t, o)
  PROVE  Ascending'
<1> DEFINE L == Len(deleting[t])
<1>1. iface' = iface /\ holds' = holds
  BY DEF Step, Assert, Remove, Unlock, Drop
<1> SUFFICES ASSUME NEW r \in [Ifaces -> Nat], Ranking(r), NEW u \in Threads,
                    NEW m \in Frames(u)', NEW n \in Frames(u)', m < n
             PROVE  r[iface[Frame(u, m)'.obj]] < r[iface[Frame(u, n)'.obj]]
  BY <1>1 DEF Ascending, Ranking, Reaches
<1>2. ASSUME NEW j \in Frames(u), NEW k \in Frames(u), j < k
      PROVE  r[iface[Frame(u, j).obj]] < r[iface[Frame(u, k).obj]]
  BY <1>2 DEF Ascending
<1>3. CASE Assert(t)
  <2>1. Frames(u)' = Frames(u) /\ \A k \in Frames(u) : Frame(u, k)'.obj = Frame(u, k).obj
    BY <1>3, AssertFrames
  <2> QED BY <1>2, <2>1
<1>4. CASE Remove(t)
  <2> DEFINE p == Now(t).obj
  <2>1. /\ L \in Frames(t) /\ L \in Nat /\ Frame(t, L).obj = p /\ p \in PyObjs
        /\ \A k \in Frames(u) : Frame(u, k)'.obj = Frame(u, k).obj
        /\ \A k \in Frames(u)' :
              \/ k \in Frames(u)
              \/ /\ u = t /\ k = L + 1
                 /\ Frame(u, k)'.obj \in PyObjs /\ Reaches(p, Frame(u, k)'.obj)
    BY <1>4, RemoveFrames
  <2>2. CASE n \in Frames(u)
    <3>1. m \in Frames(u)
      <4>1. Len(deleting[u]) \in Nat /\ Len(deleting'[u]) \in Nat
        BY TypeOK, TypeStep, LenProperties DEF TypeOK
      <4>2. m \in 1..Len(deleting'[u]) /\ n \in 1..Len(deleting[u])
        BY <2>2 DEF Frames
      <4>3. m \in 1..Len(deleting[u])
        BY <4>1, <4>2, SMT
      <4> QED BY <4>3 DEF Frames
    <3> QED BY <1>2, <2>1, <2>2, <3>1
  <2>3. CASE n \notin Frames(u)
    <3> DEFINE q == Frame(u, n)'.obj
    <3>1. u = t /\ n = L + 1 /\ q \in PyObjs /\ Reaches(p, q)
      BY <2>1, <2>3
    <3>2. r[iface[p]] < r[iface[q]]
      BY <2>1, <3>1 DEF Ranking
    <3>3. m \in Frames(t) /\ m \in Int
      <4>1. m \in 1..Len(deleting'[t])
        BY <3>1 DEF Frames
      <4>2. L + 1 \in Nat /\ m \in Int /\ 1 <= m /\ m < L + 1
        BY <2>1, <3>1, <4>1, SMT
      <4>3. m \in 1..L
        BY <2>1, <4>2, SMT
      <4> QED BY <4>2, <4>3 DEF Frames
    <3>4. Frame(u, m)'.obj = Frame(t, m).obj /\ Frame(t, m).obj \in PyObjs
      BY <2>1, <3>1, <3>3, FrameTyped
    <3>5. CASE m = L
      BY <2>1, <3>2, <3>4, <3>5
    <3>6. CASE m # L
      <4>1. m < L
        BY <2>1, <3>1, <3>3, <3>6, SMT
      <4>2. r[iface[Frame(t, m).obj]] < r[iface[p]]
        BY <1>2, <2>1, <3>1, <3>3, <4>1
      <4>3. /\ r[iface[Frame(t, m).obj]] \in Nat /\ r[iface[p]] \in Nat /\ r[iface[q]] \in Nat
        BY <2>1, <3>1, <3>4 DEF TypeOK
      <4>4. r[iface[Frame(t, m).obj]] < r[iface[q]]
        <5> DEFINE x == r[iface[Frame(t, m).obj]]
                   y == r[iface[p]]
                   z == r[iface[q]]
        <5> HIDE DEF x, y, z
        <5>1. x \in Nat /\ y \in Nat /\ z \in Nat /\ x < y /\ y < z
          BY <3>2, <4>2, <4>3 DEF x, y, z
        <5>2. x < z
          BY <5>1, SMT
        <5> QED BY <5>2 DEF x, z
      <4> QED BY <3>4, <4>4
    <3> QED BY <3>5, <3>6
  <2> QED BY <2>2, <2>3
<1>5. CASE Unlock(t)
  <2>1. \A k \in Frames(u)' : k \in Frames(u) /\ Frame(u, k)' = Frame(u, k)
    BY <1>5, UnlockFrames
  <2> QED BY <1>2, <2>1
<1>6. CASE \E o \in Objects : Drop(t, o)
  <2>1. PICK o \in Objects : Drop(t, o)
    BY <1>6
  <2>2. /\ \A j, k \in Frames(t)' : j = k
        /\ \A x \in Threads : x # t =>
              Frames(x)' = Frames(x) /\ \A k \in Frames(x) : Frame(x, k)' = Frame(x, k)
    BY <2>1, DropFrames
  <2>3. CASE u = t
    <3>1. m = n
      BY <2>2, <2>3
    <3>2. n \in Int
      BY SMT DEF Frames
    <3> QED BY <3>1, <3>2, SMT
  <2>4. CASE u # t
    BY <1>2, <2>2, <2>4
  <2> QED BY <2>3, <2>4
<1> QED BY <1>3, <1>4, <1>5, <1>6 DEF Step

LEMMA KeptStep ==
  ASSUME Distinct, TypeOK, Kept, NEW t \in Threads,
         Step(t) \/ \E o \in Objects : Drop(t, o)
  PROVE  Kept'
<1> DEFINE L == Len(deleting[t])
<1> SUFFICES ASSUME NEW x \in c_data_set'
             PROVE  \/ Doomed(x)' \/ Rooted(x)'
                    \/ \E c \in CppObjs : /\ holds'[c] = x
                                          /\ Rooted(c)' \/ \E q \in c_data_set' : holds'[q] = c
  BY DEF Kept
<1>1. x \in PyObjs /\ x \in c_data_set /\ holds' = holds
  BY DEF TypeOK, Step, Assert, Remove, Unlock, Drop
<1>2. \/ Doomed(x) \/ Rooted(x)
      \/ \E c \in CppObjs : /\ holds[c] = x
                            /\ Rooted(c) \/ \E q \in c_data_set : holds[q] = c
  BY <1>1 DEF Kept
<1>3. CASE Assert(t)
  <2>1. /\ \A u \in Threads :
              /\ Frames(u)' = Frames(u)
              /\ \A n \in Frames(u) :
                    /\ Frame(u, n)'.obj = Frame(u, n).obj
                    /\ IF u = t /\ n = L THEN Frame(u, n)'.at = "remove"
                       ELSE Frame(u, n)'.at = Frame(u, n).at
    BY <1>3, AssertFrames
  <2>2. roots' = roots /\ c_data_set' = c_data_set
    BY <1>3 DEF Assert
  <2> HIDE DEF L
  <2>3. Doomed(x) => Doomed(x)'
    BY <2>1 DEF Doomed
  <2>4. \A o : Rooted(o) => Rooted(o)'
    BY <2>2 DEF Rooted
  <2> QED BY <1>1, <1>2, <2>2, <2>3, <2>4
<1>4. CASE Remove(t)
  <2> DEFINE p == Now(t).obj
  <2>1. /\ L \in Frames(t) /\ Frame(t, L).obj = p /\ p \in PyObjs
        /\ \A u \in Threads :
              /\ Frames(u) \subseteq Frames(u)'
              /\ \A n \in Frames(u) :
                    /\ Frame(u, n)'.obj = Frame(u, n).obj
                    /\ IF u = t /\ n = L THEN Frame(u, n)'.at = "unlock"
                       ELSE Frame(u, n)'.at = Frame(u, n).at
        /\ \A q \in PyObjs : Reaches(p, q) =>
              \E n \in Frames(t)' : Frame(t, n)'.obj = q /\ Frame(t, n)'.at = "assert"
    BY <1>4, RemoveFrames
  <2>2. roots' = roots /\ c_data_set' = c_data_set \ {p}
    BY <1>4 DEF Remove
  <2> HIDE DEF L, p
  <2>3. x # p
    BY <2>2
  <2>4. Doomed(x) => Doomed(x)'
    BY <2>1, <2>3 DEF Doomed
  <2>5. \A o : Rooted(o) => Rooted(o)'
    BY <2>2 DEF Rooted
  <2>6. ASSUME NEW c \in CppObjs, holds[c] = x, holds[p] = c
        PROVE  Doomed(x)'
    <3>1. Reaches(p, x)
      BY <2>6 DEF Reaches, Distinct, Objects
    <3>2. PICK n \in Frames(t)' : Frame(t, n)'.obj = x /\ Frame(t, n)'.at = "assert"
      BY <1>1, <2>1, <3>1
    <3> QED BY <3>2 DEF Doomed
  <2>7. \A q \in c_data_set : q # p => q \in c_data_set'
    BY <2>2
  <2> QED BY <1>1, <1>2, <2>4, <2>5, <2>6, <2>7
<1>5. CASE Unlock(t)
  <2>1. /\ Frame(t, L).at = "unlock" /\ Frames(t)' = Frames(t) \ {L}
        /\ \A n \in Frames(t)' : Frame(t, n)' = Frame(t, n)
        /\ \A u \in Threads : u # t =>
              Frames(u)' = Frames(u) /\ \A n \in Frames(u)' : Frame(u, n)' = Frame(u, n)
    BY <1>5, UnlockFrames
  <2>2. roots' = roots /\ c_data_set' = c_data_set
    BY <1>5 DEF Unlock
  <2> HIDE DEF L
  <2>3. Doomed(x) => Doomed(x)'
    <3>1. SUFFICES ASSUME NEW u \in Threads, NEW n \in Frames(u),
                          Frame(u, n).obj = x, Frame(u, n).at # "unlock"
                   PROVE  Doomed(x)'
      BY DEF Doomed
    <3>2. n \in Frames(u)' /\ Frame(u, n)' = Frame(u, n)
      BY <2>1, <3>1
    <3> QED BY <3>1, <3>2 DEF Doomed
  <2>4. \A o : Rooted(o) => Rooted(o)'
    BY <2>2 DEF Rooted
  <2> QED BY <1>1, <1>2, <2>2, <2>3, <2>4
<1>6. CASE \E o \in Objects : Drop(t, o)
  <2>1. PICK o \in Objects : Drop(t, o)
    BY <1>6
  <2>2. /\ Frames(t) = {}
        /\ \A u \in Threads : u # t =>
              Frames(u)' = Frames(u) /\ \A n \in Frames(u) : Frame(u, n)' = Frame(u, n)
        /\ \A q \in PyObjs : o = q \/ (o \notin PyObjs /\ holds[o] = q) =>
              \E n \in Frames(t)' : Frame(t, n)'.obj = q /\ Frame(t, n)'.at = "assert"
    BY <2>1, DropFrames
  <2>3. /\ c_data_set' = c_data_set
        /\ \A u \in Threads, z \in Objects : z # o /\ z \in roots[u] => z \in roots'[u]
    BY <2>1, DropShape
  <2>4. Doomed(x) => Doomed(x)'
    BY <2>2 DEF Doomed
  <2>5. \A z \in Objects : z # o => (Rooted(z) => Rooted(z)')
    BY <2>3 DEF Rooted
  <2>6. o = x \/ (o \notin PyObjs /\ holds[o] = x) => Doomed(x)'
    <3>1. SUFFICES ASSUME o = x \/ (o \notin PyObjs /\ holds[o] = x)
                   PROVE  Doomed(x)'
      OBVIOUS
    <3>2. PICK n \in Frames(t)' : Frame(t, n)'.obj = x /\ Frame(t, n)'.at = "assert"
      BY <1>1, <2>2, <3>1
    <3> QED BY <3>2 DEF Doomed
  <2>7. Rooted(x) => Doomed(x)' \/ Rooted(x)'
    BY <1>1, <2>5, <2>6 DEF Objects
  <2>8. ASSUME NEW c \in CppObjs, holds[c] = x, Rooted(c)
        PROVE  Doomed(x)' \/ Rooted(c)'
    <3>1. c \in Objects /\ c \notin PyObjs
      BY DEF Distinct, Objects
    <3> QED BY <2>5, <2>6, <2>8, <3>1
  <2> QED BY <1>1, <1>2, <2>3, <2>4, <2>7, <2>8
<1> QED BY <1>3, <1>4, <1>5, <1>6 DEF Step

-----------------------------------------------------------------------------
(* The invariant.                                                          *)

\* To begin with no callback is under way, and each object has its owner.
LEMMA InvInit ==
  ASSUME Distinct, Init
  PROVE  IInv
<1>1. TypeOK
  BY TypeInit
<1>2. \A t \in Threads : deleting[t] = <<>> /\ Frames(t) = {}
  <2>1. \A t \in Threads : deleting[t] = <<>>
    BY DEF Init
  <2>2. Len(<<>>) = 0 /\ 1..0 = {}
    BY SMT
  <2> QED BY <2>1, <2>2 DEF Frames
<1>3. Nested /\ Ascending
  BY <1>2 DEF Nested, Ascending
<1>4. Locked
  BY DEF Locked, Init, Distinct
<1>5. Grounded
  <2>1. SUFFICES ASSUME NEW S \in SUBSET Objects, S # {}
                 PROVE  \E o \in S : \A x \in S : holds[x] # o
    BY DEF Grounded
  <2>2. PICK o \in S : Owners(o) \cap S = {}
    BY <2>1 DEF Init
  <2>3. \A x \in S : holds[x] # o
    BY <2>2 DEF Owners
  <2> QED BY <2>3
<1>6. Kept
  <2>1. SUFFICES ASSUME NEW p \in c_data_set
                 PROVE  \/ Rooted(p)
                        \/ \E c \in CppObjs : /\ holds[c] = p
                                              /\ Rooted(c) \/ \E q \in c_data_set : holds[q] = c
    BY DEF Kept
  <2>2. p \in PyObjs /\ p \in Objects /\ c_data_set = PyObjs
    BY DEF Init, Objects
  <2>3. ASSUME NEW o \in Objects PROVE Rooted(o) \/ \E x \in Objects : holds[x] = o
    <3>1. PICK x \in Owners(o) : TRUE
      BY <2>3 DEF Init
    <3> QED BY <3>1 DEF Owners, Rooted
  <2>4. CASE Rooted(p)
    BY <2>4
  <2>5. CASE \E c \in Objects : holds[c] = p
    <3>1. PICK c \in Objects : holds[c] = p
      BY <2>5
    <3>2. c \in CppObjs /\ c \notin PyObjs /\ c # None
      BY <1>1, <2>2, <3>1 DEF TypeOK, Distinct, Objects
    <3>3. CASE Rooted(c)
      BY <3>1, <3>2, <3>3
    <3>4. CASE \E q \in Objects : holds[q] = c
      <4>1. PICK q \in Objects : holds[q] = c
        BY <3>4
      <4>2. q \in PyObjs
        BY <1>1, <3>2, <4>1 DEF TypeOK, Objects
      <4> QED BY <2>2, <3>1, <3>2, <4>1, <4>2
    <3> QED BY <2>3, <3>3, <3>4
  <2> QED BY <2>2, <2>3, <2>4, <2>5
<1> QED BY <1>1, <1>3, <1>4, <1>5, <1>6 DEF IInv

LEMMA InvStep ==
  ASSUME Distinct, IInv, [Next]_vars
  PROVE  IInv'
<1> USE DEF IInv
<1>1. CASE Next
  <2>1. PICK t \in Threads : Step(t) \/ \E o \in Objects : Drop(t, o)
    BY <1>1 DEF Next
  <2>2. TypeOK' /\ Locked' /\ Ascending' /\ Kept'
    BY <2>1, TypeStep, LockedStep, AscendingStep, KeptStep
  <2>3. Nested'
    BY <2>1, NestedAssert, NestedRemove, NestedUnlock, NestedDrop DEF Step
  <2>4. holds' = holds
    BY <2>1 DEF Step, Assert, Remove, Unlock, Drop
  <2>5. Grounded'
    BY <2>4 DEF Grounded
  <2> QED BY <2>2, <2>3, <2>5
<1>2. CASE UNCHANGED vars
  <2>1. /\ iface' = iface /\ holds' = holds /\ roots' = roots /\ c_data_set' = c_data_set
        /\ lock' = lock /\ deleting' = deleting
    BY <1>2 DEF vars
  <2>2. TypeOK'
    BY <2>1 DEF TypeOK
  <2>3. Nested' /\ Locked' /\ Ascending'
    BY <2>1 DEF Nested, Locked, Ascending, Frames, Frame, LockOf, Ranking, Reaches
  <2>4. Kept' /\ Grounded'
    BY <2>1 DEF Kept, Grounded, Doomed, Rooted, Frames, Frame
  <2> QED BY <2>2, <2>3, <2>4
<1> QED BY <1>1, <1>2

THEOREM Invariant ==
  ASSUME Distinct
  PROVE  Spec => []IInv
<1>1. Init => IInv
  BY InvInit
<1>2. IInv /\ [Next]_vars => IInv'
  BY InvStep
<1> QED BY <1>1, <1>2, PTL DEF Spec

\* What a thread waits for ranks above all that it holds: the lock is held by a callback
\* further out than the one that waits.
LEMMA OrderFollows ==
  ASSUME IInv
  PROVE  LockOrdered
<1> SUFFICES ASSUME NEW r \in [Ifaces -> Nat], Ranking(r), NEW t \in Threads, NEW i \in Ifaces,
                    lock[i] = t, At(t, "assert") \/ At(t, "remove")
             PROVE  r[i] < r[iface[Now(t).obj]]
  BY DEF LockOrdered
<1> DEFINE L == Len(deleting[t])
<1>1. PICK n \in Frames(t) : Frame(t, n).at = "unlock" /\ iface[Frame(t, n).obj] = i
  BY DEF IInv, Locked
<1>2. L \in Frames(t) /\ L \in Nat /\ Frame(t, L) = Now(t) /\ Now(t).at \in {"assert", "remove"}
  BY Current DEF IInv
<1>3. n # L
  BY <1>1, <1>2
<1>4. n < L
  <2>1. n \in 1..L
    BY DEF Frames
  <2> HIDE DEF L
  <2> QED BY <1>2, <1>3, <2>1, SMT
<1> QED BY <1>1, <1>2, <1>4 DEF IInv, Ascending

\* Of some natural numbers one is the least.
LEMMA Least ==
  ASSUME NEW S \in SUBSET Nat, S # {}
  PROVE  \E x \in S : \A y \in S : x <= y
<1>1. IsWellFoundedOn(OpToRel(<, Nat), Nat)
  BY NatLessThanWellFounded
<1>2. PICK x \in S : \A y \in S : ~(<<y, x>> \in OpToRel(<, Nat))
  BY <1>1, WFMin
<1>3. ASSUME NEW y \in S PROVE x <= y
  <2>1. ~(y < x)
    BY <1>2, <1>3 DEF OpToRel
  <2>2. x \in Nat /\ y \in Nat
    OBVIOUS
  <2> QED BY <2>1, <2>2, SMT
<1> QED BY <1>3

\* Of the threads that wait, take one that waits for a lock of the highest rank: who has
\* that lock waits for a higher one.
LEMMA CircleFollows ==
  ASSUME Distinct, IInv
  PROVE  NoCircle
<1> SUFFICES ASSUME NEW k \in Nat, NEW r \in [Ifaces -> 0..k], Ranking(r),
                    NEW W \in SUBSET Threads, W # {},
                    \A t \in W : \E u \in W : WaitsFor(t, u)
             PROVE  FALSE
  BY DEF NoCircle
<1> DEFINE rank(t) == r[iface[Now(t).obj]]
           S == {k - rank(t) : t \in W}
<1>1. ASSUME NEW t \in W
      PROVE  /\ At(t, "assert") \/ At(t, "remove")
             /\ iface[Now(t).obj] \in Ifaces /\ rank(t) \in 0..k /\ rank(t) \in Nat
             /\ k - rank(t) \in Nat
  <2>1. At(t, "assert") \/ At(t, "remove")
    BY DEF WaitsFor
  <2>2. iface[Now(t).obj] \in Ifaces
    BY <2>1, Current DEF IInv
  <2>3. rank(t) \in 0..k
    BY <2>2
  <2> HIDE DEF rank
  <2>4. rank(t) \in Nat /\ k - rank(t) \in Nat
    BY <2>3, SMT
  <2> QED BY <2>1, <2>2, <2>3, <2>4 DEF rank
<1>2. r \in [Ifaces -> Nat]
  BY SMT
<1>3. PICK t \in W : \A u \in W : k - rank(t) <= k - rank(u)
  <2>1. S \in SUBSET Nat /\ S # {}
    BY <1>1
  <2>2. PICK x \in S : \A y \in S : x <= y
    BY <2>1, Least
  <2> QED BY <2>2
<1>4. PICK u \in W : WaitsFor(t, u)
  OBVIOUS
<1>5. lock[iface[Now(t).obj]] = u /\ iface[Now(t).obj] \in Ifaces
  BY <1>1, <1>4 DEF WaitsFor, LockOf
<1>6. rank(t) < rank(u)
  BY <1>1, <1>2, <1>5, OrderFollows DEF LockOrdered
<1>7. k - rank(t) <= k - rank(u) /\ rank(t) \in Nat /\ rank(u) \in Nat
  BY <1>1, <1>3
<1> HIDE DEF rank
<1> QED BY <1>6, <1>7, SMT

\* If anything were left, each thing left would be held by another one of them.
LEMMA EmptyFollows ==
  ASSUME Distinct, IInv
  PROVE  EmptyAtRest
<1> SUFFICES ASSUME \A t \in Threads : roots[t] = {} /\ deleting[t] = <<>>, c_data_set # {}
             PROVE  FALSE
  BY DEF EmptyAtRest
<1> DEFINE S == c_data_set \cup {c \in CppObjs : \E q \in c_data_set : holds[q] = c}
<1>1. ASSUME NEW t \in Threads PROVE Frames(t) = {}
  BY <1>1, SMT DEF Frames
<1>2. ASSUME NEW p \in c_data_set
      PROVE  \E c \in S : holds[c] = p
  BY <1>1, <1>2 DEF IInv, Kept, Doomed, Rooted
<1>3. S \in SUBSET Objects /\ S # {}
  BY DEF IInv, TypeOK, Objects
<1>4. PICK o \in S : \A x \in S : holds[x] # o
  BY <1>3 DEF IInv, Grounded
<1>5. CASE o \in c_data_set
  BY <1>2, <1>4, <1>5
<1>6. CASE o \notin c_data_set
  BY <1>4, <1>6
<1> QED BY <1>5, <1>6

-----------------------------------------------------------------------------
(* What follows for MultiSet and its lock.                                 *)

\* A thread that ends a PythonProxy waits for locks in the order of the ranks: it holds
\* none of the rank of the one that it waits for, or above.
THEOREM LocksInOrder ==
  ASSUME Distinct
  PROVE  Spec => []LockOrdered
BY Invariant, OrderFollows, PTL

\* When the interfaces can be ranked, neither one thread nor several wait in a circle for
\* the locks of the c_data_sets.
THEOREM NoCircleForms ==
  ASSUME Distinct
  PROVE  Spec => []NoCircle
BY Invariant, CircleFollows, PTL

\* When the threads have let go of what they had and their callbacks have ended, no
\* c_data_set has a handle left.
THEOREM NothingLeft ==
  ASSUME Distinct
  PROVE  Spec => []EmptyAtRest
BY Invariant, EmptyFollows, PTL
=============================================================================
