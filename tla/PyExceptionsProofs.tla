------------------------- MODULE PyExceptionsProofs -------------------------
(***************************************************************************)
(* Proofs about PyExceptions, for any number of threads, exceptions,       *)
(* handles and exception objects and for stacks of any depth.              *)
(*                                                                         *)
(* HandleOwned needs that a C++ exception that is not a py_exception has   *)
(* no handle, and that what is thrown or kept is there (SameError, Alive): *)
(* it holds whatever happens between two steps.  That the right exception  *)
(* arrives needs that the slot is only used in transit (PendingInTransit)  *)
(* and that a call that failed left it there (Arrived); a thread that runs *)
(* __del__ methods or throws an exception twice breaks them for itself.    *)
(***************************************************************************)
EXTENDS PyExceptions, SequenceTheorems, TLAPS

\* An exception is in flight only in the user code of its own language.
Sides ==
    \A t \in Threads :
        /\ raised[t] # None => Top(t).lang = "py" /\ Top(t).stage = "user"
        /\ thrown[t] # None => Top(t).lang = "cpp" /\ Top(t).stage = "user"

\* What is thrown or kept is there.
Alive ==
    /\ \A t \in Threads : thrown[t] # None => obj[thrown[t]] # None
    /\ kept # None => obj[kept] # None

\* A handle in a C++ exception object stands for the same exception.
SameError ==
    \A o \in Objs : obj[o] # None =>
        /\ ~obj[o].py => obj[o].handle = None
        /\ obj[o].handle # None => error[obj[o].handle] = obj[o].err

\* A thread that throws no exception twice is alone with the one it throws, and
\* what a py_exception brought is still in it; a call that failed left its
\* exception in the slot.
Alone(t) ==
    thrown[t] # None =>
        /\ kept # thrown[t]
        /\ \A u \in Threads : thrown[u] = thrown[t] => u = t
        /\ obj[thrown[t]].py => obj[thrown[t]].handle # None

SlotFilled(t) ==
    Top(t).stage = "back" /\ Top(t).outcome # None => pending[t] # None

Arrived == \A t \in Plain : Alone(t) /\ SlotFilled(t)

IInv ==
    TypeOK /\ Sides /\ Alive /\ SameError /\ HandleOwned /\ PendingInTransit /\ Arrived

-----------------------------------------------------------------------------
(* What the steps do to a stack.                                           *)

LEMMA TopType == ASSUME TypeOK, NEW t \in Threads
                 PROVE  /\ Len(stack[t]) \in Nat \ {0}
                        /\ Top(t) \in Frames
  BY DEF TypeOK, Top

LEMMA BelowType ==
  ASSUME TypeOK, NEW t \in Threads
  PROVE  /\ Below(t) \in Seq(Frames)
         /\ Len(Below(t)) = Len(stack[t]) - 1
         /\ \A n \in 1..(Len(stack[t]) - 1) : Below(t)[n] = stack[t][n]
<1> DEFINE n == Len(stack[t]) - 1
<1>1. n \in Nat /\ \A i \in 1..n : stack[t][i] \in Frames
  BY TopType DEF TypeOK
<1> HIDE DEF n
<1>2. /\ SubSeq(stack[t], 1, n) \in Seq(Frames)
      /\ Len(SubSeq(stack[t], 1, n)) = IF 1 <= n THEN n - 1 + 1 ELSE 0
      /\ \A i \in 1..(n - 1 + 1) : SubSeq(stack[t], 1, n)[i] = stack[t][1 + i - 1]
  BY <1>1, SubSeqProperties
<1>3. /\ SubSeq(stack[t], 1, n) \in Seq(Frames)
      /\ Len(SubSeq(stack[t], 1, n)) = n
      /\ \A i \in 1..n : SubSeq(stack[t], 1, n)[i] = stack[t][i]
  BY <1>1, <1>2
<1> QED BY <1>3 DEF Below, n

\* The new stack of t is s.
StackIs(t, s) == stack' = [stack EXCEPT ![t] = s]
\* Then f is its innermost frame, and no other thread sees a difference.
NowTop(t, f) ==
    /\ stack' \in [Threads -> Seq(Frames) \ {<<>>}]
    /\ Top(t)' = f
    /\ \A u \in Threads \ {t} : Top(u)' = Top(u)

LEMMA StackSet ==
  ASSUME TypeOK, NEW t \in Threads, NEW s \in Seq(Frames), s # <<>>, StackIs(t, s)
  PROVE  NowTop(t, s[Len(s)])
  BY DEF TypeOK, StackIs, NowTop, Top

LEMMA Pushed ==
  ASSUME TypeOK, NEW t \in Threads, NEW g \in Frames,
         StackIs(t, Append(stack[t], g))
  PROVE  NowTop(t, g)
<1>1. /\ Append(stack[t], g) \in Seq(Frames) /\ Append(stack[t], g) # <<>>
      /\ Append(stack[t], g)[Len(Append(stack[t], g))] = g
  BY DEF TypeOK
<1> QED BY <1>1, StackSet

LEMMA TopChanged ==
  ASSUME TypeOK, NEW t \in Threads, NEW f \in Frames,
         StackIs(t, Append(Below(t), f))
  PROVE  NowTop(t, f)
<1>1. /\ Append(Below(t), f) \in Seq(Frames) /\ Append(Below(t), f) # <<>>
      /\ Append(Below(t), f)[Len(Append(Below(t), f))] = f
  BY BelowType
<1> QED BY <1>1, StackSet

LEMMA Called ==
  ASSUME TypeOK, NEW t \in Threads, NEW f \in Frames, NEW g \in Frames,
         StackIs(t, Below(t) \o <<f, g>>)
  PROVE  NowTop(t, g)
<1> DEFINE s == Below(t) \o <<f, g>>
<1>1. Below(t) \in Seq(Frames) /\ Len(Below(t)) \in Nat /\ <<f, g>> \in Seq(Frames)
  BY BelowType
<1>2. s \in Seq(Frames) /\ Len(s) = Len(Below(t)) + 2 /\ s[Len(s)] = g
  BY <1>1
<1>3. s # <<>>
  BY <1>1, <1>2
<1> QED BY <1>2, <1>3, StackSet

LEMMA Ended ==
  ASSUME TypeOK, NEW t \in Threads, Len(stack[t]) > 1, StackIs(t, Below(t))
  PROVE  \E f \in Frames : NowTop(t, f)
<1>1. Below(t) \in Seq(Frames) /\ Below(t) # <<>> /\ Below(t)[Len(Below(t))] \in Frames
  BY BelowType, TopType
<1> QED BY <1>1, StackSet

\* A frame ends with the outcome e.
LEMMA Popped ==
  ASSUME TypeOK, NEW t \in Threads, Len(stack[t]) > 1,
         NEW e \in Exceptions \cup {None}, Pop(t, e)
  PROVE  \E f \in Frames : NowTop(t, f) /\ f.stage = "back" /\ f.outcome = e
<1> DEFINE n == Len(stack[t]) - 1
<1>1. n \in Nat /\ n > 0 /\ n = Len(Below(t)) /\ Below(t) \in Seq(Frames)
  <2>1. Len(stack[t]) \in Nat
    BY TopType
  <2> QED BY <2>1, BelowType
<1> DEFINE f == [stack[t][n] EXCEPT !.stage = "back", !.outcome = e]
           s == [Below(t) EXCEPT ![n] = f]
<1>2. stack[t][n] \in Frames
  BY <1>1, TopType DEF TypeOK
<1>3. f \in Frames /\ f.stage = "back" /\ f.outcome = e
  BY <1>2 DEF Frames
<1>4. s \in Seq(Frames) /\ s # <<>> /\ Len(s) = n /\ s[n] = f
  BY <1>1, <1>3
<1>5. StackIs(t, s)
  BY DEF Pop, StackIs
<1> QED BY <1>3, <1>4, <1>5, StackSet

-----------------------------------------------------------------------------
(* The steps.                                                              *)

LEMMA InitInv == Init => IInv
<1> SUFFICES ASSUME Init PROVE IInv
  OBVIOUS
<1>1. ASSUME NEW t \in Threads
      PROVE  stack[t] \in Seq(Frames) \ {<<>>} /\ Top(t).stage = "user"
  <2>1. \A l \in {"py", "cpp"} : Frame(l, FALSE) \in Frames
    BY DEF Frame, Frames
  <2>2. PICK l \in {"py", "cpp"} : stack[t] = <<Frame(l, FALSE)>>
    BY <1>1 DEF Init
  <2> DEFINE f == Frame(l, FALSE)
  <2>3. f \in Frames /\ f.stage = "user"
    BY <2>1 DEF Frame
  <2> HIDE DEF f
  <2>4. <<f>> \in Seq(Frames) /\ <<f>> # <<>> /\ <<f>>[Len(<<f>>)] = f
    BY <2>3
  <2>5. stack[t] = <<f>>
    BY <2>2 DEF f
  <2> QED BY <2>3, <2>4, <2>5 DEF Top
<1>2. DOMAIN stack = Threads /\ stack = [t \in Threads |-> stack[t]]
  BY DEF Init
<1>3. TypeOK
  BY <1>1, <1>2 DEF Init, TypeOK
<1>4. Sides /\ Alive /\ SameError
  BY DEF Init, Sides, Alive, SameError
<1>5. HandleOwned
  BY DistinctAssumption DEF Init, HandleOwned, Owns
<1>6. PendingInTransit /\ Arrived
  BY <1>1 DEF Init, PendingInTransit, Arrived, Plain, Alone, SlotFilled
<1> QED BY <1>3, <1>4, <1>5, <1>6 DEF IInv

\* Steps of user code that raise, catch, keep and throw again.
LEMMA UserKeepsInv ==
  ASSUME IInv, NEW t \in Threads,
         \/ \E e \in Errs : RaisePy(t, e)
         \/ CatchPy(t) \/ KeepCpp(t) \/ RethrowCpp(t)
  PROVE  IInv'
<1>1. \A u \in Threads : Top(u)' = Top(u)
  BY DEF RaisePy, CatchPy, KeepCpp, RethrowCpp, Top
<1>2. TypeOK'
  BY DEF IInv, TypeOK, RaisePy, CatchPy, KeepCpp, RethrowCpp, Exceptions
<1>3. Sides'
  BY <1>1 DEF IInv, TypeOK, Sides, Runs, RaisePy, CatchPy, KeepCpp, RethrowCpp
<1>4. Alive' /\ SameError'
  BY DEF IInv, TypeOK, Alive, SameError, Runs, RaisePy, CatchPy, KeepCpp,
         RethrowCpp
<1>5. HandleOwned'
  BY DEF IInv, HandleOwned, Owns, RaisePy, CatchPy, KeepCpp, RethrowCpp
<1>6. PendingInTransit'
  BY <1>1 DEF IInv, PendingInTransit, RaisePy, CatchPy, KeepCpp,
              RethrowCpp
<1>7. Arrived'
  BY <1>1 DEF IInv, TypeOK, Arrived, Plain, Alone, SlotFilled, RaisePy, CatchPy, KeepCpp, RethrowCpp
<1> QED BY <1>2, <1>3, <1>4, <1>5, <1>6, <1>7 DEF IInv

LEMMA ThrowCppKeepsInv ==
  ASSUME IInv, NEW t \in Threads, NEW e \in Errs, NEW o \in Objs,
         ThrowCpp(t, e, o)
  PROVE  IInv'
<1>1. \A u \in Threads : Top(u)' = Top(u)
  BY DEF ThrowCpp, Top
<1>2. [err |-> e, py |-> FALSE, handle |-> None] \in Thrown
  BY DEF Thrown, Exceptions
<1>3. TypeOK'
  BY <1>2 DEF IInv, TypeOK, ThrowCpp
<1>4. Sides'
  BY <1>1 DEF IInv, TypeOK, Sides, Runs, ThrowCpp
<1>5. Alive' /\ SameError'
  BY <1>2, DistinctAssumption DEF IInv, TypeOK, Alive, SameError, ThrowCpp
<1>6. HandleOwned'
  <2>1. \A q \in Objs, h \in Handles : Owns(q, h)' <=> Owns(q, h)
    BY DistinctAssumption DEF IInv, TypeOK, Owns, ThrowCpp
  <2> QED BY <2>1 DEF IInv, HandleOwned, ThrowCpp
<1>7. PendingInTransit'
  BY <1>1 DEF IInv, PendingInTransit, ThrowCpp
<1>8. Arrived'
  BY <1>1, DistinctAssumption DEF IInv, TypeOK, Alive, Arrived, Plain, Alone, SlotFilled, ThrowCpp
<1> QED BY <1>3, <1>4, <1>5, <1>6, <1>7, <1>8 DEF IInv

\* An exception object that nothing refers to any more dies with its handle.
LEMMA DestroyKeeps ==
  ASSUME TypeOK, SameError, HandleOwned, NEW o \in Objs, obj[o] # None,
         Destroy(o), UNCHANGED pending
  PROVE  /\ obj' \in [Objs -> Thrown \cup {None}]
         /\ error' \in [Handles -> Exceptions \cup {None}]
         /\ obj' = [obj EXCEPT ![o] = None]
         /\ \A t \in Threads : pending[t] # None => error'[pending[t]] = error[pending[t]]
         /\ SameError'
         /\ HandleOwned'
<1>1. obj[o] \in Thrown /\ obj[o].handle \in Handles \cup {None}
  BY DEF TypeOK, Thrown
<1>2. obj' = [obj EXCEPT ![o] = None] /\ obj' \in [Objs -> Thrown \cup {None}]
  BY DEF Destroy, TypeOK
<1>3. error' \in [Handles -> Exceptions \cup {None}]
  BY <1>1 DEF Destroy, Drop, TypeOK
<1>4. \A h \in Handles : /\ Owns(o, h) => error'[h] = None
                         /\ ~Owns(o, h) => error'[h] = error[h]
  BY <1>1, DistinctAssumption DEF Destroy, Drop, Owns, TypeOK
<1>5. \A q \in Objs, h \in Handles : Owns(q, h)' <=> q # o /\ Owns(q, h)
  BY <1>2 DEF Owns, TypeOK
<1>6. \A t \in Threads : pending[t] # None => error'[pending[t]] = error[pending[t]]
  BY <1>4 DEF TypeOK, HandleOwned
<1>7. SameError'
  <2> SUFFICES ASSUME NEW q \in Objs, q # o, obj[q] # None
               PROVE  obj[q].handle # None => error'[obj[q].handle] = obj[q].err
    BY <1>2 DEF SameError, TypeOK
  <2>1. CASE obj[q].handle = None
    BY <2>1
  <2>2. CASE obj[q].handle # None
    <3>1. obj[q].handle \in Handles /\ Owns(q, obj[q].handle)
      BY <2>2 DEF TypeOK, Thrown, Owns
    <3>2. ~Owns(o, obj[q].handle)
      BY <3>1 DEF HandleOwned
    <3> QED BY <1>4, <3>1, <3>2, <2>2 DEF SameError
  <2> QED BY <2>1, <2>2
<1>8. HandleOwned'
  <2> SUFFICES ASSUME NEW h \in Handles
               PROVE  /\ error'[h] # None <=> \/ \E t \in Threads : pending[t] = h
                                             \/ \E q \in Objs : Owns(q, h)'
                      /\ \A t \in Threads, q \in Objs : ~(pending[t] = h /\ Owns(q, h)')
                      /\ \A p, q \in Objs : Owns(p, h)' /\ Owns(q, h)' => p = q
    BY DEF HandleOwned
  <2>1. CASE Owns(o, h)
    BY <1>4, <1>5, <2>1 DEF HandleOwned
  <2>2. CASE ~Owns(o, h)
    BY <1>4, <1>5, <2>2 DEF HandleOwned
  <2> QED BY <2>1, <2>2
<1> QED BY <1>2, <1>3, <1>6, <1>7, <1>8

LEMMA CatchCppKeepsInv ==
  ASSUME IInv, NEW t \in Threads, CatchCpp(t)
  PROVE  IInv'
<1> DEFINE o == thrown[t]
<1>1. \A u \in Threads : Top(u)' = Top(u)
  BY DEF CatchCpp, Top
<1>2. o \in Objs /\ obj[o] # None /\ thrown' = [thrown EXCEPT ![t] = None]
      /\ UNCHANGED <<stack, raised, pending, kept, left, crashed>>
  BY DEF CatchCpp, IInv, TypeOK, Alive
<1>3. CASE Referred(t, o)
  <2>1. UNCHANGED <<obj, error>>
    BY <1>3 DEF CatchCpp
  <2>2. TypeOK' /\ Sides' /\ Alive' /\ SameError'
    BY <1>1, <1>2, <2>1 DEF IInv, TypeOK, Sides, Alive, SameError
  <2>3. HandleOwned' /\ PendingInTransit'
    BY <1>1, <1>2, <2>1 DEF IInv, HandleOwned, Owns, PendingInTransit
  <2>4. Arrived'
    BY <1>1, <1>2, <2>1 DEF IInv, TypeOK, Arrived, Plain, Alone, SlotFilled
  <2> QED BY <2>2, <2>3, <2>4 DEF IInv
<1>4. CASE ~Referred(t, o)
  <2>1. Destroy(o)
    BY <1>4 DEF CatchCpp
  <2>2. /\ obj' \in [Objs -> Thrown \cup {None}]
        /\ error' \in [Handles -> Exceptions \cup {None}]
        /\ obj' = [obj EXCEPT ![o] = None]
        /\ \A u \in Threads : pending[u] # None => error'[pending[u]] = error[pending[u]]
        /\ SameError' /\ HandleOwned'
    BY <1>2, <2>1, DestroyKeeps DEF IInv
  <2>3. TypeOK'
    BY <1>2, <2>2 DEF IInv, TypeOK
  <2>4. Sides' /\ Alive'
    BY <1>1, <1>2, <1>4, <2>2 DEF IInv, TypeOK, Sides, Alive, Referred
  <2>5. PendingInTransit'
    BY <1>1, <1>2, <2>2 DEF IInv, PendingInTransit
  <2>6. Arrived'
    BY <1>1, <1>2, <2>2 DEF IInv, TypeOK, Arrived, Plain, Alone, SlotFilled
  <2> QED BY <2>2, <2>3, <2>4, <2>5, <2>6 DEF IInv
<1> QED BY <1>3, <1>4

LEMMA ForgetCppKeepsInv ==
  ASSUME IInv, ForgetCpp
  PROVE  IInv'
<1>1. \A u \in Threads : Top(u)' = Top(u)
  BY DEF ForgetCpp, Top
<1>2. kept \in Objs /\ obj[kept] # None /\ kept' = None
      /\ UNCHANGED <<stack, raised, thrown, pending, left, crashed>>
  BY DEF ForgetCpp, IInv, TypeOK, Alive
<1>3. CASE \E u \in Threads : thrown[u] = kept
  <2>1. UNCHANGED <<obj, error>>
    BY <1>3 DEF ForgetCpp
  <2>2. TypeOK' /\ Sides' /\ Alive' /\ SameError'
    BY <1>1, <1>2, <2>1 DEF IInv, TypeOK, Sides, Alive, SameError
  <2>3. HandleOwned' /\ PendingInTransit' /\ Arrived'
    BY <1>1, <1>2, <2>1 DEF IInv, TypeOK, HandleOwned, Owns, PendingInTransit,
                            Arrived, Plain, Alone, SlotFilled
  <2> QED BY <2>2, <2>3 DEF IInv
<1>4. CASE ~\E u \in Threads : thrown[u] = kept
  <2>1. Destroy(kept)
    BY <1>4 DEF ForgetCpp
  <2>2. /\ obj' \in [Objs -> Thrown \cup {None}]
        /\ error' \in [Handles -> Exceptions \cup {None}]
        /\ obj' = [obj EXCEPT ![kept] = None]
        /\ \A u \in Threads : pending[u] # None => error'[pending[u]] = error[pending[u]]
        /\ SameError' /\ HandleOwned'
    BY <1>2, <2>1, DestroyKeeps DEF IInv
  <2>3. TypeOK'
    BY <1>2, <2>2 DEF IInv, TypeOK
  <2>4. Sides' /\ Alive'
    BY <1>1, <1>2, <1>4, <2>2 DEF IInv, TypeOK, Sides, Alive
  <2>5. PendingInTransit'
    BY <1>1, <1>2, <2>2 DEF IInv, PendingInTransit
  <2>6. Arrived'
    BY <1>1, <1>2, <2>2 DEF IInv, TypeOK, Arrived, Plain, Alone, SlotFilled
  <2> QED BY <2>2, <2>3, <2>4, <2>5, <2>6 DEF IInv
<1> QED BY <1>3, <1>4

-----------------------------------------------------------------------------
(* Steps that only change a stack.                                         *)

LEMMA CallKeepsInv ==
  ASSUME IInv, NEW t \in Threads, NEW k \in Kinds, Call(t, k)
  PROVE  IInv'
<1> DEFINE f == [Top(t) EXCEPT !.stage = "wait", !.kind = k]
           g == Frame(IF f.lang = "py" THEN "cpp" ELSE "py", FALSE)
<1>1. Top(t) \in Frames
  BY TopType DEF IInv
<1>2. f \in Frames /\ g \in Frames /\ g.stage = "user"
  BY <1>1 DEF Frames, Frame
<1>3. StackIs(t, Below(t) \o <<f, g>>)
  BY DEF Call, StackIs
<1>4. NowTop(t, g)
  <2> HIDE DEF f, g
  <2> QED BY <1>2, <1>3, Called DEF IInv
<1> HIDE DEF f, g
<1>5. UNCHANGED <<raised, thrown, pending, error, obj, kept, left, crashed>>
  BY DEF Call
<1>6. Top(t).stage = "user" /\ raised[t] = None /\ thrown[t] = None
  BY DEF Call, Runs
<1>7. TypeOK' /\ Alive' /\ SameError'
  BY <1>4, <1>5 DEF IInv, TypeOK, NowTop, Alive, SameError
<1>8. Sides'
  BY <1>4, <1>5, <1>6 DEF IInv, Sides, NowTop
<1>9. HandleOwned'
  BY <1>5 DEF IInv, HandleOwned, Owns
<1>10. PendingInTransit'
  BY <1>4, <1>5, <1>6 DEF IInv, PendingInTransit, NowTop
<1>11. Arrived'
  BY <1>2, <1>4, <1>5 DEF IInv, Arrived, Plain, Alone, SlotFilled, NowTop
<1> QED BY <1>7, <1>8, <1>9, <1>10, <1>11 DEF IInv

LEMMA DelKeepsInv ==
  ASSUME IInv, NEW t \in Threads, Del(t)
  PROVE  IInv'
<1> DEFINE g == Frame("py", TRUE)
<1>1. g \in Frames /\ t \in Dels
  BY DEF Frames, Frame, Del
<1>2. StackIs(t, Append(stack[t], g))
  BY DEF Del, StackIs, IInv, TypeOK
<1>3. NowTop(t, g)
  <2> HIDE DEF g
  <2> QED BY <1>1, <1>2, Pushed DEF IInv
<1> HIDE DEF g
<1>4. UNCHANGED <<raised, thrown, pending, error, obj, kept, left, crashed>>
  BY DEF Del
<1>5. Top(t).stage = "back"
  BY DEF Del
<1>6. TypeOK' /\ Alive' /\ SameError'
  BY <1>3, <1>4 DEF IInv, TypeOK, NowTop, Alive, SameError
<1>7. Sides'
  BY <1>3, <1>4, <1>5 DEF IInv, Sides, NowTop
<1>8. HandleOwned'
  BY <1>4 DEF IInv, HandleOwned, Owns
<1>9. PendingInTransit' /\ Arrived'
  BY <1>1, <1>3, <1>4 DEF IInv, PendingInTransit, Arrived, Plain, Alone, SlotFilled, NowTop
<1> QED BY <1>6, <1>7, <1>8, <1>9 DEF IInv

LEMMA DelEndsKeepsInv ==
  ASSUME IInv, NEW t \in Threads, DelEnds(t)
  PROVE  IInv'
<1>1. t \in Dels
  BY DEF DelEnds
<1>2. PICK f \in Frames : NowTop(t, f)
  <2>1. StackIs(t, Below(t)) /\ Len(stack[t]) > 1
    BY DEF DelEnds, Ends, StackIs
  <2> QED BY <2>1, Ended DEF IInv
<1>3. /\ raised' = [raised EXCEPT ![t] = None]
      /\ UNCHANGED <<thrown, pending, error, obj, kept, left, crashed>>
      /\ Top(t).lang = "py"
  BY DEF DelEnds, Ends
<1>4. TypeOK' /\ Alive' /\ SameError'
  BY <1>2, <1>3 DEF IInv, TypeOK, NowTop, Alive, SameError
<1>5. Sides'
  BY <1>2, <1>3 DEF IInv, TypeOK, Sides, NowTop
<1>6. HandleOwned'
  BY <1>3 DEF IInv, HandleOwned, Owns
<1>7. PendingInTransit' /\ Arrived'
  BY <1>1, <1>2, <1>3 DEF IInv, PendingInTransit, Arrived, Plain, Alone, SlotFilled, NowTop
<1> QED BY <1>4, <1>5, <1>6, <1>7 DEF IInv

LEMMA ReturnKeepsInv ==
  ASSUME IInv, NEW t \in Threads, ReturnNormally(t)
  PROVE  IInv'
<1>1. Pop(t, None) /\ Len(stack[t]) > 1 /\ Top(t).stage = "user"
      /\ raised[t] = None /\ thrown[t] = None
      /\ UNCHANGED <<raised, thrown, pending, error, obj, kept, left, crashed>>
  BY DEF ReturnNormally, Ends
<1>2. PICK f \in Frames : NowTop(t, f) /\ f.stage = "back" /\ f.outcome = None
  BY <1>1, Popped DEF IInv
<1>3. TypeOK' /\ Alive' /\ SameError'
  BY <1>1, <1>2 DEF IInv, TypeOK, NowTop, Alive, SameError
<1>4. Sides'
  BY <1>1, <1>2 DEF IInv, Sides, NowTop
<1>5. HandleOwned'
  BY <1>1 DEF IInv, HandleOwned, Owns
<1>6. PendingInTransit' /\ Arrived'
  BY <1>1, <1>2 DEF IInv, PendingInTransit, Arrived, Plain, Alone, SlotFilled, NowTop
<1> QED BY <1>3, <1>4, <1>5, <1>6 DEF IInv

\* The caller goes on, in user code.
LEMMA Resumed ==
  ASSUME TypeOK, NEW t \in Threads, Resume(t)
  PROVE  \E f \in Frames : /\ NowTop(t, f) /\ f.stage = "user"
                           /\ f.lang = Top(t).lang /\ f.del = Top(t).del
<1> DEFINE f == [Top(t) EXCEPT !.stage = "user", !.kind = None, !.outcome = None]
<1>1. f \in Frames /\ f.stage = "user" /\ f.lang = Top(t).lang /\ f.del = Top(t).del
  BY TopType DEF Frames
<1>2. StackIs(t, Append(Below(t), f))
  BY DEF Resume, StackIs
<1> HIDE DEF f
<1> QED BY <1>1, <1>2, TopChanged

LEMMA ResultKeepsInv ==
  ASSUME IInv, NEW t \in Threads, ResultFromCpp(t) \/ ResultFromPy(t)
  PROVE  IInv'
<1>1. Resume(t) /\ Top(t).stage = "back" /\ pending[t] = None
  BY DEF ResultFromCpp, ResultFromPy, Back, Slot
<1>2. PICK f \in Frames : NowTop(t, f) /\ f.stage = "user" /\ f.lang = Top(t).lang
  BY <1>1, Resumed DEF IInv
<1>3. /\ UNCHANGED <<thrown, pending, error, obj, kept, left, crashed>>
      /\ \E e \in {AssertionError, None} : raised' = [raised EXCEPT ![t] = e]
      /\ raised'[t] # None => Top(t).lang = "py"
  <2>1. CASE ResultFromCpp(t)
    BY <2>1 DEF ResultFromCpp, Back
  <2>2. CASE ResultFromPy(t)
    BY <2>2, <1>1 DEF ResultFromPy, IInv, Sides, TypeOK
  <2> QED BY <2>1, <2>2
<1>4. TypeOK' /\ Alive' /\ SameError'
  BY <1>2, <1>3 DEF IInv, TypeOK, NowTop, Alive, SameError, Exceptions
<1>5. Sides'
  BY <1>1, <1>2, <1>3 DEF IInv, TypeOK, Sides, NowTop
<1>6. HandleOwned'
  BY <1>3 DEF IInv, HandleOwned, Owns
<1>7. PendingInTransit' /\ Arrived'
  BY <1>1, <1>2, <1>3 DEF IInv, PendingInTransit, Arrived, Plain, Alone, SlotFilled, NowTop
<1> QED BY <1>4, <1>5, <1>6, <1>7 DEF IInv

LEMMA CrashKeepsInv ==
  ASSUME IInv, NEW t \in Threads, Crash(t)
  PROVE  IInv'
<1>1. \A u \in Threads : Top(u)' = Top(u)
  BY DEF Crash, Top
<1>2. UNCHANGED <<stack, raised, thrown, pending, error, obj, kept, left>>
      /\ crashed' = TRUE
  BY DEF Crash
<1> QED BY <1>1, <1>2 DEF IInv, TypeOK, Sides, Alive, SameError, HandleOwned,
           Owns, PendingInTransit, Arrived, Plain, Alone, SlotFilled

-----------------------------------------------------------------------------
(* Steps that take an exception over the border.                           *)

\* The slot gets a new handle.
LEMMA SetKeeps ==
  ASSUME TypeOK, HandleOwned, NEW t \in Threads, NEW h \in Handles,
         NEW e \in Exceptions, SetPending(t, h, e),
         \A q \in Objs, k \in Handles : Owns(q, k)' <=> Owns(q, k)
  PROVE  /\ pending' = [pending EXCEPT ![t] = h]
         /\ error' \in [Handles -> Exceptions \cup {None}]
         /\ error'[h] = e
         /\ \A u \in Threads \ {t} :
               pending[u] # None => error'[pending[u]] = error[pending[u]]
         /\ \A q \in Objs, k \in Handles : Owns(q, k) => error'[k] = error[k]
         /\ HandleOwned'
<1>1. pending' = [pending EXCEPT ![t] = h] /\ error[h] = None
  BY DEF SetPending, Slot
<1>2. error' \in [Handles -> Exceptions \cup {None}] /\ error'[h] = e
  BY DEF SetPending, Drop, Slot, TypeOK
<1>3. \A k \in Handles \ {h} :
         error'[k] = IF k = pending[t] THEN None ELSE error[k]
  BY DistinctAssumption DEF SetPending, Drop, Slot, TypeOK
<1>4. \A k \in Handles : ~(pending[t] = k /\ k = h)
  BY <1>1 DEF HandleOwned
<1>5. \A u \in Threads \ {t} :
         pending[u] # None => error'[pending[u]] = error[pending[u]]
  <2> SUFFICES ASSUME NEW u \in Threads \ {t}, pending[u] # None
               PROVE  error'[pending[u]] = error[pending[u]]
    OBVIOUS
  <2>1. pending[u] \in Handles /\ pending[u] # h /\ pending[u] # pending[t]
    BY <1>1 DEF TypeOK, HandleOwned
  <2> QED BY <2>1, <1>3
<1>6. \A q \in Objs, k \in Handles : Owns(q, k) => k # h /\ k # pending[t]
  BY <1>1 DEF HandleOwned
<1>7. \A q \in Objs, k \in Handles : Owns(q, k) => error'[k] = error[k]
  BY <1>3, <1>6
<1>8. HandleOwned'
  <2> SUFFICES ASSUME NEW k \in Handles
               PROVE  /\ error'[k] # None <=> \/ \E u \in Threads : pending'[u] = k
                                             \/ \E q \in Objs : Owns(q, k)
                      /\ \A u, v \in Threads :
                            pending'[u] = k /\ pending'[v] = k => u = v
                      /\ \A u \in Threads, q \in Objs :
                            ~(pending'[u] = k /\ Owns(q, k))
                      /\ \A p, q \in Objs : Owns(p, k) /\ Owns(q, k) => p = q
    BY DEF HandleOwned
  <2>1. CASE k = h
    <3>1. error'[k] # None /\ pending'[t] = k
      BY <1>1, <1>2, <2>1, DistinctAssumption DEF TypeOK
    <3>2. \A u \in Threads : pending'[u] = k => u = t
      BY <1>1, <2>1 DEF HandleOwned, TypeOK
    <3>3. \A q \in Objs : ~Owns(q, k)
      BY <1>6, <2>1
    <3> QED BY <3>1, <3>2, <3>3
  <2>2. CASE k # h
    <3>1. \A u \in Threads : pending'[u] = k <=> u # t /\ pending[u] = k
      BY <1>1, <2>2 DEF TypeOK
    <3>2. CASE k = pending[t]
      BY <1>3, <2>2, <3>1, <3>2 DEF HandleOwned
    <3>3. CASE k # pending[t]
      BY <1>3, <2>2, <3>1, <3>3 DEF HandleOwned
    <3> QED BY <3>2, <3>3
  <2> QED BY <2>1, <2>2
<1> QED BY <1>1, <1>2, <1>5, <1>7, <1>8

LEMMA ExceptFromPyKeepsInv ==
  ASSUME IInv, NEW t \in Threads, NEW h \in Handles, ExceptFromPy(t, h)
  PROVE  IInv'
<1> DEFINE e == raised[t]
<1>1. /\ SetPending(t, h, e) /\ Pop(t, e) /\ Len(stack[t]) > 1
      /\ raised' = [raised EXCEPT ![t] = None]
      /\ UNCHANGED <<thrown, obj, kept, left, crashed>>
      /\ Top(t).lang = "py" /\ e # None
  BY DEF ExceptFromPy, Ends
<1>2. e \in Exceptions /\ thrown[t] = None
  BY <1>1 DEF IInv, TypeOK, Sides
<1>3. PICK f \in Frames : NowTop(t, f) /\ f.stage = "back" /\ f.outcome = e
  BY <1>1, <1>2, Popped DEF IInv
<1>4. \A q \in Objs, k \in Handles : Owns(q, k)' <=> Owns(q, k)
  BY <1>1 DEF Owns
<1> HIDE DEF e
<1>5. /\ pending' = [pending EXCEPT ![t] = h]
      /\ error' \in [Handles -> Exceptions \cup {None}]
      /\ error'[h] = e
      /\ \A u \in Threads \ {t} :
            pending[u] # None => error'[pending[u]] = error[pending[u]]
      /\ \A q \in Objs, k \in Handles : Owns(q, k) => error'[k] = error[k]
      /\ HandleOwned'
  BY <1>1, <1>2, <1>4, SetKeeps DEF IInv
<1>6. TypeOK'
  BY <1>1, <1>3, <1>5 DEF IInv, TypeOK, NowTop
<1>7. Sides' /\ Alive'
  BY <1>1, <1>2, <1>3 DEF IInv, TypeOK, Sides, Alive, NowTop
<1>8. SameError'
  BY <1>1, <1>5 DEF IInv, TypeOK, SameError, Owns, Thrown
<1>9. PendingInTransit'
  BY <1>3, <1>5 DEF IInv, TypeOK, PendingInTransit, NowTop
<1>10. Arrived'
  <2>1. \A u \in Threads \ {t} : pending'[u] = pending[u]
    BY <1>5 DEF IInv, TypeOK
  <2>2. pending'[t] # None
    BY <1>5, DistinctAssumption DEF IInv, TypeOK
  <2> QED BY <1>1, <1>3, <2>1, <2>2 DEF IInv, Arrived, Plain, Alone, SlotFilled, NowTop
<1> QED BY <1>5, <1>6, <1>7, <1>8, <1>9, <1>10 DEF IInv

\* An exception that is no longer thrown by t changes nothing for those that
\* throw theirs alone.
LEMMA StillAlone ==
  ASSUME TypeOK, Arrived, NEW t \in Threads, thrown[t] # None,
         thrown' = [thrown EXCEPT ![t] = None], UNCHANGED kept,
         \A q \in Objs : q # thrown[t] => obj'[q] = obj[q], NEW u \in Plain
  PROVE  Alone(u)'
<1>1. CASE u = t
  BY <1>1 DEF TypeOK, Alone
<1>2. CASE u # t
  BY <1>2 DEF TypeOK, Arrived, Alone, Plain
<1> QED BY <1>1, <1>2

LEMMA TranslateStdKeepsInv ==
  ASSUME IInv, NEW t \in Threads, NEW h \in Handles, TranslateStd(t, h)
  PROVE  IInv'
<1> DEFINE o == thrown[t]
           e == obj[o].err
<1>1. /\ SetPending(t, h, e) /\ Pop(t, e) /\ Len(stack[t]) > 1
      /\ thrown' = [thrown EXCEPT ![t] = None]
      /\ obj' = IF Referred(t, o) THEN obj ELSE [obj EXCEPT ![o] = None]
      /\ UNCHANGED <<raised, kept, left, crashed>>
      /\ Top(t).lang = "cpp" /\ o # None /\ ~obj[o].py
  BY DEF TranslateStd, Ends
<1>2. /\ o \in Objs /\ obj[o] \in Thrown /\ obj[o] # None
      /\ e \in Exceptions /\ obj[o].handle = None /\ raised[t] = None
  BY <1>1 DEF IInv, TypeOK, Sides, Alive, SameError, Thrown
<1>3. PICK f \in Frames : NowTop(t, f) /\ f.stage = "back" /\ f.outcome = e
  <2> HIDE DEF e
  <2> QED BY <1>1, <1>2, Popped DEF IInv
<1>4. /\ obj' \in [Objs -> Thrown \cup {None}]
      /\ \A q \in Objs : obj'[q] # None => obj'[q] = obj[q]
      /\ \A q \in Objs : q # o => obj'[q] = obj[q]
      /\ Referred(t, o) => obj' = obj
  BY <1>1, <1>2 DEF IInv, TypeOK
<1>5. \A q \in Objs, k \in Handles : Owns(q, k)' <=> Owns(q, k)
  <2> SUFFICES ASSUME NEW q \in Objs, NEW k \in Handles
               PROVE  Owns(q, k)' <=> Owns(q, k)
    OBVIOUS
  <2>1. CASE q = o
    BY <1>2, <1>4, <2>1, DistinctAssumption DEF Owns
  <2>2. CASE q # o
    BY <1>4, <2>2 DEF Owns
  <2> QED BY <2>1, <2>2
<1> HIDE DEF e
<1>6. /\ pending' = [pending EXCEPT ![t] = h]
      /\ error' \in [Handles -> Exceptions \cup {None}]
      /\ error'[h] = e
      /\ \A u \in Threads \ {t} :
            pending[u] # None => error'[pending[u]] = error[pending[u]]
      /\ \A q \in Objs, k \in Handles : Owns(q, k) => error'[k] = error[k]
      /\ HandleOwned'
  BY <1>1, <1>2, <1>5, SetKeeps DEF IInv
<1>7. TypeOK'
  BY <1>1, <1>3, <1>4, <1>6 DEF IInv, TypeOK, NowTop
<1>8. Sides'
  BY <1>1, <1>2, <1>3 DEF IInv, TypeOK, Sides, NowTop
<1>9. Alive'
  BY <1>1, <1>2, <1>4 DEF IInv, TypeOK, Alive, Referred
<1>10. SameError'
  <2> SUFFICES ASSUME NEW q \in Objs, obj'[q] # None
               PROVE  /\ ~obj'[q].py => obj'[q].handle = None
                      /\ obj'[q].handle # None => error'[obj'[q].handle] = obj'[q].err
    BY DEF SameError
  <2>1. obj'[q] = obj[q] /\ obj[q] \in Thrown
    BY <1>4 DEF IInv, TypeOK
  <2>2. obj[q].handle # None => Owns(q, obj[q].handle) /\ obj[q].handle \in Handles
    BY <2>1 DEF Owns, Thrown
  <2> QED BY <1>6, <2>1, <2>2 DEF IInv, SameError
<1>11. PendingInTransit'
  BY <1>3, <1>6 DEF IInv, TypeOK, PendingInTransit, NowTop
<1>12. Arrived'
  <2>1. \A u \in Plain : Alone(u)'
    BY <1>1, <1>2, <1>4, StillAlone DEF IInv
  <2>2. \A u \in Plain : SlotFilled(u)'
    BY <1>2, <1>3, <1>6, DistinctAssumption
    DEF IInv, TypeOK, Arrived, SlotFilled, Plain, NowTop
  <2> QED BY <2>1, <2>2 DEF Arrived, Plain
<1> QED BY <1>6, <1>7, <1>8, <1>9, <1>10, <1>11, <1>12 DEF IInv

\* The slot gets the handle x of an exception object, or none, and the handle
\* that it had goes.
LEMMA MoveKeeps ==
  ASSUME TypeOK, HandleOwned, NEW t \in Threads, NEW x \in Handles \cup {None},
         pending' = [pending EXCEPT ![t] = x],
         error' = Drop(pending[t]),
         x # None => \E o \in Objs : Owns(o, x),
         \A q \in Objs, k \in Handles : Owns(q, k)' <=> k # x /\ Owns(q, k)
  PROVE  /\ error' \in [Handles -> Exceptions \cup {None}]
         /\ \A u \in Threads \ {t} :
               pending[u] # None => error'[pending[u]] = error[pending[u]]
         /\ \A q \in Objs, k \in Handles : Owns(q, k) => error'[k] = error[k]
         /\ HandleOwned'
<1>1. error' \in [Handles -> Exceptions \cup {None}]
  BY DEF Drop, TypeOK
<1>2. \A k \in Handles : error'[k] = IF k = pending[t] THEN None ELSE error[k]
  BY DistinctAssumption DEF Drop, TypeOK
<1>3. \A u \in Threads \ {t} :
         pending[u] # None => error'[pending[u]] = error[pending[u]]
  <2> SUFFICES ASSUME NEW u \in Threads \ {t}, pending[u] # None
               PROVE  error'[pending[u]] = error[pending[u]]
    OBVIOUS
  <2>1. pending[u] \in Handles /\ pending[u] # pending[t]
    BY DEF TypeOK, HandleOwned
  <2> QED BY <2>1, <1>2
<1>4. \A q \in Objs, k \in Handles : Owns(q, k) => k # pending[t]
  BY DEF HandleOwned
<1>5. \A q \in Objs, k \in Handles : Owns(q, k) => error'[k] = error[k]
  BY <1>2, <1>4
<1>6. HandleOwned'
  <2> SUFFICES ASSUME NEW k \in Handles
               PROVE  /\ error'[k] # None <=>
                            \/ \E u \in Threads : pending'[u] = k
                            \/ \E q \in Objs : k # x /\ Owns(q, k)
                      /\ \A u, v \in Threads :
                            pending'[u] = k /\ pending'[v] = k => u = v
                      /\ \A u \in Threads, q \in Objs :
                            ~(pending'[u] = k /\ k # x /\ Owns(q, k))
                      /\ \A p, q \in Objs :
                            k # x /\ Owns(p, k) /\ Owns(q, k) => p = q
    BY DEF HandleOwned
  <2>1. \A u \in Threads : pending'[u] = IF u = t THEN x ELSE pending[u]
    BY DEF TypeOK
  <2>2. CASE k = x
    <3>1. PICK o \in Objs : Owns(o, k)
      BY <2>2, DistinctAssumption
    <3>2. error'[k] # None
      BY <1>5, <3>1 DEF HandleOwned
    <3>3. \A u \in Threads : pending[u] # k
      BY <3>1 DEF HandleOwned
    <3> QED BY <2>1, <2>2, <3>2, <3>3
  <2>3. CASE k = pending[t]
    <3>1. \A q \in Objs : ~Owns(q, k)
      BY <1>4, <2>3
    <3>2. \A u \in Threads \ {t} : pending[u] # k
      BY <2>3 DEF HandleOwned
    <3>3. k # x
      BY <3>1, DistinctAssumption
    <3>4. error'[k] = None
      BY <1>2, <2>3
    <3>5. \A u \in Threads : pending'[u] # k
      BY <2>1, <3>2, <3>3
    <3> QED BY <3>1, <3>4, <3>5
  <2>4. CASE k # x /\ k # pending[t]
    <3>1. \A u \in Threads : pending'[u] = k <=> pending[u] = k
      BY <2>1, <2>4
    <3>2. error'[k] = error[k]
      BY <1>2, <2>4
    <3> QED BY <2>4, <3>1, <3>2 DEF HandleOwned
  <2> QED BY <2>2, <2>3, <2>4
<1> QED BY <1>1, <1>3, <1>5, <1>6

LEMMA TranslatePyKeepsInv ==
  ASSUME IInv, NEW t \in Threads, TranslatePy(t)
  PROVE  IInv'
<1> DEFINE o == thrown[t]
           e == obj[o].err
           x == obj[o].handle
<1>1. /\ pending' = [pending EXCEPT ![t] = x] /\ error' = Drop(pending[t])
      /\ Pop(t, e) /\ Len(stack[t]) > 1
      /\ thrown' = [thrown EXCEPT ![t] = None]
      /\ UNCHANGED <<raised, kept, left, crashed>>
      /\ Top(t).lang = "cpp" /\ o # None /\ obj[o].py
      /\ obj' = [obj EXCEPT ![o] = IF Referred(t, o)
                                 THEN [obj[o] EXCEPT !.handle = None] ELSE None]
  BY DEF TranslatePy, Ends, Slot
<1>2. /\ o \in Objs /\ obj[o] \in Thrown /\ obj[o] # None
      /\ e \in Exceptions /\ x \in Handles \cup {None} /\ raised[t] = None
  BY <1>1 DEF IInv, TypeOK, Sides, Alive, Thrown
<1>3. PICK f \in Frames : NowTop(t, f) /\ f.stage = "back" /\ f.outcome = e
  <2> HIDE DEF e
  <2> QED BY <1>1, <1>2, Popped DEF IInv
<1>4. /\ obj' \in [Objs -> Thrown \cup {None}]
      /\ \A q \in Objs : q # o => obj'[q] = obj[q]
      /\ obj'[o] # None => obj'[o] \in Thrown /\ obj'[o].handle = None /\ Referred(t, o)
      /\ Referred(t, o) => obj'[o] # None
  <2>1. CASE Referred(t, o)
    <3>1. [obj[o] EXCEPT !.handle = None] \in Thrown
      BY <1>2 DEF Thrown
    <3>2. [obj[o] EXCEPT !.handle = None].handle = None
      BY <1>2 DEF Thrown
    <3> QED BY <1>1, <1>2, <2>1, <3>1, <3>2, DistinctAssumption DEF IInv, TypeOK
  <2>2. CASE ~Referred(t, o)
    BY <1>1, <1>2, <2>2 DEF IInv, TypeOK
  <2> QED BY <2>1, <2>2
<1>5. \A q \in Objs, k \in Handles : Owns(q, k)' <=> k # x /\ Owns(q, k)
  <2> SUFFICES ASSUME NEW q \in Objs, NEW k \in Handles
               PROVE  Owns(q, k)' <=> k # x /\ Owns(q, k)
    OBVIOUS
  <2>1. CASE q = o
    BY <1>4, <2>1, DistinctAssumption DEF Owns
  <2>2. CASE q # o
    <3>1. k = x => ~Owns(q, k)
      BY <1>2, <2>2 DEF IInv, HandleOwned, Owns
    <3> QED BY <1>4, <2>2, <3>1 DEF Owns
  <2> QED BY <2>1, <2>2
<1>6. x # None => Owns(o, x)
  BY <1>2 DEF Owns
<1> HIDE DEF e, x
<1>7. /\ error' \in [Handles -> Exceptions \cup {None}]
      /\ \A u \in Threads \ {t} :
            pending[u] # None => error'[pending[u]] = error[pending[u]]
      /\ \A q \in Objs, k \in Handles : Owns(q, k) => error'[k] = error[k]
      /\ HandleOwned'
  BY <1>1, <1>2, <1>5, <1>6, MoveKeeps DEF IInv
<1>8. TypeOK'
  BY <1>1, <1>2, <1>3, <1>4, <1>7 DEF IInv, TypeOK, NowTop
<1>9. Sides'
  BY <1>1, <1>2, <1>3 DEF IInv, TypeOK, Sides, NowTop
<1>10. Alive'
  BY <1>1, <1>2, <1>4 DEF IInv, TypeOK, Alive, Referred
<1>11. SameError'
  <2> SUFFICES ASSUME NEW q \in Objs, obj'[q] # None
               PROVE  /\ ~obj'[q].py => obj'[q].handle = None
                      /\ obj'[q].handle # None => error'[obj'[q].handle] = obj'[q].err
    BY DEF SameError
  <2>1. CASE q = o
    BY <1>4, <2>1
  <2>2. CASE q # o
    <3>1. obj'[q] = obj[q] /\ obj[q] \in Thrown
      BY <1>4, <2>2 DEF IInv, TypeOK
    <3>2. obj[q].handle # None => Owns(q, obj[q].handle) /\ obj[q].handle \in Handles
      BY <3>1 DEF Owns, Thrown
    <3> QED BY <1>7, <3>1, <3>2 DEF IInv, SameError
  <2> QED BY <2>1, <2>2
<1>12. PendingInTransit'
  <2>1. x # None => error'[x] = e
    BY <1>2, <1>6, <1>7 DEF IInv, SameError, e, x
  <2> QED BY <1>1, <1>3, <1>7, <2>1 DEF IInv, TypeOK, PendingInTransit, NowTop
<1>13. Arrived'
  <2>1. \A u \in Plain : Alone(u)'
    BY <1>1, <1>2, <1>4, StillAlone DEF IInv
  <2>2. t \in Plain => x # None
    BY <1>1, <1>2 DEF IInv, Arrived, Alone, x
  <2>3. \A u \in Plain : SlotFilled(u)'
    BY <1>1, <1>3, <2>2 DEF IInv, TypeOK, Arrived, SlotFilled, Plain, NowTop
  <2> QED BY <2>1, <2>3 DEF Arrived, Plain
<1> QED BY <1>7, <1>8, <1>9, <1>10, <1>11, <1>12, <1>13 DEF IInv

LEMMA RaiseFromCppKeepsInv ==
  ASSUME IInv, NEW t \in Threads, RaiseFromCpp(t)
  PROVE  IInv'
<1>1. /\ pending' = [pending EXCEPT ![t] = None] /\ error' = Drop(pending[t])
      /\ Resume(t) /\ Top(t).lang = "py" /\ Top(t).stage = "back"
      /\ UNCHANGED <<thrown, obj, kept, left, crashed>>
      /\ \E e \in Exceptions \cup {None} : raised' = [raised EXCEPT ![t] = e]
  BY DEF RaiseFromCpp, Back, Slot, TakeException, FromHandle, Exceptions, IInv,
         TypeOK
<1>2. PICK f \in Frames : NowTop(t, f) /\ f.stage = "user" /\ f.lang = "py"
  BY <1>1, Resumed DEF IInv
<1>3. \A q \in Objs, k \in Handles : Owns(q, k)' <=> k # None /\ Owns(q, k)
  BY <1>1, DistinctAssumption DEF Owns
<1>4. /\ error' \in [Handles -> Exceptions \cup {None}]
      /\ \A u \in Threads \ {t} :
            pending[u] # None => error'[pending[u]] = error[pending[u]]
      /\ \A q \in Objs, k \in Handles : Owns(q, k) => error'[k] = error[k]
      /\ HandleOwned'
  BY <1>1, <1>3, MoveKeeps DEF IInv
<1>5. TypeOK'
  BY <1>1, <1>2, <1>4 DEF IInv, TypeOK, NowTop
<1>6. Sides' /\ Alive'
  BY <1>1, <1>2 DEF IInv, TypeOK, Sides, Alive, NowTop
<1>7. SameError'
  BY <1>1, <1>4 DEF IInv, TypeOK, SameError, Owns, Thrown
<1>8. PendingInTransit' /\ Arrived'
  BY <1>1, <1>2, <1>4 DEF IInv, TypeOK, PendingInTransit, Arrived, Plain, Alone, SlotFilled, NowTop
<1> QED BY <1>4, <1>5, <1>6, <1>7, <1>8 DEF IInv

LEMMA ThrowFromPyKeepsInv ==
  ASSUME IInv, NEW t \in Threads, NEW o \in Objs, ThrowFromPy(t, o)
  PROVE  IInv'
<1> DEFINE h == pending[t]
           new == [err |-> error[h], py |-> TRUE, handle |-> h]
<1>1. /\ pending' = [pending EXCEPT ![t] = None] /\ h # None /\ obj[o] = None
      /\ obj' = [obj EXCEPT ![o] = new] /\ thrown' = [thrown EXCEPT ![t] = o]
      /\ Resume(t) /\ Top(t).lang = "cpp" /\ Top(t).stage = "back"
      /\ UNCHANGED <<raised, error, kept, left, crashed>>
  BY DEF ThrowFromPy, Back, Slot, TakeException
<1>2. PICK f \in Frames : NowTop(t, f) /\ f.stage = "user" /\ f.lang = "cpp"
  BY <1>1, Resumed DEF IInv
<1>3. h \in Handles /\ error[h] \in Exceptions
  BY <1>1 DEF IInv, TypeOK, HandleOwned
<1>4. new \in Thrown /\ new # None /\ new.err = error[h] /\ new.handle = h /\ new.py
  <2>1. /\ new \in Thrown /\ new.err = error[h] /\ new.handle = h /\ new.py = TRUE
    BY <1>3 DEF Thrown
  <2> HIDE DEF new
  <2> QED BY <2>1, DistinctAssumption
<1> HIDE DEF new
<1>5. /\ obj'[o] = new
      /\ \A q \in Objs : q # o => obj'[q] = obj[q]
      /\ \A u \in Threads : u # t => pending'[u] = pending[u]
      /\ pending'[t] = None
  BY <1>1 DEF IInv, TypeOK
<1>6. TypeOK'
  BY <1>1, <1>2, <1>4 DEF IInv, TypeOK, NowTop
<1>7. Sides'
  BY <1>1, <1>2 DEF IInv, TypeOK, Sides, NowTop
<1>8. Alive'
  BY <1>1, <1>4, <1>5 DEF IInv, TypeOK, Alive
<1>9. SameError'
  BY <1>1, <1>4, <1>5 DEF IInv, SameError
<1>10. HandleOwned'
  <2>1. \A q \in Objs, k \in Handles :
           Owns(q, k)' <=> (q = o /\ k = h) \/ Owns(q, k)
    <3> SUFFICES ASSUME NEW q \in Objs, NEW k \in Handles
                 PROVE  Owns(q, k)' <=> (q = o /\ k = h) \/ Owns(q, k)
      OBVIOUS
    <3>1. CASE q = o
      BY <1>1, <1>4, <1>5, <3>1 DEF Owns
    <3>2. CASE q # o
      BY <1>5, <3>2 DEF Owns
    <3> QED BY <3>1, <3>2
  <2>2. \A q \in Objs : ~Owns(q, h)
    BY <1>3 DEF IInv, HandleOwned
  <2>3. \A k \in Handles, u \in Threads : pending'[u] = k <=> u # t /\ pending[u] = k
    BY <1>5, DistinctAssumption
  <2> SUFFICES ASSUME NEW k \in Handles
               PROVE  /\ error[k] # None <=>
                            \/ \E u \in Threads : pending'[u] = k
                            \/ \E q \in Objs : (q = o /\ k = h) \/ Owns(q, k)
                      /\ \A u, v \in Threads :
                            pending'[u] = k /\ pending'[v] = k => u = v
                      /\ \A u \in Threads, q \in Objs :
                            ~(pending'[u] = k /\ ((q = o /\ k = h) \/ Owns(q, k)))
                      /\ \A p, q \in Objs : /\ (p = o /\ k = h) \/ Owns(p, k)
                                            /\ (q = o /\ k = h) \/ Owns(q, k)
                                            => p = q
    BY <1>1, <2>1 DEF HandleOwned
  <2>4. CASE k = h
    <3>1. \A u \in Threads : pending'[u] # k
      BY <2>3, <2>4 DEF IInv, HandleOwned
    <3> QED BY <1>3, <2>2, <2>4, <3>1, DistinctAssumption
  <2>5. CASE k # h
    <3>1. \A u \in Threads : pending'[u] = k <=> pending[u] = k
      BY <2>3, <2>5
    <3> QED BY <2>5, <3>1 DEF IInv, HandleOwned
  <2> QED BY <2>4, <2>5
<1>11. PendingInTransit'
  BY <1>1, <1>2, <1>5 DEF IInv, PendingInTransit, NowTop
<1>12. Arrived'
  <2>1. kept # o /\ \A u \in Threads : thrown[u] # o
    BY <1>1, DistinctAssumption DEF IInv, Alive
  <2>2. \A u \in Plain : Alone(u)'
    BY <1>1, <1>4, <1>5, <2>1 DEF IInv, TypeOK, Arrived, Alone, Plain
  <2>3. \A u \in Plain : SlotFilled(u)'
    BY <1>2, <1>5 DEF IInv, Arrived, SlotFilled, Plain, NowTop
  <2> QED BY <2>2, <2>3 DEF Arrived, Plain
<1> QED BY <1>6, <1>7, <1>8, <1>9, <1>10, <1>11, <1>12 DEF IInv

LEMMA StutterKeepsInv == IInv /\ UNCHANGED vars => IInv'
<1> SUFFICES ASSUME IInv, UNCHANGED vars PROVE IInv'
  OBVIOUS
<1>1. \A u \in Threads : Top(u)' = Top(u)
  BY DEF vars, Top
<1>2. UNCHANGED <<stack, raised, thrown, pending, error, obj, kept, left, crashed>>
  BY DEF vars
<1> QED BY <1>1, <1>2 DEF IInv, TypeOK, Sides, Alive, SameError, HandleOwned,
           Owns, PendingInTransit, Arrived, Plain, Alone, SlotFilled

LEMMA NextKeepsInv == IInv /\ [Next]_vars => IInv'
<1> SUFFICES ASSUME IInv, [Next]_vars PROVE IInv'
  OBVIOUS
<1>1. CASE ForgetCpp
  BY <1>1, ForgetCppKeepsInv
<1>2. ASSUME NEW t \in Threads, User(t) PROVE IInv'
  <2>1. CASE \E k \in Kinds : Call(t, k)
    BY <2>1, CallKeepsInv
  <2>2. CASE \E e \in Errs, o \in Objs : ThrowCpp(t, e, o)
    BY <2>2, ThrowCppKeepsInv
  <2>3. CASE \/ \E e \in Errs : RaisePy(t, e)
             \/ CatchPy(t) \/ KeepCpp(t) \/ RethrowCpp(t)
    BY <2>3, UserKeepsInv
  <2>4. CASE CatchCpp(t)
    BY <2>4, CatchCppKeepsInv
  <2>5. CASE Del(t)
    BY <2>5, DelKeepsInv
  <2> QED BY <1>2, <2>1, <2>2, <2>3, <2>4, <2>5 DEF User
<1>3. ASSUME NEW t \in Threads, Border(t) PROVE IInv'
  <2>1. CASE ReturnNormally(t)
    BY <2>1, ReturnKeepsInv
  <2>2. CASE DelEnds(t)
    BY <2>2, DelEndsKeepsInv
  <2>3. CASE TranslatePy(t)
    BY <2>3, TranslatePyKeepsInv
  <2>4. CASE \E h \in Handles : ExceptFromPy(t, h)
    BY <2>4, ExceptFromPyKeepsInv
  <2>5. CASE \E h \in Handles : TranslateStd(t, h)
    BY <2>5, TranslateStdKeepsInv
  <2>6. CASE RaiseFromCpp(t)
    BY <2>6, RaiseFromCppKeepsInv
  <2>7. CASE ResultFromCpp(t) \/ ResultFromPy(t)
    BY <2>7, ResultKeepsInv
  <2>8. CASE Crash(t)
    BY <2>8, CrashKeepsInv
  <2>9. CASE \E o \in Objs : ThrowFromPy(t, o)
    BY <2>9, ThrowFromPyKeepsInv
  <2> QED BY <1>3, <2>1, <2>2, <2>3, <2>4, <2>5, <2>6, <2>7, <2>8, <2>9 DEF Border
<1>4. CASE UNCHANGED vars
  BY <1>4, StutterKeepsInv
<1> QED BY <1>1, <1>2, <1>3, <1>4 DEF Next

THEOREM Invariance == Spec => []IInv
  BY InitInv, NextKeepsInv, PTL DEF Spec

\* The state keeps its types.
THEOREM TypeCorrect == Spec => []TypeOK
  BY Invariance, PTL DEF IInv

\* A handle has exactly one owner, and c_data_set holds the handles that have
\* one: whatever is kept, thrown again or collected in between.
THEOREM HandlesOwned == Spec => []HandleOwned
  BY Invariance, PTL DEF IInv

\* Of a thread that runs no __del__ method in between the slot holds an
\* exception only between a failed call and its caller's look.
THEOREM SlotInTransit == Spec => []PendingInTransit
  BY Invariance, PTL DEF IInv

-----------------------------------------------------------------------------
(* Exceptions arrive.                                                      *)

LEMMA UserArrives ==
  ASSUME TypeOK, NEW t \in Threads, User(t), NEW u \in Plain
  PROVE  ArrivesAt(u)
<1>1. \/ UNCHANGED stack
      \/ /\ Top(t).stage = "user" \/ t # u
         /\ \E s : stack' = [stack EXCEPT ![t] = s]
  BY DEF User, Call, Runs, RaisePy, CatchPy, ThrowCpp, CatchCpp, KeepCpp,
         RethrowCpp, Del, Plain
<1>2. CASE UNCHANGED stack
  BY <1>2 DEF ArrivesAt, Top
<1>3. CASE /\ Top(t).stage = "user" \/ t # u
           /\ \E s : stack' = [stack EXCEPT ![t] = s]
  BY <1>3 DEF ArrivesAt, Top, TypeOK, Plain
<1> QED BY <1>1, <1>2, <1>3

LEMMA EndArrives ==
  ASSUME TypeOK, NEW t \in Threads, NEW u \in Threads,
         \/ ReturnNormally(t) \/ DelEnds(t) \/ TranslatePy(t) \/ Crash(t)
         \/ \E h \in Handles : ExceptFromPy(t, h) \/ TranslateStd(t, h)
  PROVE  ArrivesAt(u)
<1>1. \/ UNCHANGED stack
      \/ /\ Top(t).stage = "user"
         /\ \E s : stack' = [stack EXCEPT ![t] = s]
  BY DEF ReturnNormally, DelEnds, TranslatePy, ExceptFromPy, TranslateStd, Crash,
         Ends, Pop
<1>2. CASE UNCHANGED stack
  BY <1>2 DEF ArrivesAt, Top
<1>3. CASE /\ Top(t).stage = "user"
           /\ \E s : stack' = [stack EXCEPT ![t] = s]
  BY <1>3 DEF ArrivesAt, Top, TypeOK
<1> QED BY <1>1, <1>2, <1>3

LEMMA BackArrives ==
  ASSUME IInv, NEW t \in Threads, NEW u \in Plain, Top(u).kind # "prim",
         \/ RaiseFromCpp(t) \/ ResultFromCpp(t) \/ ResultFromPy(t)
         \/ \E o \in Objs : ThrowFromPy(t, o)
  PROVE  ArrivesAt(u)
<1>1. Resume(t)
  BY DEF RaiseFromCpp, ResultFromCpp, ResultFromPy, ThrowFromPy
<1>2. PICK f \in Frames : NowTop(t, f) /\ f.lang = Top(t).lang
  BY <1>1, Resumed DEF IInv
<1>3. CASE u # t
  BY <1>2, <1>3 DEF ArrivesAt, NowTop, Plain
<1>4. CASE u = t
  <2> DEFINE h == pending[t]
             e == Top(t).outcome
  <2>1. /\ Top(t)' = f /\ Top(t) \in Frames /\ h \in Handles \cup {None}
        /\ raised \in [Threads -> Exceptions \cup {None}]
        /\ thrown \in [Threads -> Objs \cup {None}]
        /\ obj \in [Objs -> Thrown \cup {None}]
    BY <1>2, TopType DEF NowTop, IInv, TypeOK
  <2>2. /\ h # None => error[h] = e
        /\ Top(t).stage = "back" /\ e # None => h # None
    BY <1>4 DEF IInv, PendingInTransit, Arrived, Plain, Alone, SlotFilled
  <2>3. CASE RaiseFromCpp(t)
    <3>1. raised' = [raised EXCEPT ![t] = error[h]] /\ h # None /\ f.lang = "py"
      BY <1>2, <1>4, <2>3 DEF RaiseFromCpp, Slot, FromHandle, Back
    <3> QED BY <1>4, <2>1, <2>2, <3>1 DEF ArrivesAt, Flight
  <2>4. CASE ResultFromCpp(t)
    <3>1. h = None /\ Top(t).stage = "back" /\ f.lang = "py"
      BY <1>2, <2>4 DEF ResultFromCpp, Slot, Back
    <3>2. e = None
      BY <2>2, <3>1
    <3>3. raised' = [raised EXCEPT ![t] = None]
      BY <2>4, <3>2 DEF ResultFromCpp
    <3> QED BY <1>4, <2>1, <3>1, <3>2, <3>3 DEF ArrivesAt, Flight
  <2>5. CASE ResultFromPy(t)
    <3>1. h = None /\ Top(t).stage = "back" /\ f.lang = "cpp" /\ UNCHANGED thrown
      BY <1>2, <2>5 DEF ResultFromPy, Slot, Back
    <3>2. e = None /\ thrown[t] = None
      BY <2>2, <3>1 DEF IInv, Sides
    <3> QED BY <1>4, <2>1, <3>1, <3>2 DEF ArrivesAt, Flight
  <2>6. ASSUME NEW o \in Objs, ThrowFromPy(t, o) PROVE ArrivesAt(u)
    <3>1. /\ h # None /\ f.lang = "cpp"
          /\ thrown' = [thrown EXCEPT ![t] = o]
          /\ obj' = [obj EXCEPT ![o] = [err |-> error[h], py |-> TRUE, handle |-> h]]
      BY <1>2, <2>6 DEF ThrowFromPy, Slot, Back
    <3>2. thrown'[t] = o /\ o # None /\ obj'[o].err = error[h]
      BY <2>1, <3>1, DistinctAssumption
    <3> QED BY <1>4, <2>1, <2>2, <3>1, <3>2 DEF ArrivesAt, Flight
  <2> QED BY <2>3, <2>4, <2>5, <2>6
<1> QED BY <1>3, <1>4

\* What a callee ends with is what its caller gets, unless the result is a
\* number or the thread runs __del__ methods or throws an exception twice.
THEOREM Arrival == Spec => ExceptionArrives
<1>1. ASSUME IInv, [Next]_vars, NEW u \in Plain, Top(u).kind # "prim"
      PROVE  ArrivesAt(u) \/ UNCHANGED vars
  <2>1. CASE ForgetCpp
    BY <2>1 DEF ForgetCpp, ArrivesAt, Top
  <2>2. ASSUME NEW t \in Threads, User(t) PROVE ArrivesAt(u)
    BY <1>1, <2>2, UserArrives DEF IInv, Plain
  <2>3. ASSUME NEW t \in Threads, Border(t) PROVE ArrivesAt(u)
    BY <1>1, <2>3, EndArrives, BackArrives DEF Border, IInv, Plain
  <2> QED BY <1>1, <2>1, <2>2, <2>3 DEF Next
<1>2. IInv /\ [Next]_vars =>
        [\A t \in Plain : Top(t).kind # "prim" => ArrivesAt(t)]_vars
  BY <1>1
<1> QED BY <1>2, Invariance, PTL DEF Spec, ExceptionArrives

\* Where no callback returns a string or a binary, C++ reads no null pointer.
THEOREM NullNeverRead ==
  ASSUME "data" \notin Kinds \cup {None}
  PROVE  Spec => []NoNullRead
<1>1. Init => NoNullRead
  BY DEF Init, NoNullRead
<1>2. IInv /\ NoNullRead /\ [Next]_vars => NoNullRead'
  <2> SUFFICES ASSUME IInv, NoNullRead, [Next]_vars PROVE NoNullRead'
    OBVIOUS
  <2>1. \A t \in Threads : ~Crash(t)
    BY TopType DEF IInv, Crash, Converts, Frames
  <2> QED BY <2>1 DEF NoNullRead, Next, vars, ForgetCpp, User, Border, Call,
             RaisePy, CatchPy, ThrowCpp, CatchCpp, KeepCpp, RethrowCpp, Del,
             ReturnNormally, DelEnds, TranslatePy, ExceptFromPy, TranslateStd,
             RaiseFromCpp, ResultFromCpp, ThrowFromPy, ResultFromPy
<1> QED BY <1>1, <1>2, Invariance, PTL DEF Spec
=============================================================================
