---------------------------- MODULE PyExceptions ----------------------------
(***************************************************************************)
(* Exceptions across the Python/C++ border (support-lib/cwrapper, support- *)
(* lib/py/djinni/exception.py, PythonGenerator.scala and                   *)
(* CWrapperGenerator.scala).  Calls go through plain C, so the side that   *)
(* fails leaves the exception in a thread-local slot, s_exception_state,   *)
(* returns zero, and the other side looks there when the call is over.     *)
(*                                                                         *)
(* A Python exception travels as a cffi handle, kept alive by the set      *)
(* ExceptionHelper.c_data_set; in C++ a py_exception owns the handle.      *)
(* Every exception is told by an identity (Errs), which its translations   *)
(* keep.  The kinds of result a method may have:                           *)
(*   "void"  nothing               "iface" an interface (may be null)      *)
(*   "prim"  a number or an enum   "data"  a string or binary (is read)    *)
(***************************************************************************)
EXTENDS Naturals, Sequences

CONSTANTS
    Threads,
    Errs,        \* exceptions, each raised once
    Handles,     \* addresses of cffi handles
    Objs,        \* C++ exception objects
    Kinds,       \* the results methods have
    Keepers,     \* threads whose C++ code keeps an exception_ptr or throws it again
    Dels,        \* threads that run __del__ methods while an exception is in transit
    MaxDepth,    \* bound: frames on a stack
    AssertionError,
    None

Exceptions == Errs \cup {AssertionError}

\* A C++ exception object: which exception it is, whether it is a py_exception
\* and the handle that it then owns.
Thrown == [err : Exceptions, py : BOOLEAN, handle : Handles \cup {None}]

ASSUME DistinctAssumption ==
    None \notin Exceptions \cup Handles \cup Objs \cup Thrown

ASSUME ThreadsAssumption == Keepers \subseteq Threads /\ Dels \subseteq Threads

VARIABLES
    stack,     \* stack[t]: the user code of t, the innermost frame last
    raised,    \* raised[t]: the exception its innermost Python frame raises
    thrown,    \* thrown[t]: the exception object its C++ frame throws
    pending,   \* s_exception_state.handle of each thread
    error,     \* error[h]: the exception a handle of c_data_set stands for
    obj,       \* obj[o]: what a C++ exception object is
    kept,      \* an exception_ptr that C++ code keeps
    left,      \* the identities not used yet
    crashed    \* has C++ read through a null pointer?

vars == <<stack, raised, thrown, pending, error, obj, kept, left, crashed>>

\* stage "user": the frame runs; "wait": it waits for the frame above; "back":
\* the call is over, with this outcome, and the result is yet to be looked at.
Frame(l, d) ==
    [lang |-> l, del |-> d, stage |-> "user", kind |-> None, outcome |-> None]

Frames ==
    [lang : {"py", "cpp"}, del : BOOLEAN, stage : {"user", "wait", "back"},
     kind : Kinds \cup {None}, outcome : Exceptions \cup {None}]

TypeOK ==
    /\ stack \in [Threads -> Seq(Frames) \ {<<>>}]
    /\ raised \in [Threads -> Exceptions \cup {None}]
    /\ thrown \in [Threads -> Objs \cup {None}]
    /\ pending \in [Threads -> Handles \cup {None}]
    /\ error \in [Handles -> Exceptions \cup {None}]
    /\ obj \in [Objs -> Thrown \cup {None}]
    /\ kept \in Objs \cup {None}
    /\ left \in SUBSET Errs
    /\ crashed \in BOOLEAN

Init ==
    /\ stack \in [Threads -> {<<Frame("py", FALSE)>>, <<Frame("cpp", FALSE)>>}]
    /\ raised = [t \in Threads |-> None]
    /\ thrown = [t \in Threads |-> None]
    /\ pending = [t \in Threads |-> None]
    /\ error = [h \in Handles |-> None]
    /\ obj = [o \in Objs |-> None]
    /\ kept = None
    /\ left = Errs
    /\ crashed = FALSE

-----------------------------------------------------------------------------
Top(t) == stack[t][Len(stack[t])]
Below(t) == SubSeq(stack[t], 1, Len(stack[t]) - 1)

\* User code of t runs in language l, with no exception in flight.
Runs(t, l) ==
    /\ ~crashed
    /\ Top(t).lang = l /\ Top(t).stage = "user"
    /\ raised[t] = None /\ thrown[t] = None

\* Mutant: a plain static instead of a ThreadLocal.
Slot_Shared(t) == CHOOSE u \in Threads : TRUE
\* Whose ExceptionState t finds: s_exception_state.get().
Slot(t) == t

\* Mutant: takeException() copies.
TakeException_Copy(t) == UNCHANGED pending
TakeException(t) == pending' = [pending EXCEPT ![Slot(t)] = None]

\* c_data_set with the handle h gone.
Drop(h) == IF h = None THEN error ELSE [error EXCEPT ![h] = None]

\* s_exception_state.handle = a new handle of exception e; a handle that was
\* there goes.
SetPending(t, h, e) ==
    /\ error[h] = None
    /\ error' = [Drop(pending[Slot(t)]) EXCEPT ![h] = e]
    /\ pending' = [pending EXCEPT ![Slot(t)] = h]

\* Is o still referred to when t lets go of it?
Referred(t, o) == kept = o \/ \E u \in Threads \ {t} : thrown[u] = o

-----------------------------------------------------------------------------
(* User code.                                                              *)

\* The innermost frame calls a method of kind k on the other side.
Call(t, k) ==
    /\ Runs(t, Top(t).lang) /\ Len(stack[t]) < MaxDepth
    /\ LET f == [Top(t) EXCEPT !.stage = "wait", !.kind = k]
           g == Frame(IF f.lang = "py" THEN "cpp" ELSE "py", FALSE)
       IN  stack' = [stack EXCEPT ![t] = Below(t) \o <<f, g>>]
    /\ UNCHANGED <<raised, thrown, pending, error, obj, kept, left, crashed>>

RaisePy(t, e) ==
    /\ Runs(t, "py") /\ e \in left
    /\ raised' = [raised EXCEPT ![t] = e]
    /\ left' = left \ {e}
    /\ UNCHANGED <<stack, thrown, pending, error, obj, kept, crashed>>

CatchPy(t) ==
    /\ Top(t).stage = "user" /\ raised[t] # None
    /\ raised' = [raised EXCEPT ![t] = None]
    /\ UNCHANGED <<stack, thrown, pending, error, obj, kept, left, crashed>>

ThrowCpp(t, e, o) ==
    /\ Runs(t, "cpp") /\ e \in left /\ obj[o] = None
    /\ obj' = [obj EXCEPT ![o] = [err |-> e, py |-> FALSE, handle |-> None]]
    /\ thrown' = [thrown EXCEPT ![t] = o]
    /\ left' = left \ {e}
    /\ UNCHANGED <<stack, raised, pending, error, kept, crashed>>

\* Mutant: a py_exception does not own its handle.
Destroy_Leak(o) == obj' = [obj EXCEPT ![o] = None] /\ UNCHANGED error
\* The exception object dies, and the handle that it owns with it.
Destroy(o) ==
    /\ obj' = [obj EXCEPT ![o] = None]
    /\ error' = Drop(obj[o].handle)

CatchCpp(t) ==
    /\ Top(t).stage = "user" /\ thrown[t] # None
    /\ thrown' = [thrown EXCEPT ![t] = None]
    /\ IF Referred(t, thrown[t]) THEN UNCHANGED <<obj, error>>
                                 ELSE Destroy(thrown[t])
    /\ UNCHANGED <<stack, raised, pending, kept, left, crashed>>

\* catch (...) { kept = std::current_exception(); }
KeepCpp(t) ==
    /\ t \in Keepers /\ kept = None
    /\ Top(t).stage = "user" /\ thrown[t] # None
    /\ kept' = thrown[t]
    /\ thrown' = [thrown EXCEPT ![t] = None]
    /\ UNCHANGED <<stack, raised, pending, error, obj, left, crashed>>

RethrowCpp(t) ==
    /\ t \in Keepers /\ Runs(t, "cpp") /\ kept # None
    /\ thrown' = [thrown EXCEPT ![t] = kept]
    /\ UNCHANGED <<stack, raised, pending, error, obj, kept, left, crashed>>

ForgetCpp ==
    /\ kept # None
    /\ kept' = None
    /\ IF \E u \in Threads : thrown[u] = kept THEN UNCHANGED <<obj, error>>
                                              ELSE Destroy(kept)
    /\ UNCHANGED <<stack, raised, thrown, pending, left, crashed>>

\* While an exception is in transit the collector may run a __del__ method,
\* which may call C++ in its turn.
Del(t) ==
    /\ t \in Dels /\ ~crashed
    /\ Top(t).stage = "back" /\ Len(stack[t]) < MaxDepth
    /\ stack' = [stack EXCEPT ![t] = Append(@, Frame("py", TRUE))]
    /\ UNCHANGED <<raised, thrown, pending, error, obj, kept, left, crashed>>

-----------------------------------------------------------------------------
(* The innermost frame ends.                                               *)

Ends(t, l) ==
    /\ ~crashed
    /\ Len(stack[t]) > 1
    /\ Top(t).lang = l /\ Top(t).stage = "user"

\* Its caller gets the result, or zero where there is an exception e.
Pop(t, e) ==
    LET n == Len(stack[t]) - 1
        f == [stack[t][n] EXCEPT !.stage = "back", !.outcome = e]
    IN  stack' = [stack EXCEPT ![t] = [Below(t) EXCEPT ![n] = f]]

ReturnNormally(t) ==
    /\ \E l \in {"py", "cpp"} : Ends(t, l)
    /\ ~Top(t).del /\ raised[t] = None /\ thrown[t] = None
    /\ Pop(t, None)
    /\ UNCHANGED <<raised, thrown, pending, error, obj, kept, left, crashed>>

\* A __del__ method is over; what it raises is reported and forgotten.
DelEnds(t) ==
    /\ t \in Dels /\ Ends(t, "py") /\ Top(t).del
    /\ stack' = [stack EXCEPT ![t] = Below(t)]
    /\ raised' = [raised EXCEPT ![t] = None]
    /\ UNCHANGED <<thrown, pending, error, obj, kept, left, crashed>>

\* A callback raises: setExceptionFromPy() makes a handle and sets it.
ExceptFromPy(t, h) ==
    /\ Ends(t, "py") /\ ~Top(t).del /\ raised[t] # None
    /\ SetPending(t, h, raised[t])
    /\ Pop(t, raised[t])
    /\ raised' = [raised EXCEPT ![t] = None]
    /\ UNCHANGED <<thrown, obj, kept, left, crashed>>

\* A std::exception leaves a C++ method: CW_TRANSLATE_EXCEPTIONS_RETURN asks
\* Python for a DjinniException and a handle of it.
TranslateStd(t, h) ==
    LET o == thrown[t] IN
    /\ Ends(t, "cpp") /\ o # None /\ ~obj[o].py
    /\ SetPending(t, h, obj[o].err)
    /\ Pop(t, obj[o].err)
    /\ thrown' = [thrown EXCEPT ![t] = None]
    /\ obj' = IF Referred(t, o) THEN obj ELSE [obj EXCEPT ![o] = None]
    /\ UNCHANGED <<raised, kept, left, crashed>>

\* A py_exception leaves a C++ method: takePyException() moves its handle out,
\* even where somebody keeps the exception; a second time there is none.
TranslatePy(t) ==
    LET o == thrown[t] IN
    /\ Ends(t, "cpp") /\ o # None /\ obj[o].py
    /\ pending' = [pending EXCEPT ![Slot(t)] = obj[o].handle]
    /\ error' = Drop(pending[Slot(t)])
    /\ obj' = [obj EXCEPT ![o] = IF Referred(t, o)
                                 THEN [obj[o] EXCEPT !.handle = None] ELSE None]
    /\ Pop(t, obj[o].err)
    /\ thrown' = [thrown EXCEPT ![t] = None]
    /\ UNCHANGED <<raised, kept, left, crashed>>

-----------------------------------------------------------------------------
(* The caller looks at the result.                                         *)

Back(t, l) == ~crashed /\ Top(t).lang = l /\ Top(t).stage = "back"

Resume(t) ==
    LET f == [Top(t) EXCEPT !.stage = "user", !.kind = None, !.outcome = None]
    IN  stack' = [stack EXCEPT ![t] = Append(Below(t), f)]

\* Mutant: the exception is not looked up.
FromHandle_Cast(h) == h
FromHandle(h) == error[h]

\* toPyCheckAndRaise() finds an exception.  It asserts that zero was returned
\* by comparing with ffi.NULL, which no number is equal to.
RaiseFromCpp(t) ==
    LET h == pending[Slot(t)] IN
    /\ Back(t, "py") /\ h # None
    /\ raised' = [raised EXCEPT ![t] =
                     IF Top(t).kind = "prim" THEN AssertionError ELSE FromHandle(h)]
    /\ TakeException(t)
    /\ error' = Drop(h)
    /\ Resume(t)
    /\ UNCHANGED <<thrown, obj, kept, left, crashed>>

\* It finds none; a null result is asserted not to be None.
ResultFromCpp(t) ==
    /\ Back(t, "py") /\ pending[Slot(t)] = None
    /\ raised' = [raised EXCEPT ![t] =
                     IF Top(t).outcome # None /\ Top(t).kind \in {"iface", "data"}
                     THEN AssertionError ELSE None]
    /\ Resume(t)
    /\ UNCHANGED <<thrown, pending, error, obj, kept, left, crashed>>

\* Mutant: an interface is read as well.
Converts_Iface(t) == Top(t).kind \in {"iface", "data"} => Top(t).outcome = None
\* A PythonProxy converts the result before it looks for an exception: a null
\* string is read.
Converts(t) == Top(t).kind = "data" => Top(t).outcome = None

Crash(t) ==
    /\ Back(t, "cpp") /\ ~Converts(t)
    /\ crashed' = TRUE
    /\ UNCHANGED <<stack, raised, thrown, pending, error, obj, kept, left>>

\* cw_throw_if_pending() throws a py_exception that owns the handle.
ThrowFromPy(t, o) ==
    LET h == pending[Slot(t)] IN
    /\ Back(t, "cpp") /\ Converts(t) /\ h # None
    /\ obj[o] = None
    /\ obj' = [obj EXCEPT ![o] = [err |-> error[h], py |-> TRUE, handle |-> h]]
    /\ thrown' = [thrown EXCEPT ![t] = o]
    /\ TakeException(t)
    /\ Resume(t)
    /\ UNCHANGED <<raised, error, kept, left, crashed>>

ResultFromPy(t) ==
    /\ Back(t, "cpp") /\ Converts(t) /\ pending[Slot(t)] = None
    /\ Resume(t)
    /\ UNCHANGED <<raised, thrown, pending, error, obj, kept, left, crashed>>

-----------------------------------------------------------------------------
User(t) ==
    \/ \E k \in Kinds : Call(t, k)
    \/ \E e \in Errs : RaisePy(t, e)
    \/ \E e \in Errs, o \in Objs : ThrowCpp(t, e, o)
    \/ CatchPy(t) \/ CatchCpp(t) \/ KeepCpp(t) \/ RethrowCpp(t) \/ Del(t)

Border(t) ==
    \/ ReturnNormally(t) \/ DelEnds(t) \/ TranslatePy(t)
    \/ \E h \in Handles : ExceptFromPy(t, h) \/ TranslateStd(t, h)
    \/ RaiseFromCpp(t) \/ ResultFromCpp(t) \/ Crash(t)
    \/ \E o \in Objs : ThrowFromPy(t, o)
    \/ ResultFromPy(t)

Next == ForgetCpp \/ \E t \in Threads : User(t) \/ Border(t)

Spec == Init /\ [][Next]_vars

-----------------------------------------------------------------------------
(* Properties.                                                             *)

\* What t's innermost frame faces: an exception, or None.
Flight(t) == IF Top(t).lang = "py" THEN raised[t]
             ELSE IF thrown[t] = None THEN None ELSE obj[thrown[t]].err

\* What t's callee ends with is what t sees when the call is over.
ArrivesAt(t) ==
    (Top(t).stage = "back" /\ Top(t)'.stage = "user" /\ ~Top(t)'.del)
        => Flight(t)' = Top(t).outcome

\* Whatever a callee ends with, through however many calls to and fro, is what
\* its caller sees: the same exception, or none.  Threads that throw an
\* exception twice, or run __del__ methods meanwhile, may miss theirs, but take
\* none of the others'.  A method that returns a number is left out: where it
\* fails, the check of the result raises an AssertionError instead.
Plain == Threads \ (Keepers \cup Dels)

ExceptionArrives ==
    [][\A t \in Plain : Top(t).kind # "prim" => ArrivesAt(t)]_vars

\* Where no __del__ method comes between, the slot holds an exception only from
\* the end of a call that failed to the caller's look, and only that exception:
\* none is overwritten, none is left behind for a later call to find.
PendingInTransit ==
    \A t \in Threads \ Dels : pending[t] # None =>
        Top(t).stage = "back" /\ error[pending[t]] = Top(t).outcome

\* Every handle in c_data_set has one owner, a slot or a py_exception, and
\* every owner's handle is in the set: none is leaked, and none is removed
\* that is not there.
Owns(o, h) == obj[o] # None /\ obj[o].handle = h

HandleOwned ==
    \A h \in Handles :
        /\ error[h] # None <=> \/ \E t \in Threads : pending[t] = h
                               \/ \E o \in Objs : Owns(o, h)
        /\ \A t, u \in Threads : pending[t] = h /\ pending[u] = h => t = u
        /\ \A t \in Threads, o \in Objs : ~(pending[t] = h /\ Owns(o, h))
        /\ \A o, q \in Objs : Owns(o, h) /\ Owns(q, h) => o = q

\* C++ never converts a null pointer that a failed callback returned.
NoNullRead == ~crashed
=============================================================================
