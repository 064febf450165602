----------------------------- MODULE JniRuntime -----------------------------
(***************************************************************************)
(* The JNI support library at run time (support-lib/jni): loading it, the  *)
(* threads that call through it, the exceptions that cross it and the      *)
(* global references that C++ objects own (djinni_support.cpp and .hpp).   *)
(*                                                                         *)
(* A native method runs on the env of its caller.  C++ code that calls     *)
(* Java asks for the env of its thread: a thread that Java does not know   *)
(* has none, unless the build attaches it.  A Java exception that reaches  *)
(* C++ becomes a jni_exception, which owns a global reference to the       *)
(* throwable; a C++ exception that reaches Java is set as pending.         *)
(* Every exception is told by an identity (Errs), which its translations   *)
(* keep.  A JavaProxy owns a global reference to its Java object.          *)
(***************************************************************************)
EXTENDS Naturals, Sequences

CONSTANTS
    JavaThreads,   \* threads that Java starts
    CppThreads,    \* threads that C++ starts
    Errs,          \* exceptions, each raised once
    Objs,          \* C++ exception objects
    Proxies,       \* Java objects that C++ has a JavaProxy of
    NInits,        \* initializers that static constructors have registered
    MaxDepth,      \* bound: frames on a stack
    None

Threads == JavaThreads \cup CppThreads

\* A C++ exception object: a jni_exception, another std::exception or neither.
Thrown == [err : Errs, kind : {"jni", "std", "other"}]

ASSUME RuntimeAssumption ==
    /\ JavaThreads \cap CppThreads = {} /\ Proxies \cap Objs = {}
    /\ NInits \in Nat
    /\ None \notin Threads \cup Errs \cup Objs \cup Thrown

VARIABLES
    auto,      \* is this built with EXPERIMENTAL_AUTO_CPP_THREAD_ATTACH?
    loaded,    \* "no", "init" and "look" (JNI_OnLoad runs), "yes", "failed" or "unloaded"
    loader,    \* the thread that runs JNI_OnLoad, or None
    jvm,       \* is g_cachedJVM set?
    ready,     \* how many initializers have made their JniClass singleton
    attached,  \* attached[t]: has the JVM an env for t?
    detacher,  \* detacher[t]: is there a DetachOnExit of t?
    stack,     \* stack[t]: the user code of t, the innermost frame last; t exits
               \* with none, and its thread_local objects are destroyed
    pending,   \* pending[t]: the Java exception pending on t
    thrown,    \* thrown[t]: the exception object that C++ code of t throws
    obj,       \* obj[o]: what a C++ exception object is
    kept,      \* a std::exception_ptr that C++ code keeps
    left,      \* the identities not used yet
    own,       \* own[t]: the JavaProxies that locals or thread_locals of t own
    shared,    \* the JavaProxies that something on the heap owns
    refs,      \* the owners, dead or alive, of the JVM's global references
    leaked,    \* those that died without deleting theirs
    ended      \* why the process was ended, or None

proxyVars == <<own, shared>>
loadVars == <<auto, loaded, loader, jvm, ready>>
envVars == <<attached, detacher>>
excVars == <<pending, thrown, obj, kept, left>>
vars == <<auto, loaded, loader, jvm, ready, attached, detacher, stack, pending,
          thrown, obj, kept, left, own, shared, refs, leaked, ended>>

\* stage "user": the frame runs; "wait": it waits for the frame above; "back":
\* the Java method it called is over, with this outcome, not yet looked for.
Frame(l) == [lang |-> l, stage |-> "user", outcome |-> None]

Frames ==
    [lang : {"java", "cpp"}, stage : {"user", "wait", "back"},
     outcome : Errs \cup {None}]

TypeOK ==
    /\ auto \in BOOLEAN /\ jvm \in BOOLEAN /\ ready \in 0..NInits
    /\ loaded \in {"no", "init", "look", "yes", "failed", "unloaded"}
    /\ loader \in Threads \cup {None}
    /\ attached \in [Threads -> BOOLEAN] /\ detacher \in [Threads -> BOOLEAN]
    /\ stack \in [Threads -> Seq(Frames)]
    /\ pending \in [Threads -> Errs \cup {None}]
    /\ thrown \in [Threads -> Objs \cup {None}]
    /\ obj \in [Objs -> Thrown \cup {None}]
    /\ kept \in Objs \cup {None} /\ left \in SUBSET Errs
    /\ own \in [Threads -> SUBSET Proxies] /\ shared \in SUBSET Proxies
    /\ refs \in SUBSET (Proxies \cup Objs) /\ leaked \in SUBSET Objs
    /\ ended \in {None, "load", "call", "drop", "detach", "terminate"}

Init ==
    /\ auto \in BOOLEAN /\ loaded = "no" /\ loader = None /\ jvm = FALSE /\ ready = 0
    /\ attached = [t \in Threads |-> t \in JavaThreads]
    /\ detacher = [t \in Threads |-> FALSE]
    /\ stack = [t \in Threads |->
                   <<Frame(IF t \in JavaThreads THEN "java" ELSE "cpp")>>]
    /\ pending = [t \in Threads |-> None]
    /\ thrown = [t \in Threads |-> None]
    /\ obj = [o \in Objs |-> None] /\ kept = None /\ left = Errs
    /\ own = [t \in Threads |-> {}] /\ shared = {}
    /\ refs = {} /\ leaked = {} /\ ended = None

-----------------------------------------------------------------------------
Top(t) == stack[t][Len(stack[t])]
Below(t) == SubSeq(stack[t], 1, Len(stack[t]) - 1)

Exited(t) == stack[t] = <<>>

\* User code of t runs in language l, with no exception in flight.
Runs(t, l) ==
    /\ ended = None /\ t # loader
    /\ ~Exited(t) /\ Top(t).lang = l /\ Top(t).stage = "user"
    /\ pending[t] = None /\ thrown[t] = None

\* C++ code of t runs, destructors that clean up behind an exception or after
\* the thread's exit included.
InCpp(t) ==
    /\ ended = None
    /\ ~Exited(t) => Top(t).lang = "cpp" /\ Top(t).stage = "user"

-----------------------------------------------------------------------------
(* The library and the env of a thread.                                    *)

End(why) ==
    /\ ended' = why
    /\ UNCHANGED <<loadVars, envVars, stack, excVars, proxyVars, refs, leaked>>

\* System.loadLibrary() calls JNI_OnLoad, and that jniInit().
Load(t) ==
    /\ Runs(t, "java") /\ t \in JavaThreads /\ loaded = "no"
    /\ jvm' = TRUE /\ loaded' = "init" /\ loader' = t
    /\ UNCHANGED <<auto, ready, envVars, stack, excVars, proxyVars, refs, leaked, ended>>

InLoad(t, step) == ended = None /\ loader = t /\ loaded = step

\* jniInit() runs the initializers one after the other, and this one succeeds.
Initialize(t) ==
    /\ InLoad(t, "init") /\ ready < NInits
    /\ ready' = ready + 1
    /\ UNCHANGED <<auto, loaded, loader, jvm, envVars, stack, excVars, proxyVars, refs, leaked,
                   ended>>

Loaded(t) ==
    /\ InLoad(t, "init") /\ ready = NInits
    /\ loaded' = "yes" /\ loader' = None
    /\ UNCHANGED <<auto, jvm, ready, envVars, stack, excVars, proxyVars, refs, leaked, ended>>

\* Mutant: the exception of an initializer is dropped.
LoadPending_Swallowed(e) == None
\* jniDefaultSetPendingFromCurrent() in jniInit().
LoadPending(e) == e

\* The first initializer that throws stops jniInit(), and its exception, pending,
\* makes Java give up loading.
GiveUp(t, e) ==
    /\ pending' = [pending EXCEPT ![t] = LoadPending(e)]
    /\ loaded' = IF LoadPending(e) = None THEN "yes" ELSE "failed"
    /\ loader' = None
    /\ UNCHANGED <<auto, jvm, ready, envVars, stack, thrown, obj, kept, proxyVars, refs, leaked,
                   ended>>

\* jniGetMethodID() and its like look for an exception at once.
InitFails(t, e) ==
    /\ InLoad(t, "init") /\ ready < NInits /\ e \in left
    /\ left' = left \ {e}
    /\ GiveUp(t, e)

\* jniFindClass() makes a GlobalRef of what FindClass() returned, null and an
\* exception, and calls NewGlobalRef() for it with the exception pending ...
FindClassFails(t, e) ==
    /\ InLoad(t, "init") /\ ready < NInits /\ e \in left
    /\ loaded' = "look"
    /\ pending' = [pending EXCEPT ![t] = e] /\ left' = left \ {e}
    /\ UNCHANGED <<auto, loader, jvm, ready, envVars, stack, thrown, obj, kept, proxyVars, refs,
                   leaked, ended>>

\* ... which a JVM may let pass: then jniExceptionCheck() finds it and throws ...
FindClassChecked(t) ==
    /\ InLoad(t, "look")
    /\ GiveUp(t, pending[t])
    /\ UNCHANGED left

\* ... or answer by ending the process, as one that checks its callers does.
FindClassAborts(t) == InLoad(t, "look") /\ End("load")

\* JNI_OnUnload: jniShutdown(); Java unloads no library whose code it runs.
Unload ==
    /\ ended = None /\ loaded = "yes"
    /\ \A t \in Threads : Len(stack[t]) <= 1
    /\ jvm' = FALSE /\ loaded' = "unloaded"
    /\ UNCHANGED <<auto, loader, ready, envVars, stack, excVars, proxyVars, refs, leaked, ended>>

\* getOptThreadEnv() finds an env.
HasEnv(t) == jvm /\ attached[t]

\* jniGetThreadEnv() ends the process.
NoEnv(t) == ~jvm \/ (~attached[t] /\ ~auto)

\* jniGetThreadEnv(): it attaches the thread and constructs its DetachOnExit,
\* which a thread does once in its life.
GetThreadEnv(t) ==
    /\ ~NoEnv(t)
    /\ attached' = [attached EXCEPT ![t] = TRUE]
    /\ detacher' = [detacher EXCEPT ![t] = @ \/ (~attached[t] /\ ~Exited(t))]

\* Mutant: the owner keeps a plain jobject.
DeleteGlobalRef_Never(t, r) == UNCHANGED <<refs, leaked>>
\* GlobalRefDeleter: without an env the reference is given up.
DeleteGlobalRef(t, r) ==
    IF HasEnv(t) THEN refs' = refs \ {r} /\ UNCHANGED leaked
                 ELSE leaked' = leaked \cup {r} /\ UNCHANGED refs

\* The last frame of t is over: the JVM detaches a thread of its own, and
\* ~DetachOnExit a thread that jniGetThreadEnv() attached.
Exit(t) ==
    /\ \E l \in {"java", "cpp"} : Runs(t, l)
    /\ Len(stack[t]) = 1
    /\ detacher[t] => jvm
    /\ stack' = [stack EXCEPT ![t] = <<>>]
    /\ attached' = [attached EXCEPT ![t] = FALSE]
    /\ UNCHANGED <<loadVars, detacher, excVars, proxyVars, refs, leaked, ended>>

\* ~DetachOnExit goes through g_cachedJVM, which jniShutdown() has cleared.
ExitFails(t) ==
    /\ Runs(t, "cpp") /\ Len(stack[t]) = 1
    /\ detacher[t] /\ ~jvm
    /\ End("detach")

-----------------------------------------------------------------------------
(* Calls and the JavaProxies that go with them.                            *)

Push(t, l) ==
    LET f == [Top(t) EXCEPT !.stage = "wait"]
    IN  stack' = [stack EXCEPT ![t] = Below(t) \o <<f, Frame(l)>>]

\* Java calls a native method.
CallNative(t) ==
    /\ Runs(t, "java") /\ loaded = "yes" /\ Len(stack[t]) < MaxDepth
    /\ Push(t, "cpp")
    /\ UNCHANGED <<loadVars, envVars, excVars, proxyVars, refs, leaked, ended>>

\* C++ calls a method of a JavaProxy that it has.
CallJava(t) ==
    /\ Runs(t, "cpp") /\ own[t] \cup shared # {} /\ Len(stack[t]) < MaxDepth
    /\ GetThreadEnv(t)
    /\ Push(t, "java")
    /\ UNCHANGED <<loadVars, excVars, proxyVars, refs, leaked, ended>>

CallAborts(t) ==
    /\ Runs(t, "cpp") /\ own[t] \cup shared # {} /\ NoEnv(t)
    /\ End("call")

Held(p) == p \in shared \/ \E t \in Threads : p \in own[t]

\* A native method's argument: the JavaProxy of a Java object, made when there
\* is none.
Receive(t, p) ==
    /\ Runs(t, "cpp") /\ Len(stack[t]) > 1
    /\ own' = [own EXCEPT ![t] = @ \cup {p}]
    /\ refs' = refs \cup {p}
    /\ UNCHANGED <<loadVars, envVars, stack, excVars, shared, leaked, ended>>

Share(t, p) ==
    /\ Runs(t, "cpp") /\ p \in own[t]
    /\ shared' = shared \cup {p}
    /\ UNCHANGED <<loadVars, envVars, stack, excVars, own, refs, leaked, ended>>

Borrow(t, p) ==
    /\ Runs(t, "cpp") /\ p \in shared
    /\ own' = [own EXCEPT ![t] = @ \cup {p}]
    /\ UNCHANGED <<loadVars, envVars, stack, excVars, shared, refs, leaked, ended>>

\* Another owner of p is left when t, or the heap, lets go of it.
LeftByOwn(t, p) == p \in shared \/ \E u \in Threads \ {t} : p \in own[u]
LeftByShared(p) == \E u \in Threads : p \in own[u]

\* The last owner's ~Handle erases p from the cache, whose hash asks Java for
\* the identityHashCode; then the global reference is deleted.
Drop(t, p) ==
    /\ InCpp(t)
    /\ \/ /\ p \in own[t]
          /\ own' = [own EXCEPT ![t] = @ \ {p}] /\ UNCHANGED shared
          /\ IF LeftByOwn(t, p) THEN UNCHANGED <<envVars, refs, leaked>>
             ELSE GetThreadEnv(t) /\ refs' = refs \ {p} /\ UNCHANGED leaked
       \/ /\ p \in shared
          /\ shared' = shared \ {p} /\ UNCHANGED own
          /\ IF LeftByShared(p) THEN UNCHANGED <<envVars, refs, leaked>>
             ELSE GetThreadEnv(t) /\ refs' = refs \ {p} /\ UNCHANGED leaked
    /\ UNCHANGED <<loadVars, stack, excVars, ended>>

DropAborts(t, p) ==
    /\ InCpp(t) /\ NoEnv(t)
    /\ \/ p \in own[t] /\ ~LeftByOwn(t, p)
       \/ p \in shared /\ ~LeftByShared(p)
    /\ End("drop")

-----------------------------------------------------------------------------
(* Exceptions in user code.                                                *)

RaiseJava(t, e) ==
    /\ Runs(t, "java") /\ e \in left
    /\ pending' = [pending EXCEPT ![t] = e] /\ left' = left \ {e}
    /\ UNCHANGED <<loadVars, envVars, stack, thrown, obj, kept, proxyVars, refs, leaked, ended>>

CatchJava(t) ==
    /\ ended = None /\ t # loader
    /\ ~Exited(t) /\ Top(t).lang = "java" /\ Top(t).stage = "user" /\ pending[t] # None
    /\ pending' = [pending EXCEPT ![t] = None]
    /\ UNCHANGED <<loadVars, envVars, stack, thrown, obj, kept, left, proxyVars, refs, leaked, ended>>

\* A new exception object: the name of none that is there, or has leaked.
Fresh(o) == obj[o] = None /\ o \notin refs

ThrowCpp(t, e, o, k) ==
    /\ Runs(t, "cpp") /\ e \in left /\ Fresh(o)
    /\ obj' = [obj EXCEPT ![o] = [err |-> e, kind |-> k]]
    /\ thrown' = [thrown EXCEPT ![t] = o] /\ left' = left \ {e}
    /\ UNCHANGED <<loadVars, envVars, stack, pending, kept, proxyVars, refs, leaked, ended>>

\* The last reference to o goes on thread t.
Destroy(t, o) ==
    /\ obj' = [obj EXCEPT ![o] = None]
    /\ IF obj[o].kind = "jni" THEN DeleteGlobalRef(t, o) ELSE UNCHANGED <<refs, leaked>>

\* Is o still referred to when t lets go of it?
Referred(t, o) == kept = o \/ \E u \in Threads \ {t} : thrown[u] = o

Throws(t) == InCpp(t) /\ thrown[t] # None

CatchCpp(t) ==
    /\ Throws(t)
    /\ thrown' = [thrown EXCEPT ![t] = None]
    /\ IF Referred(t, thrown[t]) THEN UNCHANGED <<obj, refs, leaked>>
                                 ELSE Destroy(t, thrown[t])
    /\ UNCHANGED <<loadVars, envVars, stack, pending, kept, left, proxyVars, ended>>

\* catch (...) { kept = std::current_exception(); }
KeepCpp(t) ==
    /\ Throws(t) /\ kept = None
    /\ kept' = thrown[t]
    /\ thrown' = [thrown EXCEPT ![t] = None]
    /\ UNCHANGED <<loadVars, envVars, stack, pending, obj, left, proxyVars, refs, leaked, ended>>

RethrowCpp(t) ==
    /\ Runs(t, "cpp") /\ kept # None
    /\ thrown' = [thrown EXCEPT ![t] = kept]
    /\ UNCHANGED <<loadVars, envVars, stack, pending, obj, kept, left, proxyVars, refs, leaked, ended>>

ForgetCpp(t) ==
    /\ InCpp(t) /\ kept # None
    /\ kept' = None
    /\ IF \E u \in Threads : thrown[u] = kept THEN UNCHANGED <<obj, refs, leaked>>
                                              ELSE Destroy(t, kept)
    /\ UNCHANGED <<loadVars, envVars, stack, pending, thrown, left, proxyVars, ended>>

-----------------------------------------------------------------------------
(* The innermost frame ends.                                               *)

\* The caller's frame goes on at this stage, after a call with this outcome.
Pop(t, stage, e) ==
    LET n == Len(stack[t]) - 1
        f == [lang |-> stack[t][n].lang, stage |-> stage, outcome |-> e]
    IN  /\ n > 0
        /\ stack' = [stack EXCEPT ![t] = [Below(t) EXCEPT ![n] = f]]

ReturnNative(t) ==
    /\ Runs(t, "cpp")
    /\ Pop(t, "user", None)
    /\ UNCHANGED <<loadVars, envVars, excVars, proxyVars, refs, leaked, ended>>

\* Mutant: java_exception() is released to the JVM.
SetPending_Release(t, o) ==
    /\ pending' = [pending EXCEPT ![t] =
                       IF obj[o].kind = "jni" /\ o \notin refs THEN None ELSE obj[o].err]
    /\ UNCHANGED leaked /\ refs' = refs \ {o}
\* Mutant: the address of the jni_exception is thrown in place of its throwable.
SetPending_Cast(t, o) ==
    /\ pending' = [pending EXCEPT ![t] = IF obj[o].kind = "jni" THEN o ELSE obj[o].err]
    /\ IF obj[o].kind = "jni" /\ ~Referred(t, o) THEN DeleteGlobalRef(t, o)
                                                ELSE UNCHANGED <<refs, leaked>>
\* jniDefaultSetPendingFromCurrent(): the throwable of a jni_exception, which
\* its global reference keeps, or a new RuntimeException.
SetPending(t, o) ==
    /\ pending' = [pending EXCEPT ![t] =
                       IF obj[o].kind = "jni" /\ o \notin refs THEN None ELSE obj[o].err]
    /\ IF obj[o].kind = "jni" /\ ~Referred(t, o) THEN DeleteGlobalRef(t, o)
                                                ELSE UNCHANGED <<refs, leaked>>

\* An exception leaves a native method: JNI_TRANSLATE_EXCEPTIONS_RETURN, which
\* catches a std::exception and destroys it if nobody keeps it.
Translate(t) ==
    LET o == thrown[t] IN
    /\ Throws(t) /\ obj[o].kind # "other"
    /\ Pop(t, "user", None)
    /\ SetPending(t, o)
    /\ thrown' = [thrown EXCEPT ![t] = None]
    /\ obj' = IF Referred(t, o) THEN obj ELSE [obj EXCEPT ![o] = None]
    /\ UNCHANGED <<loadVars, envVars, kept, left, proxyVars, ended>>

\* Nobody catches another.
Terminate(t) ==
    /\ Throws(t) /\ Len(stack[t]) > 1 /\ obj[thrown[t]].kind = "other"
    /\ End("terminate")

\* A Java method that C++ called is over, perhaps by an exception.
ReturnJava(t) ==
    /\ ended = None /\ t # loader
    /\ ~Exited(t) /\ Top(t).lang = "java" /\ Top(t).stage = "user"
    /\ Pop(t, "back", pending[t])
    /\ UNCHANGED <<loadVars, envVars, excVars, proxyVars, refs, leaked, ended>>

Resume(t) == stack' = [stack EXCEPT ![t] = Append(Below(t), Frame(Top(t).lang))]

Back(t) == ended = None /\ ~Exited(t) /\ Top(t).stage = "back"

\* Mutant: the exception stays pending.
ExceptionClear_Not(t) == UNCHANGED pending
ExceptionClear(t) == pending' = [pending EXCEPT ![t] = None]

\* jniExceptionCheck() finds an exception and throws a jni_exception for it.
ThrowFromJava(t, o) ==
    /\ Back(t) /\ pending[t] # None /\ Fresh(o)
    /\ ExceptionClear(t)
    /\ obj' = [obj EXCEPT ![o] = [err |-> pending[t], kind |-> "jni"]]
    /\ refs' = refs \cup {o}
    /\ thrown' = [thrown EXCEPT ![t] = o]
    /\ Resume(t)
    /\ UNCHANGED <<loadVars, envVars, kept, left, proxyVars, leaked, ended>>

ResultFromJava(t) ==
    /\ Back(t) /\ pending[t] = None
    /\ Resume(t)
    /\ UNCHANGED <<loadVars, envVars, excVars, proxyVars, refs, leaked, ended>>

-----------------------------------------------------------------------------
Library(t) ==
    \/ Load(t) \/ Initialize(t) \/ Loaded(t)
    \/ \E e \in Errs : InitFails(t, e) \/ FindClassFails(t, e)
    \/ FindClassChecked(t) \/ FindClassAborts(t)
    \/ Exit(t) \/ ExitFails(t)
    \/ CallNative(t) \/ CallJava(t) \/ CallAborts(t)
    \/ \E p \in Proxies : \/ Receive(t, p) \/ Share(t, p) \/ Borrow(t, p)
                          \/ Drop(t, p) \/ DropAborts(t, p)

Exceptions(t) ==
    \/ \E e \in Errs : \/ RaiseJava(t, e)
                       \/ \E o \in Objs, k \in {"std", "other"} : ThrowCpp(t, e, o, k)
    \/ CatchJava(t) \/ CatchCpp(t) \/ KeepCpp(t) \/ RethrowCpp(t) \/ ForgetCpp(t)
    \/ ReturnNative(t) \/ Translate(t) \/ Terminate(t) \/ ReturnJava(t)
    \/ \E o \in Objs : ThrowFromJava(t, o)
    \/ ResultFromJava(t)

Next == Unload \/ \E t \in Threads : Library(t) \/ Exceptions(t)

Spec == Init /\ [][Next]_vars

-----------------------------------------------------------------------------
(* Properties.                                                             *)

\* Native code that Java called finds every JniClass singleton and the JVM: a
\* library whose initializers did not all run is not called.
InitBeforeUse ==
    \A t \in Threads : Len(stack[t]) > 1 => jvm /\ ready = NInits

\* C++ code calls no JNI function with an exception pending, but for one: when
\* FindClass() fails for an initializer, jniFindClass() goes on to NewGlobalRef()
\* before it looks.  Otherwise one is pending while Java code propagates it, and
\* from the end of a call that C++ made to its jniExceptionCheck(), which finds the
\* one that the call ended with.
NoCallPending ==
    \A t \in Threads : pending[t] # None =>
        /\ ~Exited(t)
        /\ \/ t # loader /\ Top(t).lang = "java" /\ Top(t).stage = "user"
           \/ t # loader /\ Top(t).stage = "back" /\ Top(t).outcome = pending[t]
           \/ t = loader /\ loaded = "look"

\* Every global reference has a C++ owner that is there, and every owner has
\* its reference; only an exception that dies on a thread without an env
\* leaves its reference behind.
Owner(r) ==
    \/ r \in Proxies /\ Held(r)
    \/ r \in Objs /\ obj[r] # None /\ obj[r].kind = "jni"

RefsBalanced ==
    \A r \in Proxies \cup Objs :
        /\ Owner(r) => r \in refs \ leaked
        /\ r \in refs => Owner(r) \/ r \in leaked

\* What t's innermost frame faces: an exception, or None.
Flight(t) == IF Top(t).lang = "java" THEN pending[t]
             ELSE IF thrown[t] = None THEN None ELSE obj[thrown[t]].err

\* Whatever a callee ends with is what its caller sees, a Java caller at once
\* and a C++ caller when it has looked: the same exception, or none, also of an
\* exception that several threads throw.
Ends(t) == Len(stack'[t]) < Len(stack[t]) /\ Len(stack'[t]) > 0

ArrivesAt(t) ==
    /\ Ends(t) /\ Top(t).lang = "cpp" => pending'[t] = Flight(t)
    /\ (~Exited(t) /\ Top(t).stage = "back" /\ stack'[t] # stack[t])
           => Flight(t)' = Top(t).outcome

ExceptionArrives == [][\A t \in Threads : ArrivesAt(t)]_vars
=============================================================================
