-------------------------- MODULE JniRuntimeProofs --------------------------
(***************************************************************************)
(* Proofs about JniRuntime, for any number of threads, exceptions and      *)
(* objects and for stacks of any depth.                                    *)
(*                                                                         *)
(* That an exception arrives needs that every exception object has its     *)
(* global reference when it is translated (RefsBalanced), that a call that *)
(* is over left its outcome pending (Faces) and that frames alternate, so  *)
(* that what it left is looked for (Alternates).  That native code is not  *)
(* called too early needs to know how a library is left that did not load: *)
(* with a JVM and no JavaProxy through which C++ could call (Loading), and *)
(* that the thread that loads it does nothing else (LoaderWaits).          *)
(***************************************************************************)
EXTENDS JniRuntime, SequenceTheorems, TLAPS

\* What Java knows of the library is so, and there are calls and JavaProxies
\* only once it is loaded.
Loading ==
    /\ jvm <=> loaded \notin {"no", "unloaded"}
    /\ loaded = "yes" => jvm /\ ready = NInits
    /\ \A t \in Threads : Len(stack[t]) > 1 => loaded = "yes"
    /\ (\E p \in Proxies : Held(p)) => loaded \in {"yes", "unloaded"}

\* The thread that loads the library waits in Java code, and an exception is
\* pending on it only between jniFindClass()'s FindClass() and its check.
LoaderWaits ==
    /\ loader # None <=> loaded \in {"init", "look"}
    /\ \A t \in Threads : t = loader =>
          /\ ~Exited(t) /\ Top(t).lang = "java" /\ Top(t).stage = "user"
          /\ pending[t] # None <=> loaded = "look"

\* Java and C++ call each other in turn.
Alternates(t) ==
    \A n \in 1..(Len(stack[t]) - 1) : stack[t][n].lang # stack[t][n + 1].lang

\* Where the exceptions of t are: C++ throws in C++ code that runs, one is
\* pending in Java code that runs or is left by a call that is over, and a call
\* that is over leaves what it ended with.
Faces(t) ==
    /\ thrown[t] # None =>
          ~Exited(t) /\ Top(t).lang = "cpp" /\ Top(t).stage = "user"
    /\ ~Exited(t) /\ Top(t).stage = "back" =>
          Top(t).lang = "cpp" /\ Top(t).outcome = pending[t]
    /\ pending[t] # None =>
          /\ ~Exited(t)
          /\ (Top(t).lang = "java" /\ Top(t).stage = "user") \/ Top(t).stage = "back"

Stacks == \A t \in Threads : Alternates(t) /\ Faces(t)

\* What is thrown or kept is there.
Alive ==
    /\ \A t \in Threads : thrown[t] # None => obj[thrown[t]] # None
    /\ kept # None => obj[kept] # None

\* A reference that is given up stays in the JVM.
Refs == RefsBalanced /\ leaked \subseteq refs

IInv == TypeOK /\ Loading /\ LoaderWaits /\ Stacks /\ Alive /\ Refs

-----------------------------------------------------------------------------
(* What the steps do to a stack.                                           *)

LEMMA OneLess ==
  ASSUME NEW m \in Nat, m - 1 > 0
  PROVE  m - 1 \in Nat \ {0} /\ (m - 1) + 1 = m /\ m - 1 \in 1..m
  OBVIOUS

LEMMA TopType ==
  ASSUME TypeOK, NEW t \in Threads, ~Exited(t)
  PROVE  Len(stack[t]) \in Nat \ {0} /\ Top(t) \in Frames
  BY DEF TypeOK, Top, Exited

LEMMA BelowType ==
  ASSUME TypeOK, NEW t \in Threads, ~Exited(t)
  PROVE  /\ Below(t) \in Seq(Frames)
         /\ Len(Below(t)) = Len(stack[t]) - 1
         /\ \A n \in 1..(Len(stack[t]) - 1) : Below(t)[n] = stack[t][n]
<1> DEFINE n == Len(stack[t]) - 1
<1>1. n \in Nat /\ \A i \in 1..n : stack[t][i] \in Frames
  BY TopType DEF TypeOK
<1> HIDE DEF n
<1>2. /\ SubSeq(stack[t], 1, n) \in Seq(Frames)
      /\ Len(SubSeq(stack[t], 1, n)) = IF 1 <= n THEN n - 1 + 1 ELSE 0
      /\ \A i \in 1..(n - 1 + 1) : SubSeq(stack[t], 1, n)[i] = stack[t][1 + i - 1]
  BY <1>1, SubSeqProperties
<1>3. /\ SubSeq(stack[t], 1, n) \in Seq(Frames)
      /\ Len(SubSeq(stack[t], 1, n)) = n
      /\ \A i \in 1..n : SubSeq(stack[t], 1, n)[i] = stack[t][i]
  BY <1>1, <1>2
<1> QED BY <1>3 DEF Below, n

\* The new stack of t is s, and the other threads' are as they were.
StackIs(t, s) ==
    /\ stack' \in [Threads -> Seq(Frames)]
    /\ stack'[t] = s
    /\ \A u \in Threads \ {t} : stack'[u] = stack[u]

LEMMA StackSet ==
  ASSUME TypeOK, NEW t \in Threads, NEW s \in Seq(Frames), stack' = [stack EXCEPT ![t] = s]
  PROVE  StackIs(t, s)
  BY DEF TypeOK, StackIs

\* t calls into the other language.
LEMMA Pushed ==
  ASSUME TypeOK, NEW t \in Threads, ~Exited(t), Alternates(t),
         NEW l \in {"java", "cpp"}, Top(t).lang # l, Push(t, l)
  PROVE  /\ StackIs(t, stack'[t]) /\ Len(stack'[t]) = Len(stack[t]) + 1
         /\ Alternates(t)' /\ ~Exited(t)' /\ Top(t)' = Frame(l)
<1> DEFINE f == [Top(t) EXCEPT !.stage = "wait"]
           g == Frame(l)
           b == Below(t)
           s == b \o <<f, g>>
           n == Len(stack[t])
<1>1. n \in Nat \ {0} /\ Top(t) \in Frames /\ stack[t][n] = Top(t)
  BY TopType DEF Top
<1>2. /\ b \in Seq(Frames) /\ Len(b) = n - 1
      /\ \A i \in 1..(n - 1) : b[i] = stack[t][i]
  BY BelowType
<1>3. f \in Frames /\ f.lang = Top(t).lang /\ g \in Frames /\ g.lang = l
  BY <1>1 DEF Frames, Frame
<1>4. stack' = [stack EXCEPT ![t] = s]
  BY DEF Push
<1> HIDE DEF f, g, b, n
<1>5. /\ s \in Seq(Frames) /\ Len(s) = n + 1 /\ s[n] = f /\ s[n + 1] = g
      /\ \A i \in 1..(n - 1) : s[i] = b[i]
  BY <1>1, <1>2, <1>3
<1> HIDE DEF s
<1>6. StackIs(t, s)
  BY <1>4, <1>5, StackSet
<1>7. \A i \in 1..n : s[i].lang = stack[t][i].lang
  BY <1>1, <1>2, <1>3, <1>5
<1>8. \A i \in 1..n : s[i].lang # s[i + 1].lang
  <2> SUFFICES ASSUME NEW i \in 1..n PROVE s[i].lang # s[i + 1].lang
    OBVIOUS
  <2>1. CASE i = n
    BY <1>3, <1>5, <2>1
  <2>2. CASE i # n
    <3>1. i \in 1..(n - 1) /\ i + 1 \in 1..n
      BY <1>1, <2>2
    <3> QED BY <1>7, <3>1 DEF Alternates, n
  <2> QED BY <2>1, <2>2
<1>9. s # <<>> /\ s[Len(s)] = g /\ Len(s) - 1 = n
  BY <1>1, <1>5
<1> QED BY <1>5, <1>6, <1>8, <1>9 DEF StackIs, Alternates, Exited, Top, g, n

\* A frame of t ends, and its caller goes on at this stage.
LEMMA Popped ==
  ASSUME TypeOK, NEW t \in Threads, ~Exited(t), Alternates(t),
         NEW stage \in {"user", "wait", "back"}, NEW e \in Errs \cup {None},
         Pop(t, stage, e)
  PROVE  /\ StackIs(t, stack'[t]) /\ Len(stack[t]) > 1 /\ Len(stack'[t]) = Len(stack[t]) - 1
         /\ Alternates(t)' /\ ~Exited(t)'
         /\ Top(t)'.lang # Top(t).lang /\ Top(t)'.lang \in {"java", "cpp"}
         /\ Top(t)'.stage = stage /\ Top(t)'.outcome = e
<1> DEFINE n == Len(stack[t]) - 1
           f == [lang |-> stack[t][n].lang, stage |-> stage, outcome |-> e]
           b == Below(t)
           s == [b EXCEPT ![n] = f]
<1>0. n \in Nat \ {0} /\ n + 1 = Len(stack[t]) /\ n \in 1..Len(stack[t])
  <2>1. Len(stack[t]) \in Nat /\ n > 0
    BY TopType DEF Pop
  <2> QED BY <2>1, OneLess
<1>1. stack[t][n + 1] = Top(t) /\ stack' = [stack EXCEPT ![t] = s]
  BY <1>0 DEF Pop, Top
<1>2. b \in Seq(Frames) /\ Len(b) = n /\ \A i \in 1..n : b[i] = stack[t][i]
  BY BelowType
<1>3. stack[t][n] \in Frames
  <2>1. stack[t] \in Seq(Frames)
    BY DEF TypeOK
  <2> HIDE DEF n
  <2> QED BY <1>0, <2>1
<1>4. /\ f \in Frames /\ f.lang = stack[t][n].lang /\ f.lang \in {"java", "cpp"}
      /\ f.stage = stage /\ f.outcome = e
  BY <1>3 DEF Frames
<1> HIDE DEF n, f, b
<1>5. /\ s \in Seq(Frames) /\ Len(s) = n /\ s[n] = f
      /\ \A i \in 1..(n - 1) : s[i] = b[i]
  BY <1>0, <1>2, <1>4
<1> HIDE DEF s
<1>6. StackIs(t, s)
  BY <1>1, <1>5, StackSet
<1>7. \A i \in 1..n : s[i].lang = stack[t][i].lang
  BY <1>0, <1>2, <1>4, <1>5
<1>8. \A i \in 1..(n - 1) : s[i].lang # s[i + 1].lang
  <2> SUFFICES ASSUME NEW i \in 1..(n - 1) PROVE s[i].lang # s[i + 1].lang
    OBVIOUS
  <2>1. i \in 1..n /\ i + 1 \in 1..n /\ i \in 1..(Len(stack[t]) - 1)
    BY <1>0
  <2> QED BY <1>7, <2>1 DEF Alternates
<1>9. stack[t][n].lang # stack[t][n + 1].lang
  <2>1. n \in 1..(Len(stack[t]) - 1)
    BY <1>0
  <2> QED BY <2>1 DEF Alternates
<1>10. s # <<>> /\ s[Len(s)] = f
  BY <1>0, <1>5
<1> QED BY <1>0, <1>1, <1>4, <1>5, <1>6, <1>8, <1>9, <1>10 DEF StackIs, Alternates, Exited, Top

\* A caller has looked for an exception and goes on.
LEMMA Resumed ==
  ASSUME TypeOK, NEW t \in Threads, ~Exited(t), Alternates(t), Resume(t)
  PROVE  /\ StackIs(t, stack'[t]) /\ Len(stack'[t]) = Len(stack[t])
         /\ Alternates(t)' /\ ~Exited(t)'
         /\ Top(t)'.lang = Top(t).lang /\ Top(t)'.stage = "user"
<1> DEFINE n == Len(stack[t])
           f == Frame(Top(t).lang)
           b == Below(t)
           s == Append(b, f)
<1>1. /\ n \in Nat \ {0} /\ Top(t) \in Frames /\ stack[t][n] = Top(t)
      /\ stack' = [stack EXCEPT ![t] = s]
  BY TopType DEF Resume, Top
<1>2. b \in Seq(Frames) /\ Len(b) = n - 1 /\ \A i \in 1..(n - 1) : b[i] = stack[t][i]
  BY BelowType
<1>3. f \in Frames /\ f.lang = Top(t).lang /\ f.stage = "user"
  BY <1>1 DEF Frames, Frame
<1> HIDE DEF n, f, b
<1>4. /\ s \in Seq(Frames) /\ Len(s) = n /\ s[n] = f
      /\ \A i \in 1..(n - 1) : s[i] = b[i]
  BY <1>1, <1>2, <1>3
<1> HIDE DEF s
<1>5. StackIs(t, s)
  BY <1>1, <1>4, StackSet
<1>6. \A i \in 1..n : s[i].lang = stack[t][i].lang
  BY <1>1, <1>2, <1>3, <1>4
<1>7. \A i \in 1..(n - 1) : s[i].lang # s[i + 1].lang
  <2> SUFFICES ASSUME NEW i \in 1..(n - 1) PROVE s[i].lang # s[i + 1].lang
    OBVIOUS
  <2>1. i \in 1..n /\ i + 1 \in 1..n
    BY <1>1
  <2> QED BY <1>6, <2>1 DEF Alternates, n
<1>8. s # <<>> /\ s[Len(s)] = f
  BY <1>1, <1>4
<1> QED BY <1>3, <1>4, <1>5, <1>7, <1>8 DEF StackIs, Alternates, Exited, Top, n

-----------------------------------------------------------------------------
(* What stays as it is.                                                    *)

LEMMA KeepLoading ==
  ASSUME Loading, UNCHANGED <<loadVars, proxyVars>>,
         \A u \in Threads : Len(stack'[u]) > 1 => Len(stack[u]) > 1 \/ loaded = "yes"
  PROVE  Loading'
<1>1. \A u \in Threads : Len(stack'[u]) > 1 => loaded' = "yes"
  BY DEF Loading, loadVars
<1>2. (\E p \in Proxies : Held(p)') => loaded' \in {"yes", "unloaded"}
  BY DEF Loading, loadVars, proxyVars, Held
<1> QED BY <1>1, <1>2 DEF Loading, loadVars

\* The steps of other threads leave the thread that loads as it is.
LEMMA KeepLoader ==
  ASSUME LoaderWaits, UNCHANGED loadVars,
         \A u \in Threads : u = loader => stack'[u] = stack[u] /\ pending'[u] = pending[u]
  PROVE  LoaderWaits'
BY DEF LoaderWaits, loadVars, Exited, Top

\* Only the stack of t and what t faces change.
LEMMA KeepStacks ==
  ASSUME Stacks, NEW t \in Threads,
         \A u \in Threads \ {t} : /\ stack'[u] = stack[u]
                                  /\ pending'[u] = pending[u] /\ thrown'[u] = thrown[u],
         Alternates(t)', Faces(t)'
  PROVE  Stacks'
<1> SUFFICES ASSUME NEW u \in Threads \ {t} PROVE Alternates(u)' /\ Faces(u)'
  BY DEF Stacks
<1>1. Alternates(u)'
  BY DEF Stacks, Alternates
<1>2. Faces(u)'
  BY DEF Stacks, Faces, Exited, Top
<1> QED BY <1>1, <1>2

\* Only what t faces changes.
LEMMA KeepTop ==
  ASSUME Stacks, NEW t \in Threads, UNCHANGED stack,
         \A u \in Threads \ {t} : pending'[u] = pending[u] /\ thrown'[u] = thrown[u],
         Faces(t)'
  PROVE  Stacks'
<1>1. Alternates(t)'
  BY DEF Stacks, Alternates
<1> QED BY <1>1, KeepStacks

LEMMA KeepRefs ==
  ASSUME Refs, UNCHANGED <<proxyVars, obj, refs, leaked>>
  PROVE  Refs'
<1>1. \A r \in Proxies \cup Objs : Owner(r)' = Owner(r)
  BY DEF Owner, Held, proxyVars
<1> QED BY <1>1 DEF Refs, RefsBalanced

LEMMA KeepAlive ==
  ASSUME Alive, UNCHANGED <<thrown, obj, kept>>
  PROVE  Alive'
BY DEF Alive

-----------------------------------------------------------------------------
(* The invariant holds initially and is kept by every step.                *)

LEMMA InitInv ==
  ASSUME Init
  PROVE  IInv
<1> USE RuntimeAssumption
<1> DEFINE frame(t) == Frame(IF t \in JavaThreads THEN "java" ELSE "cpp")
<1>1. \A t \in Threads : /\ frame(t) \in Frames /\ frame(t).stage = "user"
                         /\ stack[t] = <<frame(t)>>
  BY DEF Init, Frame, Frames
<1> HIDE DEF frame
<1>2. \A t \in Threads : /\ stack[t] \in Seq(Frames) /\ Len(stack[t]) = 1
                         /\ Top(t).stage = "user"
  <2> TAKE t \in Threads
  <2>1. /\ <<frame(t)>> \in Seq(Frames) /\ Len(<<frame(t)>>) = 1
        /\ <<frame(t)>>[1] = frame(t)
    BY <1>1
  <2> QED BY <1>1, <2>1 DEF Top
<1>3. TypeOK
  <2>1. stack \in [Threads -> Seq(Frames)]
    BY <1>2 DEF Init
  <2>2. attached \in [Threads -> BOOLEAN] /\ detacher \in [Threads -> BOOLEAN]
    BY DEF Init
  <2>3. /\ pending \in [Threads -> Errs \cup {None}] /\ thrown \in [Threads -> Objs \cup {None}]
        /\ obj \in [Objs -> Thrown \cup {None}] /\ own \in [Threads -> SUBSET Proxies]
    BY DEF Init
  <2>4. auto \in BOOLEAN /\ jvm \in BOOLEAN
    BY Zenon DEF Init
  <2>5. /\ ready \in 0..NInits /\ loaded \in {"no", "init", "look", "yes", "failed", "unloaded"}
        /\ loader \in Threads \cup {None} /\ kept \in Objs \cup {None} /\ left \in SUBSET Errs
        /\ shared \in SUBSET Proxies /\ refs \in SUBSET (Proxies \cup Objs)
        /\ leaked \in SUBSET Objs /\ ended \in {None, "load", "call", "drop", "detach", "terminate"}
    BY DEF Init
  <2> QED BY <2>1, <2>2, <2>3, <2>4, <2>5 DEF TypeOK
<1>4. Loading
  BY <1>2 DEF Init, Loading, Held
<1>5. Stacks
  BY <1>2 DEF Init, Stacks, Alternates, Faces
<1>6. Alive
  BY DEF Init, Alive
<1>7. Refs
  BY DEF Init, Refs, RefsBalanced, Owner, Held
<1>8. LoaderWaits
  BY DEF Init, LoaderWaits
<1> QED BY <1>3, <1>4, <1>5, <1>6, <1>7, <1>8 DEF IInv

\* The library begins to load, or an initializer or the last of them succeeds.
LEMMA LoadKeeps ==
  ASSUME IInv, NEW t \in Threads, Load(t) \/ Initialize(t) \/ Loaded(t)
  PROVE  IInv'
<1> USE RuntimeAssumption DEF IInv
<1>1. /\ UNCHANGED <<auto, envVars, stack, excVars, proxyVars, refs, leaked, ended>>
      /\ loaded \notin {"yes", "unloaded"} /\ loaded' \in {"init", "yes"}
  BY DEF Load, Initialize, Loaded, InLoad
<1>2. /\ ready' \in 0..NInits /\ jvm' \in BOOLEAN /\ loader' \in Threads \cup {None}
      /\ jvm' /\ (loaded' = "yes" => ready' = NInits)
  <2>1. CASE Load(t)
    BY <2>1 DEF Load, TypeOK
  <2>2. CASE Initialize(t)
    BY <2>2 DEF Initialize, InLoad, Loading, TypeOK
  <2>3. CASE Loaded(t)
    BY <2>3 DEF Loaded, InLoad, Loading, TypeOK
  <2> QED BY <2>1, <2>2, <2>3
<1>3. TypeOK'
  BY <1>1, <1>2 DEF TypeOK, envVars, excVars, proxyVars
<1>4. Loading'
  BY <1>1, <1>2 DEF Loading, Held, proxyVars
<1>5. LoaderWaits'
  BY <1>1 DEF Load, Initialize, Loaded, InLoad, Runs, LoaderWaits, excVars, Exited, Top
<1>6. Stacks'
  BY <1>1 DEF Stacks, Alternates, Faces, Exited, Top, excVars
<1> QED BY <1>1, <1>3, <1>4, <1>5, <1>6, KeepAlive, KeepRefs DEF excVars

\* An initializer fails, and jniInit() with it.
LEMMA LoadFailKeeps ==
  ASSUME IInv, NEW t \in Threads,
         FindClassChecked(t) \/ \E e \in Errs : InitFails(t, e) \/ FindClassFails(t, e)
  PROVE  IInv'
<1> USE RuntimeAssumption DEF IInv
<1>1. /\ t = loader /\ loaded \in {"init", "look"}
      /\ UNCHANGED <<auto, jvm, ready, envVars, stack, thrown, obj, kept, proxyVars, refs, leaked,
                     ended>>
  BY DEF FindClassChecked, InitFails, FindClassFails, GiveUp, InLoad
<1>2. PICK e \in Errs :
        /\ pending' = [pending EXCEPT ![t] = e] /\ left' \in SUBSET Errs
        /\ \/ loaded' = "failed" /\ loader' = None
           \/ loaded' = "look" /\ loader' = loader
  <2>1. CASE FindClassChecked(t)
    <3>1. pending[t] \in Errs
      BY <1>1, <2>1 DEF FindClassChecked, InLoad, LoaderWaits, TypeOK
    <3> QED BY <2>1, <3>1 DEF FindClassChecked, GiveUp, LoadPending, TypeOK
  <2>2. CASE \E e \in Errs : InitFails(t, e)
    BY <2>2 DEF InitFails, GiveUp, LoadPending, TypeOK
  <2>3. CASE \E e \in Errs : FindClassFails(t, e)
    BY <2>3 DEF FindClassFails, TypeOK
  <2> QED BY <2>1, <2>2, <2>3
<1>3. /\ pending' \in [Threads -> Errs \cup {None}] /\ pending'[t] = e /\ e # None
      /\ \A u \in Threads \ {t} : pending'[u] = pending[u]
  BY <1>2 DEF TypeOK
<1>4. TypeOK'
  BY <1>1, <1>2, <1>3 DEF TypeOK, envVars, proxyVars
<1>5. Loading'
  BY <1>1, <1>2 DEF Loading, Held, proxyVars
<1>6. ~Exited(t) /\ Top(t).lang = "java" /\ Top(t).stage = "user" /\ loader # None
  BY <1>1 DEF LoaderWaits
<1>7. LoaderWaits'
  BY <1>1, <1>2, <1>3, <1>6 DEF LoaderWaits, Exited, Top
<1>8. Stacks'
  <2>1. Faces(t)'
    BY <1>1, <1>6 DEF Stacks, Faces, Exited, Top
  <2> QED BY <1>1, <1>3, <2>1, KeepTop
<1> QED BY <1>1, <1>4, <1>5, <1>7, <1>8, KeepAlive, KeepRefs

LEMMA UnloadKeeps ==
  ASSUME IInv, Unload
  PROVE  IInv'
<1> USE DEF IInv, Unload
<1>1. TypeOK'
  BY DEF TypeOK, envVars, excVars, proxyVars
<1>2. Loading'
  <2>1. \A u \in Threads : ~(Len(stack'[u]) > 1)
    BY DEF TypeOK
  <2> QED BY <2>1 DEF Loading
<1>3. Stacks'
  BY DEF Stacks, Alternates, Faces, Exited, Top, excVars
<1>4. Alive' /\ Refs'
  BY KeepAlive, KeepRefs DEF excVars, proxyVars
<1>5. LoaderWaits'
  BY RuntimeAssumption DEF LoaderWaits, excVars
<1> QED BY <1>1, <1>2, <1>3, <1>4, <1>5

LEMMA EndKeeps ==
  ASSUME IInv, NEW why \in {"load", "call", "drop", "detach", "terminate"}, End(why)
  PROVE  IInv'
<1> USE DEF IInv, End
<1>1. TypeOK'
  BY DEF TypeOK, loadVars, envVars, excVars, proxyVars
<1>2. Loading'
  BY KeepLoading
<1>3. Stacks'
  BY DEF Stacks, Alternates, Faces, Exited, Top, excVars
<1>4. Alive' /\ Refs'
  BY KeepAlive, KeepRefs DEF excVars
<1>5. LoaderWaits'
  BY KeepLoader DEF excVars
<1> QED BY <1>1, <1>2, <1>3, <1>4, <1>5

LEMMA ExitKeeps ==
  ASSUME IInv, NEW t \in Threads, Exit(t)
  PROVE  IInv'
<1> USE DEF IInv
<1>1. /\ pending[t] = None /\ thrown[t] = None /\ t # loader
      /\ stack' = [stack EXCEPT ![t] = <<>>]
      /\ UNCHANGED <<loadVars, excVars, proxyVars, refs, leaked>>
  BY DEF Exit, Runs
<1>2. StackIs(t, <<>>)
  BY <1>1, StackSet, EmptySeq
<1>3. TypeOK'
  BY <1>2 DEF Exit, TypeOK, StackIs, loadVars, excVars, proxyVars
<1>4. Loading'
  BY <1>1, <1>2, KeepLoading DEF StackIs
<1>5. Stacks'
  <2>1. Alternates(t)'
    BY <1>2 DEF StackIs, Alternates
  <2>2. Faces(t)'
    BY <1>1, <1>2 DEF StackIs, Faces, Exited, excVars
  <2> QED BY <1>1, <1>2, <2>1, <2>2, KeepStacks DEF StackIs, excVars
<1>6. LoaderWaits'
  BY <1>1, <1>2, KeepLoader DEF StackIs, excVars
<1> QED BY <1>1, <1>3, <1>4, <1>5, <1>6, KeepAlive, KeepRefs DEF excVars

\* A call from one language to the other.
LEMMA PushKeeps ==
  ASSUME IInv, NEW t \in Threads, NEW l \in {"java", "cpp"}, NEW m \in {"java", "cpp"},
         Runs(t, l), m # l, loaded = "yes", Push(t, m),
         UNCHANGED <<loadVars, excVars, proxyVars, refs, leaked, ended>>,
         attached' \in [Threads -> BOOLEAN], detacher' \in [Threads -> BOOLEAN]
  PROVE  IInv'
<1> USE DEF IInv
<1>1. /\ ~Exited(t) /\ Top(t).lang = l /\ t # loader
      /\ pending[t] = None /\ thrown[t] = None /\ Alternates(t)
  BY DEF Runs, Stacks
<1>2. StackIs(t, stack'[t]) /\ Alternates(t)' /\ ~Exited(t)' /\ Top(t)' = Frame(m)
  BY <1>1, Pushed
<1>3. TypeOK'
  BY <1>2 DEF TypeOK, StackIs, loadVars, excVars, proxyVars
<1>4. Loading'
  BY KeepLoading
<1>5. Stacks'
  <2>1. Faces(t)'
    BY <1>1, <1>2 DEF Faces, Frame, excVars
  <2> QED BY <1>2, <2>1, KeepStacks DEF StackIs, excVars
<1>6. LoaderWaits'
  BY <1>1, <1>2, KeepLoader DEF StackIs, excVars
<1> QED BY <1>3, <1>4, <1>5, <1>6, KeepAlive, KeepRefs DEF excVars

LEMMA CallNativeKeeps ==
  ASSUME IInv, NEW t \in Threads, CallNative(t)
  PROVE  IInv'
BY PushKeeps DEF CallNative, IInv, TypeOK, envVars

\* C++ has a JavaProxy only of a library that Java has loaded, and the JVM only
\* until it is unloaded.
LEMMA CallJavaKeeps ==
  ASSUME IInv, NEW t \in Threads, CallJava(t)
  PROVE  IInv'
<1>1. attached' \in [Threads -> BOOLEAN] /\ detacher' \in [Threads -> BOOLEAN]
  BY DEF CallJava, GetThreadEnv, IInv, TypeOK
<1>2. loaded = "yes"
  <2>1. \E p \in Proxies : Held(p)
    BY DEF CallJava, Held, IInv, TypeOK
  <2>2. jvm
    BY DEF CallJava, GetThreadEnv, NoEnv
  <2> QED BY <2>1, <2>2 DEF IInv, Loading
<1> QED BY <1>1, <1>2, PushKeeps DEF CallJava

\* What owns a JavaProxy changes.
LEMMA OwnersKeep ==
  ASSUME IInv, UNCHANGED <<loadVars, stack, excVars, leaked, ended>>,
         attached' \in [Threads -> BOOLEAN], detacher' \in [Threads -> BOOLEAN],
         own' \in [Threads -> SUBSET Proxies], shared' \in SUBSET Proxies,
         refs' \in SUBSET (Proxies \cup Objs),
         \A p \in Proxies : Held(p)' => Held(p) \/ loaded = "yes",
         \A p \in Proxies : p \in refs' <=> Held(p)',
         \A o \in Objs : o \in refs' <=> o \in refs
  PROVE  IInv'
<1> USE RuntimeAssumption DEF IInv
<1>1. TypeOK'
  BY DEF TypeOK, loadVars, excVars
<1>2. Loading'
  <2>1. (\E p \in Proxies : Held(p)') => loaded \in {"yes", "unloaded"}
    BY DEF Loading
  <2> QED BY <2>1 DEF Loading, loadVars
<1>3. Stacks'
  BY DEF Stacks, Alternates, Faces, Exited, Top, excVars
<1>4. Alive'
  BY KeepAlive DEF excVars
<1>5. Refs'
  <2>1. ASSUME NEW p \in Proxies PROVE (Owner(p)' <=> Held(p)') /\ p \notin leaked
    <3>1. p \notin Objs
      OBVIOUS
    <3> QED BY <3>1 DEF Owner, TypeOK
  <2>2. ASSUME NEW o \in Objs
        PROVE  /\ Owner(o)' => o \in refs' \ leaked'
               /\ o \in refs' => Owner(o)' \/ o \in leaked'
    BY DEF Refs, RefsBalanced, Owner, excVars
  <2>3. leaked' \subseteq refs'
    BY DEF Refs, TypeOK
  <2> QED BY <2>1, <2>2, <2>3 DEF Refs, RefsBalanced
<1>6. LoaderWaits'
  BY KeepLoader DEF excVars
<1> QED BY <1>1, <1>2, <1>3, <1>4, <1>5, <1>6

\* A JavaProxy is held exactly while the JVM has its global reference.
LEMMA HeldRefs ==
  ASSUME IInv, NEW p \in Proxies
  PROVE  p \in refs <=> Held(p)
BY RuntimeAssumption DEF IInv, Refs, RefsBalanced, Owner, TypeOK

LEMMA ProxyKeeps ==
  ASSUME IInv, NEW t \in Threads, NEW p \in Proxies,
         Receive(t, p) \/ Share(t, p) \/ Borrow(t, p)
  PROVE  IInv'
<1> USE RuntimeAssumption
<1>1. CASE Receive(t, p)
  <2>1. loaded = "yes"
    BY <1>1 DEF Receive, IInv, Loading
  <2>2. /\ own' \in [Threads -> SUBSET Proxies]
        /\ \A q \in Proxies : Held(q)' <=> Held(q) \/ q = p
    BY <1>1 DEF Receive, IInv, TypeOK, Held
  <2> QED BY <1>1, <2>1, <2>2, OwnersKeep, HeldRefs DEF Receive, IInv, TypeOK, envVars
<1>2. CASE Share(t, p)
  <2>1. \A q \in Proxies : Held(q)' <=> Held(q)
    BY <1>2 DEF Share, Held
  <2> QED BY <1>2, <2>1, OwnersKeep, HeldRefs DEF Share, IInv, TypeOK, envVars
<1>3. CASE Borrow(t, p)
  <2>1. /\ own' \in [Threads -> SUBSET Proxies]
        /\ \A q \in Proxies : Held(q)' <=> Held(q)
    BY <1>3 DEF Borrow, Held, IInv, TypeOK
  <2> QED BY <1>3, <2>1, OwnersKeep, HeldRefs DEF Borrow, IInv, TypeOK, envVars
<1> QED BY <1>1, <1>2, <1>3

LEMMA DropKeeps ==
  ASSUME IInv, NEW t \in Threads, NEW p \in Proxies, Drop(t, p)
  PROVE  IInv'
<1> USE RuntimeAssumption
<1>1. attached' \in [Threads -> BOOLEAN] /\ detacher' \in [Threads -> BOOLEAN]
  BY DEF Drop, GetThreadEnv, IInv, TypeOK, envVars
<1>2. \/ own' = [own EXCEPT ![t] = @ \ {p}] /\ shared' = shared
      \/ own' = own /\ shared' = shared \ {p}
  BY DEF Drop
<1>3. refs' = refs \/ refs' = refs \ {p}
  BY DEF Drop
<1>4. /\ own' \in [Threads -> SUBSET Proxies] /\ shared' \in SUBSET Proxies
      /\ \A q \in Proxies \ {p} : Held(q)' <=> Held(q)
  <2>1. own \in [Threads -> SUBSET Proxies] /\ shared \in SUBSET Proxies
    BY DEF IInv, TypeOK
  <2>2. CASE own' = [own EXCEPT ![t] = @ \ {p}] /\ shared' = shared
    <3>1. \A u \in Threads : own'[u] = IF u = t THEN own[u] \ {p} ELSE own[u]
      BY <2>1, <2>2
    <3> QED BY <2>1, <2>2, <3>1 DEF Held
  <2>3. CASE own' = own /\ shared' = shared \ {p}
    BY <2>1, <2>3 DEF Held
  <2> QED BY <1>2, <2>2, <2>3
<1>5. /\ refs' \in SUBSET (Proxies \cup Objs)
      /\ \A o \in Objs : o \in refs' <=> o \in refs
      /\ \A q \in Proxies \ {p} : q \in refs' <=> q \in refs
  BY <1>3 DEF IInv, TypeOK
<1>6. Held(p) /\ (p \in refs' <=> Held(p)')
  <2>1. own \in [Threads -> SUBSET Proxies]
    BY DEF IInv, TypeOK
  <2> QED BY <2>1, HeldRefs DEF Drop, Held, LeftByOwn, LeftByShared
<1>7. \A q \in Proxies : (q \in refs' <=> Held(q)') /\ (Held(q)' => Held(q))
  BY <1>4, <1>5, <1>6, HeldRefs
<1> QED BY <1>1, <1>4, <1>5, <1>7, OwnersKeep DEF Drop

-----------------------------------------------------------------------------
(* Exceptions.                                                             *)

\* What an exception object that is there is.
LEMMA ObjType ==
  ASSUME TypeOK, NEW o \in Objs, obj[o] # None
  PROVE  obj[o].err \in Errs /\ obj[o].kind \in {"jni", "std", "other"}
BY DEF TypeOK, Thrown

LEMMA ThrownType ==
  ASSUME IInv, NEW t \in Threads, thrown[t] # None
  PROVE  thrown[t] \in Objs /\ obj[thrown[t]] # None
BY DEF IInv, TypeOK, Alive

\* References that C++ objects own: o is no longer there, and is given back or
\* given up if it was a jni_exception.
LEMMA RefsDestroyed ==
  ASSUME IInv, NEW t \in Threads, NEW o \in Objs, obj[o] # None,
         obj' = [obj EXCEPT ![o] = None],
         IF obj[o].kind = "jni" THEN DeleteGlobalRef(t, o) ELSE UNCHANGED <<refs, leaked>>,
         UNCHANGED proxyVars
  PROVE  /\ Refs' /\ refs' \in SUBSET (Proxies \cup Objs) /\ leaked' \in SUBSET Objs
         /\ obj' \in [Objs -> Thrown \cup {None}]
<1> USE RuntimeAssumption
<1>1. /\ obj' \in [Objs -> Thrown \cup {None}] /\ obj'[o] = None
      /\ \A q \in Objs \ {o} : obj'[q] = obj[q]
  BY DEF IInv, TypeOK
<1>2. o \notin Proxies /\ (Owner(o) <=> obj[o].kind = "jni")
  BY DEF Owner
<1>3. (refs' = refs \/ refs' = refs \ {o}) /\ (leaked' = leaked \/ leaked' = leaked \cup {o})
  BY DEF DeleteGlobalRef
<1>4. o \in refs' => o \in leaked'
  BY <1>2 DEF DeleteGlobalRef, IInv, Refs, RefsBalanced
<1>5. leaked' \subseteq refs'
  BY <1>2 DEF DeleteGlobalRef, IInv, Refs, RefsBalanced
<1>6. ASSUME NEW r \in Proxies \cup Objs
      PROVE  /\ Owner(r)' => r \in refs' \ leaked'
             /\ r \in refs' => Owner(r)' \/ r \in leaked'
  <2>1. CASE r = o
    BY <1>1, <1>2, <1>4, <2>1 DEF Owner
  <2>2. CASE r # o
    <3>1. (Owner(r)' <=> Owner(r)) /\ (r \in refs' <=> r \in refs) /\ (r \in leaked' <=> r \in leaked)
      BY <1>1, <1>3, <2>2 DEF Owner, Held, proxyVars
    <3> QED BY <3>1 DEF IInv, Refs, RefsBalanced
  <2> QED BY <2>1, <2>2
<1>7. Refs'
  BY <1>5, <1>6 DEF Refs, RefsBalanced
<1> QED BY <1>1, <1>3, <1>7 DEF IInv, TypeOK

\* A new exception object o, with a global reference if it is a jni_exception.
LEMMA RefsMade ==
  ASSUME IInv, NEW o \in Objs, Fresh(o), NEW x \in Thrown, obj' = [obj EXCEPT ![o] = x],
         refs' = IF x.kind = "jni" THEN refs \cup {o} ELSE refs, leaked' = leaked,
         UNCHANGED proxyVars
  PROVE  /\ Refs' /\ refs' \in SUBSET (Proxies \cup Objs) /\ leaked' \in SUBSET Objs
         /\ obj' \in [Objs -> Thrown \cup {None}] /\ obj'[o] = x /\ x # None
         /\ \A q \in Objs \ {o} : obj'[q] = obj[q]
<1> USE RuntimeAssumption
<1>1. /\ obj' \in [Objs -> Thrown \cup {None}] /\ obj'[o] = x /\ x # None
      /\ \A q \in Objs \ {o} : obj'[q] = obj[q]
  BY DEF IInv, TypeOK
<1>2. o \notin Proxies /\ o \notin refs /\ o \notin leaked
  BY DEF Fresh, IInv, Refs
<1>3. leaked' \subseteq refs'
  BY DEF IInv, Refs
<1>4. ASSUME NEW r \in Proxies \cup Objs
      PROVE  /\ Owner(r)' => r \in refs' \ leaked'
             /\ r \in refs' => Owner(r)' \/ r \in leaked'
  <2>1. CASE r = o
    BY <1>1, <1>2, <2>1 DEF Owner
  <2>2. CASE r # o
    <3>1. (Owner(r)' <=> Owner(r)) /\ (r \in refs' <=> r \in refs)
      BY <1>1, <2>2 DEF Owner, Held, proxyVars
    <3> QED BY <3>1 DEF IInv, Refs, RefsBalanced
  <2> QED BY <2>1, <2>2
<1>5. Refs'
  BY <1>3, <1>4 DEF Refs, RefsBalanced
<1> QED BY <1>1, <1>5 DEF IInv, TypeOK

LEMMA JavaExceptionKeeps ==
  ASSUME IInv, NEW t \in Threads, CatchJava(t) \/ \E e \in Errs : RaiseJava(t, e)
  PROVE  IInv'
<1>1. /\ t # loader /\ ~Exited(t) /\ Top(t).lang = "java" /\ Top(t).stage = "user"
      /\ pending' \in [Threads -> Errs \cup {None}] /\ left' \in SUBSET Errs
      /\ \A u \in Threads \ {t} : pending'[u] = pending[u]
      /\ UNCHANGED <<loadVars, envVars, stack, thrown, obj, kept, proxyVars, refs, leaked, ended>>
  BY DEF CatchJava, RaiseJava, Runs, IInv, TypeOK
<1>2. TypeOK'
  BY <1>1 DEF IInv, TypeOK, loadVars, envVars, proxyVars
<1>3. Loading'
  BY <1>1, KeepLoading DEF IInv
<1>4. Stacks'
  <2>1. Faces(t)'
    BY <1>1 DEF IInv, Stacks, Faces, Exited, Top
  <2> QED BY <1>1, <2>1, KeepTop DEF IInv
<1>5. LoaderWaits'
  BY <1>1, KeepLoader DEF IInv
<1> QED BY <1>1, <1>2, <1>3, <1>4, <1>5, KeepAlive, KeepRefs DEF IInv

\* A step of C++ code at its exceptions.
LEMMA CppExceptionKeeps ==
  ASSUME IInv, NEW t \in Threads,
         UNCHANGED <<loadVars, envVars, stack, pending, proxyVars, ended>>,
         thrown' \in [Threads -> Objs \cup {None}],
         \A u \in Threads \ {t} : thrown'[u] = thrown[u],
         thrown'[t] # None => thrown[t] # None \/ Runs(t, "cpp"),
         obj' \in [Objs -> Thrown \cup {None}], kept' \in Objs \cup {None},
         left' \in SUBSET Errs, refs' \in SUBSET (Proxies \cup Objs), leaked' \in SUBSET Objs,
         Alive', Refs'
  PROVE  IInv'
<1> USE DEF IInv
<1>1. TypeOK'
  BY DEF TypeOK, loadVars, envVars, proxyVars
<1>2. Loading'
  BY KeepLoading
<1>3. Stacks'
  <2>1. Faces(t)'
    BY DEF Runs, Stacks, Faces, Exited, Top
  <2> QED BY <2>1, KeepTop
<1>4. LoaderWaits'
  BY KeepLoader
<1> QED BY <1>1, <1>2, <1>3, <1>4

LEMMA ThrowCppKeeps ==
  ASSUME IInv, NEW t \in Threads, NEW e \in Errs, NEW o \in Objs, NEW k \in {"std", "other"},
         ThrowCpp(t, e, o, k)
  PROVE  IInv'
<1> DEFINE x == [err |-> e, kind |-> k]
<1>1. /\ Runs(t, "cpp") /\ Fresh(o) /\ left' = left \ {e}
      /\ obj' = [obj EXCEPT ![o] = x] /\ thrown' = [thrown EXCEPT ![t] = o]
      /\ UNCHANGED <<loadVars, envVars, stack, pending, kept, proxyVars, refs, leaked, ended>>
  BY DEF ThrowCpp
<1>2. x \in Thrown /\ x.kind # "jni"
  BY DEF Thrown
<1> HIDE DEF x
<1>3. /\ Refs' /\ refs' \in SUBSET (Proxies \cup Objs) /\ leaked' \in SUBSET Objs
      /\ obj' \in [Objs -> Thrown \cup {None}] /\ obj'[o] = x /\ x # None
      /\ \A q \in Objs \ {o} : obj'[q] = obj[q]
  BY <1>1, <1>2, RefsMade
<1>4. /\ thrown' \in [Threads -> Objs \cup {None}] /\ thrown'[t] = o
      /\ \A u \in Threads \ {t} : thrown'[u] = thrown[u]
      /\ kept' \in Objs \cup {None} /\ left' \in SUBSET Errs
  BY <1>1 DEF IInv, TypeOK
<1>5. Alive'
  BY <1>1, <1>3, <1>4 DEF IInv, Alive, TypeOK
<1> QED BY <1>1, <1>3, <1>4, <1>5, CppExceptionKeeps

LEMMA KeepOrRethrowKeeps ==
  ASSUME IInv, NEW t \in Threads, KeepCpp(t) \/ RethrowCpp(t)
  PROVE  IInv'
<1>1. /\ thrown' \in [Threads -> Objs \cup {None}] /\ kept' \in Objs \cup {None}
      /\ \A u \in Threads \ {t} : thrown'[u] = thrown[u]
      /\ thrown'[t] # None => thrown[t] # None \/ Runs(t, "cpp")
      /\ UNCHANGED <<loadVars, envVars, stack, pending, obj, left, proxyVars, refs, leaked, ended>>
  BY DEF KeepCpp, RethrowCpp, Throws, IInv, TypeOK
<1>2. Alive'
  BY DEF KeepCpp, RethrowCpp, Throws, IInv, Alive, TypeOK
<1>3. Refs'
  BY <1>1, KeepRefs DEF IInv
<1> QED BY <1>1, <1>2, <1>3, CppExceptionKeeps DEF IInv, TypeOK

\* Nothing refers to the exception object that is destroyed.
LEMMA CatchCppKeeps ==
  ASSUME IInv, NEW t \in Threads, CatchCpp(t)
  PROVE  IInv'
<1> DEFINE o == thrown[t]
<1>1. o \in Objs /\ obj[o] # None
  BY ThrownType DEF CatchCpp, Throws
<1>2. /\ thrown' = [thrown EXCEPT ![t] = None]
      /\ UNCHANGED <<loadVars, envVars, stack, pending, kept, left, proxyVars, ended>>
  BY DEF CatchCpp
<1>3. /\ thrown' \in [Threads -> Objs \cup {None}] /\ thrown'[t] = None
      /\ \A u \in Threads \ {t} : thrown'[u] = thrown[u]
      /\ kept' \in Objs \cup {None} /\ left' \in SUBSET Errs
  BY <1>2 DEF IInv, TypeOK
<1> HIDE DEF o
<1>4. CASE Referred(t, o)
  <2>1. UNCHANGED <<obj, refs, leaked>>
    BY <1>4 DEF CatchCpp, o
  <2>2. Alive'
    BY <1>2, <1>3, <2>1 DEF IInv, Alive
  <2>3. Refs'
    BY <1>2, <2>1, KeepRefs DEF IInv
  <2> QED BY <1>2, <1>3, <2>1, <2>2, <2>3, CppExceptionKeeps DEF IInv, TypeOK
<1>5. CASE ~Referred(t, o)
  <2>1. Destroy(t, o)
    BY <1>5 DEF CatchCpp, o
  <2>2. /\ Refs' /\ refs' \in SUBSET (Proxies \cup Objs) /\ leaked' \in SUBSET Objs
        /\ obj' \in [Objs -> Thrown \cup {None}]
    BY <1>1, <1>2, <2>1, RefsDestroyed DEF Destroy
  <2>3. Alive'
    BY <1>2, <1>3, <1>5, <2>1 DEF IInv, Alive, Referred, Destroy, TypeOK
  <2> QED BY <1>2, <1>3, <2>2, <2>3, CppExceptionKeeps
<1> QED BY <1>4, <1>5

LEMMA ForgetCppKeeps ==
  ASSUME IInv, NEW t \in Threads, ForgetCpp(t)
  PROVE  IInv'
<1>1. kept \in Objs /\ obj[kept] # None
  BY DEF ForgetCpp, IInv, TypeOK, Alive
<1>2. /\ kept' = None
      /\ UNCHANGED <<loadVars, envVars, stack, pending, thrown, left, proxyVars, ended>>
  BY DEF ForgetCpp
<1>3. CASE \E u \in Threads : thrown[u] = kept
  <2>1. UNCHANGED <<obj, refs, leaked>>
    BY <1>3 DEF ForgetCpp
  <2>2. Alive'
    BY <1>2, <2>1 DEF IInv, Alive
  <2>3. Refs'
    BY <1>2, <2>1, KeepRefs DEF IInv
  <2> QED BY <1>2, <2>1, <2>2, <2>3, CppExceptionKeeps DEF IInv, TypeOK
<1>4. CASE ~\E u \in Threads : thrown[u] = kept
  <2>1. Destroy(t, kept)
    BY <1>4 DEF ForgetCpp
  <2>2. /\ Refs' /\ refs' \in SUBSET (Proxies \cup Objs) /\ leaked' \in SUBSET Objs
        /\ obj' \in [Objs -> Thrown \cup {None}]
    BY <1>1, <1>2, <2>1, RefsDestroyed DEF Destroy
  <2>3. Alive'
    BY <1>2, <1>4, <2>1 DEF IInv, Alive, Destroy, TypeOK
  <2> QED BY <1>2, <2>2, <2>3, CppExceptionKeeps DEF IInv, TypeOK
<1> QED BY <1>3, <1>4

\* A frame of t ends or goes on after a call: its stack and what it faces change.
LEMMA FrameKeeps ==
  ASSUME IInv, NEW t \in Threads, t # loader,
         UNCHANGED <<loadVars, envVars, left, kept, proxyVars, ended>>,
         StackIs(t, stack'[t]), Len(stack'[t]) <= Len(stack[t]), Alternates(t)', Faces(t)',
         pending' \in [Threads -> Errs \cup {None}], thrown' \in [Threads -> Objs \cup {None}],
         \A u \in Threads \ {t} : pending'[u] = pending[u] /\ thrown'[u] = thrown[u],
         obj' \in [Objs -> Thrown \cup {None}],
         refs' \in SUBSET (Proxies \cup Objs), leaked' \in SUBSET Objs, Alive', Refs'
  PROVE  IInv'
<1> USE DEF IInv
<1>1. TypeOK'
  BY DEF TypeOK, StackIs, loadVars, envVars, proxyVars
<1>2. Loading'
  <2>1. ASSUME NEW u \in Threads, Len(stack'[u]) > 1 PROVE Len(stack[u]) > 1
    <3>1. CASE u = t
      <4>1. Len(stack[t]) \in Nat /\ Len(stack'[t]) \in Nat
        BY DEF TypeOK, StackIs
      <4> QED BY <2>1, <3>1, <4>1
    <3>2. CASE u # t
      BY <2>1, <3>2 DEF StackIs
    <3> QED BY <3>1, <3>2
  <2> QED BY <2>1, KeepLoading
<1>3. Stacks'
  BY KeepStacks DEF StackIs
<1>4. LoaderWaits'
  BY KeepLoader DEF StackIs
<1> QED BY <1>1, <1>2, <1>3, <1>4

\* A call of Java that is over leaves its outcome to its C++ caller, and a
\* native method that is over leaves none to its Java caller.
LEMMA ReturnKeeps ==
  ASSUME IInv, NEW t \in Threads, ReturnNative(t) \/ ReturnJava(t)
  PROVE  IInv'
<1>1. /\ t # loader
      /\ ~Exited(t) /\ Alternates(t) /\ thrown[t] = None /\ pending[t] \in Errs \cup {None}
      /\ UNCHANGED <<loadVars, envVars, pending, thrown, obj, kept, left, proxyVars, refs, leaked, ended>>
  BY DEF ReturnNative, ReturnJava, Runs, IInv, Stacks, Faces, TypeOK, excVars
<1>2. /\ pending' \in [Threads -> Errs \cup {None}] /\ thrown' \in [Threads -> Objs \cup {None}]
      /\ \A u \in Threads \ {t} : pending'[u] = pending[u] /\ thrown'[u] = thrown[u]
      /\ obj' \in [Objs -> Thrown \cup {None}]
      /\ refs' \in SUBSET (Proxies \cup Objs) /\ leaked' \in SUBSET Objs
  BY <1>1 DEF IInv, TypeOK
<1>3. Alive' /\ Refs'
  BY <1>1, KeepAlive, KeepRefs DEF IInv
<1>4. Len(stack[t]) - 1 <= Len(stack[t])
  BY <1>1, TopType DEF IInv
<1>5. CASE ReturnNative(t)
  <2>1. pending[t] = None /\ Pop(t, "user", None)
    BY <1>5 DEF ReturnNative, Runs
  <2>2. /\ StackIs(t, stack'[t]) /\ Len(stack'[t]) = Len(stack[t]) - 1
        /\ Alternates(t)' /\ ~Exited(t)' /\ Top(t)'.stage = "user"
    BY <1>1, <2>1, Popped DEF IInv
  <2>3. Faces(t)'
    BY <1>1, <2>1, <2>2 DEF Faces
  <2> QED BY <1>1, <1>2, <1>3, <1>4, <2>2, <2>3, FrameKeeps
<1>6. CASE ReturnJava(t)
  <2>1. Top(t).lang = "java" /\ Pop(t, "back", pending[t])
    BY <1>6 DEF ReturnJava
  <2>2. /\ StackIs(t, stack'[t]) /\ Len(stack'[t]) = Len(stack[t]) - 1
        /\ Alternates(t)' /\ ~Exited(t)' /\ Top(t)'.stage = "back"
        /\ Top(t)'.lang = "cpp" /\ Top(t)'.outcome = pending[t]
    BY <1>1, <2>1, Popped DEF IInv
  <2>3. Faces(t)'
    BY <1>1, <2>2 DEF Faces
  <2> QED BY <1>1, <1>2, <1>3, <1>4, <2>2, <2>3, FrameKeeps
<1> QED BY <1>5, <1>6

\* What Java sees of the exception that leaves a native method: a jni_exception
\* has kept its throwable.
LEMMA Translated ==
  ASSUME IInv, NEW t \in Threads, Translate(t)
  PROVE  /\ thrown[t] \in Objs /\ obj[thrown[t]] # None /\ Pop(t, "user", None)
         /\ ~Exited(t) /\ Top(t).lang = "cpp" /\ Top(t).stage = "user"
         /\ pending' = [pending EXCEPT ![t] = obj[thrown[t]].err]
         /\ obj[thrown[t]].err \in Errs
<1> DEFINE o == thrown[t]
<1>1. o \in Objs /\ obj[o] # None /\ o # None
  BY ThrownType DEF Translate, Throws
<1>2. obj[o].kind = "jni" => o \in refs
  BY <1>1 DEF IInv, Refs, RefsBalanced, Owner
<1>3. pending' = [pending EXCEPT ![t] = obj[o].err]
  BY <1>2 DEF Translate, SetPending
<1>4. ~Exited(t) /\ Top(t).lang = "cpp" /\ Top(t).stage = "user"
  BY <1>1 DEF IInv, Stacks, Faces
<1>5. Pop(t, "user", None)
  BY DEF Translate
<1> QED BY <1>1, <1>3, <1>4, <1>5, ObjType DEF IInv

LEMMA TranslateKeeps ==
  ASSUME IInv, NEW t \in Threads, Translate(t)
  PROVE  IInv'
<1> DEFINE o == thrown[t]
<1>1. /\ o \in Objs /\ obj[o] # None /\ Pop(t, "user", None)
      /\ ~Exited(t) /\ Top(t).lang = "cpp" /\ Alternates(t) /\ t # loader
      /\ pending' = [pending EXCEPT ![t] = obj[o].err] /\ obj[o].err \in Errs
  BY Translated DEF IInv, Stacks, LoaderWaits
<1>2. /\ thrown' = [thrown EXCEPT ![t] = None]
      /\ obj' = IF Referred(t, o) THEN obj ELSE [obj EXCEPT ![o] = None]
      /\ IF obj[o].kind = "jni" /\ ~Referred(t, o) THEN DeleteGlobalRef(t, o)
                                                  ELSE UNCHANGED <<refs, leaked>>
      /\ UNCHANGED <<loadVars, envVars, kept, left, proxyVars, ended>>
  BY DEF Translate, SetPending
<1>3. /\ thrown' \in [Threads -> Objs \cup {None}] /\ thrown'[t] = None
      /\ \A u \in Threads \ {t} : thrown'[u] = thrown[u]
      /\ pending' \in [Threads -> Errs \cup {None}] /\ pending'[t] = obj[o].err
      /\ \A u \in Threads \ {t} : pending'[u] = pending[u]
  BY <1>1, <1>2 DEF IInv, TypeOK
<1> HIDE DEF o
<1>4. /\ StackIs(t, stack'[t]) /\ Len(stack'[t]) <= Len(stack[t])
      /\ Alternates(t)' /\ ~Exited(t)' /\ Top(t)'.stage = "user" /\ Top(t)'.lang = "java"
  <2>1. /\ StackIs(t, stack'[t]) /\ Len(stack'[t]) = Len(stack[t]) - 1
        /\ Alternates(t)' /\ ~Exited(t)' /\ Top(t)'.stage = "user"
        /\ Top(t)'.lang # Top(t).lang /\ Top(t)'.lang \in {"java", "cpp"}
    BY <1>1, Popped DEF IInv
  <2> QED BY <1>1, <2>1, TopType DEF IInv
<1>5. Faces(t)'
  BY <1>3, <1>4 DEF Faces
<1>6. CASE Referred(t, o)
  <2>1. UNCHANGED <<obj, refs, leaked>>
    BY <1>2, <1>6
  <2>2. Alive'
    BY <1>2, <1>3, <2>1 DEF IInv, Alive
  <2>3. Refs'
    BY <1>2, <2>1, KeepRefs DEF IInv
  <2> QED BY <1>1, <1>2, <1>3, <1>4, <1>5, <2>1, <2>2, <2>3, FrameKeeps DEF IInv, TypeOK
<1>7. CASE ~Referred(t, o)
  <2>1. /\ obj' = [obj EXCEPT ![o] = None]
        /\ IF obj[o].kind = "jni" THEN DeleteGlobalRef(t, o) ELSE UNCHANGED <<refs, leaked>>
    BY <1>2, <1>7
  <2>2. /\ Refs' /\ refs' \in SUBSET (Proxies \cup Objs) /\ leaked' \in SUBSET Objs
        /\ obj' \in [Objs -> Thrown \cup {None}]
    BY <1>1, <1>2, <2>1, RefsDestroyed
  <2>3. Alive'
    BY <1>2, <1>3, <1>7, <2>1 DEF IInv, Alive, Referred, TypeOK
  <2> QED BY <1>1, <1>2, <1>3, <1>4, <1>5, <2>2, <2>3, FrameKeeps
<1> QED BY <1>6, <1>7

\* A C++ caller that looks for an exception has the one its call ended with.
LEMMA LooksFor ==
  ASSUME IInv, NEW t \in Threads, Back(t), Resume(t)
  PROVE  /\ t # loader /\ Top(t).outcome = pending[t] /\ thrown[t] = None
         /\ StackIs(t, stack'[t]) /\ Len(stack'[t]) = Len(stack[t])
         /\ Alternates(t)' /\ ~Exited(t)'
         /\ Top(t)'.lang = "cpp" /\ Top(t)'.stage = "user"
<1>1. ~Exited(t) /\ Alternates(t) /\ t # loader
  BY DEF IInv, Stacks, Back, LoaderWaits
<1>2. Top(t).lang = "cpp" /\ Top(t).outcome = pending[t] /\ thrown[t] = None
  BY DEF IInv, Stacks, Faces, Back
<1> QED BY <1>1, <1>2, Resumed DEF IInv

LEMMA ThrowFromJavaKeeps ==
  ASSUME IInv, NEW t \in Threads, NEW o \in Objs, ThrowFromJava(t, o)
  PROVE  IInv'
<1> DEFINE x == [err |-> pending[t], kind |-> "jni"]
<1>1. /\ t # loader /\ StackIs(t, stack'[t]) /\ Len(stack'[t]) <= Len(stack[t])
      /\ Alternates(t)' /\ ~Exited(t)' /\ Top(t)'.lang = "cpp" /\ Top(t)'.stage = "user"
  <2>1. Back(t) /\ Resume(t)
    BY DEF ThrowFromJava
  <2>2. Len(stack[t]) <= Len(stack[t])
    BY <2>1, TopType DEF Back, IInv
  <2> QED BY <2>1, <2>2, LooksFor
<1>2. /\ Fresh(o) /\ obj' = [obj EXCEPT ![o] = x] /\ refs' = refs \cup {o}
      /\ thrown' = [thrown EXCEPT ![t] = o] /\ pending' = [pending EXCEPT ![t] = None]
      /\ UNCHANGED <<loadVars, envVars, kept, left, proxyVars, leaked, ended>>
  BY DEF ThrowFromJava, ExceptionClear
<1>3. x \in Thrown /\ x.kind = "jni"
  BY DEF ThrowFromJava, IInv, TypeOK, Thrown
<1> HIDE DEF x
<1>4. /\ Refs' /\ refs' \in SUBSET (Proxies \cup Objs) /\ leaked' \in SUBSET Objs
      /\ obj' \in [Objs -> Thrown \cup {None}] /\ obj'[o] = x /\ x # None
      /\ \A q \in Objs \ {o} : obj'[q] = obj[q]
  BY <1>2, <1>3, RefsMade
<1>5. /\ thrown' \in [Threads -> Objs \cup {None}] /\ thrown'[t] = o
      /\ pending' \in [Threads -> Errs \cup {None}] /\ pending'[t] = None
      /\ \A u \in Threads \ {t} : pending'[u] = pending[u] /\ thrown'[u] = thrown[u]
  BY <1>2 DEF IInv, TypeOK
<1>6. Faces(t)'
  BY <1>1, <1>5 DEF Faces
<1>7. Alive'
  BY <1>2, <1>4, <1>5 DEF IInv, Alive, TypeOK
<1> QED BY <1>1, <1>2, <1>4, <1>5, <1>6, <1>7, FrameKeeps

LEMMA ResultFromJavaKeeps ==
  ASSUME IInv, NEW t \in Threads, ResultFromJava(t)
  PROVE  IInv'
<1>1. /\ t # loader /\ StackIs(t, stack'[t]) /\ Len(stack'[t]) <= Len(stack[t])
      /\ thrown[t] = None
      /\ Alternates(t)' /\ ~Exited(t)' /\ Top(t)'.lang = "cpp" /\ Top(t)'.stage = "user"
  <2>1. Back(t) /\ Resume(t)
    BY DEF ResultFromJava
  <2>2. Len(stack[t]) <= Len(stack[t])
    BY <2>1, TopType DEF Back, IInv
  <2> QED BY <2>1, <2>2, LooksFor
<1>2. /\ pending[t] = None
      /\ UNCHANGED <<loadVars, envVars, pending, thrown, obj, kept, left, proxyVars, refs, leaked, ended>>
  BY DEF ResultFromJava, excVars
<1>3. Faces(t)'
  BY <1>1, <1>2 DEF Faces
<1>4. Alive' /\ Refs'
  BY <1>2, KeepAlive, KeepRefs DEF IInv
<1>5. /\ pending' \in [Threads -> Errs \cup {None}] /\ thrown' \in [Threads -> Objs \cup {None}]
      /\ \A u \in Threads \ {t} : pending'[u] = pending[u] /\ thrown'[u] = thrown[u]
      /\ obj' \in [Objs -> Thrown \cup {None}]
      /\ refs' \in SUBSET (Proxies \cup Objs) /\ leaked' \in SUBSET Objs
  BY <1>2 DEF IInv, TypeOK
<1> QED BY <1>1, <1>2, <1>3, <1>4, <1>5, FrameKeeps

LEMMA StutterKeeps ==
  ASSUME IInv, UNCHANGED vars
  PROVE  IInv'
<1> USE DEF IInv, vars
<1>1. TypeOK'
  BY DEF TypeOK
<1>2. Loading'
  BY DEF Loading, Held
<1>3. Stacks'
  BY DEF Stacks, Alternates, Faces, Exited, Top
<1>4. Alive' /\ Refs'
  BY KeepAlive, KeepRefs DEF proxyVars
<1>5. LoaderWaits'
  BY KeepLoader DEF loadVars
<1> QED BY <1>1, <1>2, <1>3, <1>4, <1>5

LEMMA NextKeeps ==
  ASSUME IInv, [Next]_vars
  PROVE  IInv'
<1>1. CASE Unload
  BY <1>1, UnloadKeeps
<1>2. ASSUME NEW t \in Threads, Library(t) PROVE IInv'
  <2>1. CASE Load(t) \/ Initialize(t) \/ Loaded(t) \/ Exit(t)
    BY <2>1, LoadKeeps, ExitKeeps
  <2>5. CASE FindClassChecked(t) \/ \E e \in Errs : InitFails(t, e) \/ FindClassFails(t, e)
    BY <2>5, LoadFailKeeps
  <2>2. CASE CallNative(t) \/ CallJava(t)
    BY <2>2, CallNativeKeeps, CallJavaKeeps
  <2>3. CASE \/ FindClassAborts(t) \/ ExitFails(t) \/ CallAborts(t)
             \/ \E p \in Proxies : DropAborts(t, p)
    BY <2>3, EndKeeps DEF FindClassAborts, ExitFails, CallAborts, DropAborts
  <2>4. ASSUME NEW p \in Proxies, Receive(t, p) \/ Share(t, p) \/ Borrow(t, p) \/ Drop(t, p)
        PROVE  IInv'
    BY <2>4, ProxyKeeps, DropKeeps
  <2> QED BY <1>2, <2>1, <2>2, <2>3, <2>4, <2>5 DEF Library
<1>3. ASSUME NEW t \in Threads, Exceptions(t) PROVE IInv'
  <2>1. CASE CatchJava(t) \/ \E e \in Errs : RaiseJava(t, e)
    BY <2>1, JavaExceptionKeeps
  <2>2. CASE \E e \in Errs, o \in Objs, k \in {"std", "other"} : ThrowCpp(t, e, o, k)
    BY <2>2, ThrowCppKeeps
  <2>3. CASE CatchCpp(t) \/ KeepCpp(t) \/ RethrowCpp(t) \/ ForgetCpp(t)
    BY <2>3, CatchCppKeeps, KeepOrRethrowKeeps, ForgetCppKeeps
  <2>4. CASE ReturnNative(t) \/ ReturnJava(t) \/ Translate(t)
    BY <2>4, ReturnKeeps, TranslateKeeps
  <2>5. CASE Terminate(t)
    BY <2>5, EndKeeps DEF Terminate
  <2>6. CASE ResultFromJava(t) \/ \E o \in Objs : ThrowFromJava(t, o)
    BY <2>6, ResultFromJavaKeeps, ThrowFromJavaKeeps
  <2> QED BY <1>3, <2>1, <2>2, <2>3, <2>4, <2>5, <2>6 DEF Exceptions
<1>4. CASE UNCHANGED vars
  BY <1>4, StutterKeeps
<1> QED BY <1>1, <1>2, <1>3, <1>4 DEF Next

THEOREM Invariance == Spec => []IInv
<1>1. Init => IInv
  BY InitInv
<1>2. IInv /\ [Next]_vars => IInv'
  BY NextKeeps
<1> QED BY <1>1, <1>2, PTL DEF Spec

\* Every variable has its type: no action stores a wrong kind of value.
THEOREM TypeCorrect == Spec => []TypeOK
<1>1. IInv => TypeOK
  BY DEF IInv
<1> QED BY <1>1, Invariance, PTL

\* Native code that Java called, directly or below other calls, runs only in a
\* library all of whose initializers have run, and with its JVM.
THEOREM ReadyBeforeUse == Spec => []InitBeforeUse
<1>1. IInv => InitBeforeUse
  BY DEF IInv, Loading, InitBeforeUse
<1> QED BY <1>1, Invariance, PTL

\* C++ code calls into the JVM with an exception pending in one place only,
\* jniFindClass()'s NewGlobalRef() for an initializer that fails: whatever calls
\* and exceptions are nested, Java propagates the one that is pending, or the C++
\* caller that finds it has called nothing since.
THEOREM NonePending == Spec => []NoCallPending
<1>1. IInv => NoCallPending
  BY DEF IInv, Stacks, Faces, LoaderWaits, NoCallPending
<1> QED BY <1>1, Invariance, PTL

\* Global references and their C++ owners go together.
THEOREM RefsKept == Spec => []RefsBalanced
<1>1. IInv => RefsBalanced
  BY DEF IInv, Refs
<1> QED BY <1>1, Invariance, PTL

-----------------------------------------------------------------------------
(* Exceptions arrive.                                                      *)

LEMMA StackKept ==
  ASSUME NEW u \in Threads, stack'[u] = stack[u]
  PROVE  ArrivesAt(u)
BY DEF ArrivesAt, Ends

\* A thread begins a frame or exits.
LEMMA EnterArrives ==
  ASSUME IInv, NEW t \in Threads, Exit(t) \/ CallNative(t) \/ CallJava(t)
  PROVE  \A u \in Threads : ArrivesAt(u)
<1>1. ~Exited(t) /\ Top(t).stage = "user" /\ Alternates(t)
  BY DEF Exit, CallNative, CallJava, Runs, IInv, Stacks
<1>2. \A u \in Threads \ {t} : stack'[u] = stack[u]
  BY DEF Exit, CallNative, CallJava, Push, IInv, TypeOK
<1>3. ~Ends(t)
  <2>1. CASE Exit(t)
    <3>1. Len(stack'[t]) = 0
      BY <2>1 DEF Exit, IInv, TypeOK
    <3> QED BY <3>1 DEF Ends
  <2>2. CASE CallNative(t) \/ CallJava(t)
    <3>1. PICK l \in {"java", "cpp"} : Push(t, l) /\ Top(t).lang # l
      BY <2>2 DEF CallNative, CallJava, Runs
    <3>2. Len(stack'[t]) = Len(stack[t]) + 1
      BY <1>1, <3>1, Pushed DEF IInv
    <3>3. Len(stack[t]) \in Nat
      BY <1>1, TopType DEF IInv
    <3> QED BY <3>2, <3>3 DEF Ends
  <2> QED BY <2>1, <2>2
<1>4. ArrivesAt(t)
  BY <1>1, <1>3 DEF ArrivesAt
<1> QED BY <1>2, <1>4, StackKept

\* A native method ends: Java faces what it threw.
LEMMA NativeArrives ==
  ASSUME IInv, NEW t \in Threads, ReturnNative(t) \/ Translate(t)
  PROVE  \A u \in Threads : ArrivesAt(u)
<1>1. \A u \in Threads \ {t} : stack'[u] = stack[u]
  BY DEF ReturnNative, Translate, Pop, IInv, TypeOK
<1>2. Top(t).stage = "user" /\ Top(t).lang = "cpp" /\ pending'[t] = Flight(t)
  <2>1. CASE ReturnNative(t)
    BY <2>1 DEF ReturnNative, Runs, Flight, excVars
  <2>2. CASE Translate(t)
    BY <2>2, Translated, ThrownType DEF Flight, IInv, TypeOK, Translate, Throws
  <2> QED BY <2>1, <2>2
<1>3. ArrivesAt(t)
  BY <1>2 DEF ArrivesAt
<1> QED BY <1>1, <1>3, StackKept

\* A Java method ends, and its C++ caller looks for an exception: it throws what
\* the method ended with, if anything.
LEMMA JavaArrives ==
  ASSUME IInv, NEW t \in Threads,
         ReturnJava(t) \/ ResultFromJava(t) \/ \E o \in Objs : ThrowFromJava(t, o)
  PROVE  \A u \in Threads : ArrivesAt(u)
<1>1. \A u \in Threads \ {t} : stack'[u] = stack[u]
  BY DEF ReturnJava, ResultFromJava, ThrowFromJava, Pop, Resume, IInv, TypeOK
<1>2. CASE ReturnJava(t)
  <2>1. Top(t).lang = "java" /\ Top(t).stage = "user"
    BY <1>2 DEF ReturnJava
  <2>2. ArrivesAt(t)
    BY <2>1 DEF ArrivesAt
  <2> QED BY <1>1, <2>2, StackKept
<1>3. CASE ResultFromJava(t) \/ \E o \in Objs : ThrowFromJava(t, o)
  <2>1. Back(t) /\ Resume(t)
    BY <1>3 DEF ResultFromJava, ThrowFromJava
  <2>2. /\ Top(t).outcome = pending[t] /\ thrown[t] = None /\ Top(t)'.lang = "cpp"
        /\ Len(stack'[t]) = Len(stack[t])
    BY <2>1, LooksFor
  <2>3. Flight(t)' = pending[t]
    <3>1. CASE ResultFromJava(t)
      BY <2>2, <3>1 DEF ResultFromJava, Flight, excVars
    <3>2. ASSUME NEW o \in Objs, ThrowFromJava(t, o) PROVE Flight(t)' = pending[t]
      <4>1. thrown'[t] = o /\ obj'[o].err = pending[t]
        BY <3>2 DEF ThrowFromJava, IInv, TypeOK
      <4>2. o # None
        BY RuntimeAssumption
      <4> QED BY <2>2, <4>1, <4>2 DEF Flight
    <3> QED BY <1>3, <3>1, <3>2
  <2>4. ~Ends(t)
    BY <2>2 DEF Ends
  <2>5. ArrivesAt(t)
    BY <2>2, <2>3, <2>4 DEF ArrivesAt
  <2> QED BY <1>1, <2>5, StackKept
<1> QED BY <1>2, <1>3

LEMMA NextArrives ==
  ASSUME IInv, [Next]_vars
  PROVE  \A t \in Threads : ArrivesAt(t)
<1>1. CASE UNCHANGED stack
  BY <1>1, StackKept
<1>2. CASE ~UNCHANGED stack
  <2>1. PICK t \in Threads : Library(t) \/ Exceptions(t)
    BY <1>2 DEF Next, Unload, vars
  <2>2. CASE Library(t)
    <3>1. Exit(t) \/ CallNative(t) \/ CallJava(t)
      BY <1>2, <2>2 DEF Library, Load, Initialize, Loaded, InitFails, FindClassFails,
                        FindClassChecked, FindClassAborts, GiveUp, ExitFails, CallAborts,
                        Receive, Share, Borrow, Drop, DropAborts, End
    <3> QED BY <3>1, EnterArrives
  <2>3. CASE Exceptions(t)
    <3>1. \/ ReturnNative(t) \/ Translate(t) \/ ReturnJava(t) \/ ResultFromJava(t)
          \/ \E o \in Objs : ThrowFromJava(t, o)
      BY <1>2, <2>3 DEF Exceptions, RaiseJava, ThrowCpp, CatchJava, CatchCpp, KeepCpp,
                        RethrowCpp, ForgetCpp, Terminate, End
    <3> QED BY <3>1, NativeArrives, JavaArrives
  <2> QED BY <2>1, <2>2, <2>3
<1> QED BY <1>1, <1>2

\* Whatever a callee ends with is what its caller faces, in either direction and
\* at any depth: exceptions are neither lost, nor swapped, nor made up.
THEOREM Arrival == Spec => ExceptionArrives
<1>1. IInv /\ [Next]_vars => [\A t \in Threads : ArrivesAt(t)]_vars
  BY NextArrives
<1> QED BY <1>1, Invariance, PTL DEF Spec, ExceptionArrives

=============================================================================
