--------------------------- MODULE IdlFrontProofs ---------------------------
(***************************************************************************)
(* Proofs about IdlParser and IdlFront.                                    *)
(***************************************************************************)
EXTENDS IdlFront, TLAPS

(***************************************************************************)
(* The walk through the imports.  The files on the stack are visited and   *)
(* different, each is the import at which the one below it stands, and the *)
(* imports that a file has behind it have been left.                       *)
(***************************************************************************)
ListedVisited == \A n \in 1..Len(inFiles) : inFiles[n] \in visited

StackVisited == \A n \in 1..Depth : stack[n].path \in visited

StackDistinct == \A m, n \in 1..Depth : stack[m].path = stack[n].path => m = n

StackChained ==
    \A n \in 1..(Depth - 1) :
        /\ stack[n].next <= Len(ImportsOf(stack[n].path))
        /\ stack[n + 1].path = Import(stack[n].path, stack[n].next)

BehindLeft ==
    \A n \in 1..Depth : \A k \in 1..Len(ImportsOf(stack[n].path)) :
        k < stack[n].next => Left(Import(stack[n].path, k))

Phases ==
    /\ outcome = "new" => stack = <<>> /\ visited = {}
    /\ outcome = "running" => Depth > 0
    /\ outcome = "parsed" => stack = <<>> /\ idl # <<>>

ParserInv ==
    /\ ParserTypeOK
    /\ imports \in Projects
    /\ ListedVisited /\ ReadOnce
    /\ Phases
    /\ outcome \notin Failures =>
          StackVisited /\ StackDistinct /\ StackChained /\ BehindLeft /\ ImportsLeftFirst

\* The n-th import of a file is a path, and a YAML file has none.
LEMMA ImportTypes ==
    ASSUME imports \in Projects, NEW p \in Paths
    PROVE  /\ ImportsOf(p) \in Seq(Refs)
           /\ \A n \in 1..Len(ImportsOf(p)) : Import(p, n) \in Paths
           /\ FileOf[p] \in Externs => Len(ImportsOf(p)) = 0
<1>1. ImportsOf(p) \in Seq(Refs)
  BY FilesAssumption, ProjectsAssumption DEF ImportsOf
<1>2. ASSUME NEW n \in 1..Len(ImportsOf(p)) PROVE Import(p, n) \in Paths
  BY <1>1, NormalAssumption DEF Import
<1>3. FileOf[p] \in Externs => Len(ImportsOf(p)) = 0
  BY FilesAssumption, ProjectsAssumption DEF ImportsOf
<1> QED BY <1>1, <1>2, <1>3

\* Advancing touches the next import of the last frame only.
LEMMA AdvanceFacts ==
    ASSUME NEW s \in Seq(Frames), Len(s) > 0, NEW types \in Seq(Found)
    PROVE  /\ Advance(s, types) \in Seq(Frames)
           /\ Len(Advance(s, types)) = Len(s)
           /\ \A n \in 1..Len(s) :
                 /\ Advance(s, types)[n].path = s[n].path
                 /\ Advance(s, types)[n].next
                       = IF n = Len(s) THEN s[n].next + 1 ELSE s[n].next
<1> DEFINE top == s[Len(s)]
           new == [path |-> top.path, next |-> top.next + 1, types |-> types \o top.types]
<1>1. top \in Frames
  OBVIOUS
<1>3. types \o top.types \in Seq(Found) /\ types \o top.types # <<>>
  BY <1>1 DEF Frames
<1>4. new \in Frames
  BY <1>1, <1>3 DEF Frames
<1>5. Advance(s, types) = [s EXCEPT ![Len(s)] = new]
  BY DEF Advance
<1>6. new.path = top.path /\ new.next = top.next + 1
  OBVIOUS
<1> HIDE DEF new
<1> QED BY <1>4, <1>5, <1>6

\* The stack with one frame more.
LEMMA PushFacts ==
    ASSUME NEW s \in Seq(Frames), NEW f \in Frames
    PROVE  /\ Append(s, f) \in Seq(Frames)
           /\ Len(Append(s, f)) = Len(s) + 1
           /\ \A n \in 1..Len(s) : Append(s, f)[n] = s[n]
           /\ Append(s, f)[Len(s) + 1] = f
OBVIOUS

\* The stack without its last frame.
LEMMA PopFacts ==
    ASSUME NEW s \in Seq(Frames), Len(s) > 1
    PROVE  /\ SubSeq(s, 1, Len(s) - 1) \in Seq(Frames)
           /\ Len(SubSeq(s, 1, Len(s) - 1)) = Len(s) - 1
           /\ \A n \in 1..(Len(s) - 1) : SubSeq(s, 1, Len(s) - 1)[n] = s[n]
OBVIOUS

-----------------------------------------------------------------------------
LEMMA ParserInvInit == ParserInit => ParserInv
BY ProjectsAssumption
   DEF ParserInit, ParserInv, ParserTypeOK, ListedVisited, ReadOnce, Phases, Failures,
       StackVisited, StackDistinct, StackChained, BehindLeft, ImportsLeftFirst, Left,
       Depth, Frames

\* A file that was not visited is listed for the first time.
LEMMA VisitOnce ==
    ASSUME ParserInv, NEW p \in Paths, p \notin visited, Visit(p)
    PROVE  /\ visited' \in SUBSET Paths /\ inFiles' \in Seq(Paths)
           /\ ListedVisited' /\ ReadOnce'
<1> USE DEF ParserInv, ParserTypeOK, Visit
<1>1. visited' \in SUBSET Paths /\ inFiles' \in Seq(Paths)
  OBVIOUS
<1>2. /\ Len(inFiles') = Len(inFiles) + 1
      /\ \A n \in 1..Len(inFiles') :
            inFiles'[n] = IF n <= Len(inFiles) THEN inFiles[n] ELSE p
  OBVIOUS
<1>3. ListedVisited'
  BY <1>2 DEF ListedVisited
<1>4. ReadOnce'
  BY <1>2 DEF ListedVisited, ReadOnce
<1> QED BY <1>1, <1>3, <1>4

\* Pushing a file that was not visited.
LEMMA EnterInv ==
    ASSUME ParserInv, NEW p \in Paths, p \notin visited, Enter(p), UNCHANGED imports,
           outcome \in {"new", "running"},
           outcome = "running" => At(p)
    PROVE  ParserInv'
<1> USE DEF ParserInv, ParserTypeOK
<1>1. Visit(p)
  BY DEF Enter
<1>2. /\ visited' \in SUBSET Paths /\ inFiles' \in Seq(Paths)
      /\ ListedVisited' /\ ReadOnce'
  BY <1>1, VisitOnce
<1>3. CASE outcome' \in Failures /\ UNCHANGED <<stack, idl>>
  BY <1>2, <1>3 DEF Failures, Phases
<1>4. CASE /\ FileOf[p] # None
           /\ stack' = Append(stack, [path |-> p, next |-> 1, types |-> <<p>>])
           /\ outcome' = "running"
           /\ UNCHANGED idl
  <2> DEFINE frame == [path |-> p, next |-> 1, types |-> <<p>>]
  <2>1. frame \in Frames /\ frame.path = p /\ frame.next = 1
    BY <1>4 DEF Frames, Found
  <2> HIDE DEF frame
  <2>2. /\ stack' \in Seq(Frames) /\ Depth' = Depth + 1
        /\ \A n \in 1..Depth : stack'[n] = stack[n]
        /\ stack'[Depth + 1] = frame
    <3>1. stack' = Append(stack, frame)
      BY <1>4 DEF frame
    <3>2. stack \in Seq(Frames)
      OBVIOUS
    <3> QED BY <2>1, <3>1, <3>2, PushFacts DEF Depth
  <2>8. /\ Depth \in Nat
        /\ \A n \in 1..Depth : stack[n] \in Frames /\ stack[n].path \in Paths
    <3>1. stack \in Seq(Frames)
      OBVIOUS
    <3>2. \A f \in Frames : f.path \in Paths
      BY DEF Frames, Found
    <3> QED BY <3>1, <3>2 DEF Depth
  <2>3. outcome \notin Failures /\ StackVisited /\ StackDistinct /\ StackChained
        /\ BehindLeft /\ ImportsLeftFirst
    BY DEF Failures
  <2>4. visited' = visited \cup {p}
    BY <1>1 DEF Visit
  <2>5. \A q : OnStack(q)' <=> OnStack(q) \/ q = p
    <3> SUFFICES ASSUME NEW q PROVE OnStack(q)' <=> OnStack(q) \/ q = p
      OBVIOUS
    <3>1. Depth \in Nat /\ Depth + 1 \in 1..Depth'
      BY <2>2, <2>8 DEF Depth
    <3>2. OnStack(q)' <=> \E n \in 1..(Depth + 1) : stack'[n].path = q
      BY <2>2 DEF OnStack
    <3>3. 1..(Depth + 1) = (1..Depth) \cup {Depth + 1}
      BY <3>1
    <3>4. /\ \A n \in 1..Depth : stack'[n].path = stack[n].path
          /\ stack'[Depth + 1].path = p
      BY <2>1, <2>2
    <3> HIDE DEF ParserInv, ParserTypeOK
    <3> QED BY Zenon, <3>2, <3>3, <3>4 DEF OnStack
  <2>6. \A q : Left(q)' <=> Left(q)
    BY <2>3, <2>4, <2>5 DEF Left, StackVisited, OnStack
  <2>7. \A q \in Paths : /\ ImportsOf(q)' = ImportsOf(q)
                         /\ \A n : Import(q, n)' = Import(q, n)
    BY DEF ImportsOf, Import
  <2>9. StackVisited'
    BY <2>1, <2>2, <2>3, <2>4, <2>8 DEF StackVisited
  <2>10. StackDistinct'
    <3>1. \A n \in 1..Depth : stack'[n].path = stack[n].path /\ stack[n].path # p
      BY <2>2, <2>3 DEF StackVisited
    <3>2. stack'[Depth + 1].path = p
      BY <2>1, <2>2
    <3>3. \A n \in 1..Depth' : n \in 1..Depth \/ n = Depth + 1
      BY <2>2, <2>8
    <3> HIDE DEF ParserInv, ParserTypeOK
    <3> QED BY <2>2, <2>3, <3>1, <3>2, <3>3 DEF StackDistinct
  <2>11. StackChained'
    <3> SUFFICES ASSUME NEW n \in 1..(Depth' - 1)
                 PROVE  (/\ stack[n].next <= Len(ImportsOf(stack[n].path))
                         /\ stack[n + 1].path = Import(stack[n].path, stack[n].next))'
      BY DEF StackChained
    <3>1. n \in 1..Depth /\ stack'[n] = stack[n] /\ stack[n].path \in Paths
      BY <2>2, <2>8
    <3>2. CASE n < Depth
      <4>1. n + 1 \in 1..Depth /\ n \in 1..(Depth - 1)
        BY <3>2 DEF Depth
      <4> QED BY <2>2, <2>3, <2>7, <3>1, <4>1 DEF StackChained
    <3>3. CASE n = Depth
      <4>1. outcome = "running"
        BY <3>1, <3>3 DEF Phases, Depth
      <4>2. Top.next <= Len(ImportsOf(Top.path)) /\ p = Import(Top.path, Top.next)
        BY <4>1 DEF At
      <4> QED BY <2>1, <2>2, <2>7, <3>1, <3>3, <4>2 DEF Top
    <3> QED BY <3>1, <3>2, <3>3 DEF Depth
  <2>12. BehindLeft'
    <3> SUFFICES ASSUME NEW n \in 1..Depth',
                        NEW k \in (1..Len(ImportsOf(stack[n].path)))',
                        k < stack'[n].next
                 PROVE  Left(Import(stack[n].path, k))'
      BY DEF BehindLeft
    <3>1. n \in 1..Depth
      BY <2>1, <2>2 DEF Depth
    <3>2. stack'[n] = stack[n] /\ stack[n].path \in Paths
      BY <2>2, <2>8, <3>1
    <3>3. k \in 1..Len(ImportsOf(stack[n].path)) /\ k < stack[n].next
      BY <2>7, <3>2
    <3>4. Left(Import(stack[n].path, k))
      BY <2>3, <3>1, <3>3 DEF BehindLeft
    <3> QED BY <2>6, <2>7, <3>2, <3>4
  <2>13. ImportsLeftFirst'
    BY <2>3, <2>6, <2>7 DEF ImportsLeftFirst
  <2>14. Phases'
    BY <1>4, <2>2 DEF Phases, Depth
  <2> QED BY <1>2, <1>4, <2>2, <2>9, <2>10, <2>11, <2>12, <2>13, <2>14
<1> QED BY <1>3, <1>4 DEF Enter, Fail, Failures

\* Some frames stay, the last of them goes on, and the import at which it stood
\* has been left.
LEMMA AdvanceInv ==
    ASSUME ParserInv, outcome = "running", NEW s \in Seq(Frames), NEW types \in Seq(Found),
           Len(s) \in 1..Depth, \A n \in 1..Len(s) : s[n] = stack[n],
           s[Len(s)].next <= Len(ImportsOf(s[Len(s)].path)),
           stack' = Advance(s, types),
           visited \subseteq visited',
           NEW p \in Paths, p = Import(s[Len(s)].path, s[Len(s)].next), Left(p)',
           \A q \in Paths : Left(q) => Left(q)',
           \A q \in Paths : Left(q)' =>
               Left(q) \/ \A n \in 1..Len(ImportsOf(q)) : Left(Import(q, n))',
           UNCHANGED <<imports, outcome, idl>>
    PROVE  /\ stack' \in Seq(Frames)
           /\ Phases'
           /\ StackVisited' /\ StackDistinct' /\ StackChained' /\ BehindLeft' /\ ImportsLeftFirst'
<1> DEFINE L == Len(s)
<1>1. /\ stack' \in Seq(Frames) /\ Depth' = L
      /\ \A n \in 1..L : /\ stack'[n].path = stack[n].path
                         /\ stack'[n].next = IF n = L THEN stack[n].next + 1 ELSE stack[n].next
  BY AdvanceFacts DEF Depth
<1>2. /\ StackVisited /\ StackDistinct /\ StackChained /\ BehindLeft /\ ImportsLeftFirst
      /\ stack \in Seq(Frames) /\ imports \in Projects
  BY DEF ParserInv, ParserTypeOK, Failures
<1>3. /\ Depth \in Nat /\ L \in 1..Depth
      /\ \A n \in 1..Depth : stack[n].path \in Paths /\ stack[n].next \in Nat
  <2>1. \A n \in 1..Depth : stack[n] \in Frames
    BY <1>2 DEF Depth
  <2>2. \A f \in Frames : f.path \in Paths /\ f.next \in Nat
    BY DEF Frames, Found
  <2> QED BY <1>2, <2>1, <2>2 DEF Depth
<1>4. \A q \in Paths : /\ ImportsOf(q)' = ImportsOf(q)
                       /\ ImportsOf(q) \in Seq(Refs)
                       /\ \A n \in 1..Len(ImportsOf(q)) :
                             Import(q, n)' = Import(q, n) /\ Import(q, n) \in Paths
  BY <1>2, ImportTypes DEF ImportsOf, Import
<1> HIDE DEF L
<1>5. Phases'
  BY <1>1, <1>3 DEF Phases, Depth
<1>6. StackVisited'
  <2>1. \A n \in 1..L : n \in 1..Depth
    BY <1>3
  <2> QED BY <1>1, <1>2, <2>1 DEF StackVisited
<1>7. StackDistinct'
  BY <1>1, <1>2, <1>3 DEF StackDistinct
<1>8. StackChained'
  <2> SUFFICES ASSUME NEW n \in 1..(Depth' - 1)
               PROVE  (/\ stack[n].next <= Len(ImportsOf(stack[n].path))
                       /\ stack[n + 1].path = Import(stack[n].path, stack[n].next))'
    BY DEF StackChained
  <2>1. n \in 1..(Depth - 1) /\ n \in 1..Depth /\ n \in 1..L /\ n + 1 \in 1..L /\ n # L
    BY <1>1, <1>3
  <2>2. /\ stack'[n].path = stack[n].path /\ stack'[n].next = stack[n].next
        /\ stack'[n + 1].path = stack[n + 1].path
    BY <1>1, <2>1
  <2>3. /\ stack[n].next <= Len(ImportsOf(stack[n].path))
        /\ stack[n + 1].path = Import(stack[n].path, stack[n].next)
    BY <1>2, <2>1 DEF StackChained
  <2>4. ImportsOf(stack[n].path)' = ImportsOf(stack[n].path)
    BY <1>3, <2>1, <2>2 DEF ImportsOf
  <2>5. Import(stack[n].path, stack[n].next)' = Import(stack[n].path, stack[n].next)
    BY <2>2, <2>4 DEF Import
  <2> QED BY <2>2, <2>3, <2>4, <2>5
<1>9. BehindLeft'
  <2> SUFFICES ASSUME NEW n \in 1..Depth', NEW k \in (1..Len(ImportsOf(stack[n].path)))',
                      k < stack'[n].next
               PROVE  Left(Import(stack[n].path, k))'
    BY DEF BehindLeft
  <2>1. n \in 1..L /\ n \in 1..Depth /\ stack'[n].path = stack[n].path
    BY <1>1, <1>3
  <2>2. ImportsOf(stack[n].path)' = ImportsOf(stack[n].path)
    BY <2>1 DEF ImportsOf
  <2>3. /\ k \in 1..Len(ImportsOf(stack[n].path))
        /\ Import(stack[n].path, k)' = Import(stack[n].path, k)
        /\ Import(stack[n].path, k) \in Paths
    BY <1>3, <1>4, <2>1, <2>2 DEF Import
  <2>4. CASE k < stack[n].next
    BY <1>2, <2>1, <2>3, <2>4 DEF BehindLeft
  <2>5. CASE n = L /\ k = stack[n].next
    <3>1. p = Import(stack[n].path, k)
      BY <2>1, <2>5 DEF L
    <3> QED BY <2>3, <3>1
  <2>6. k < stack[n].next \/ (n = L /\ k = stack[n].next)
    BY <1>1, <1>3, <2>1, <2>3
  <2> QED BY <2>4, <2>5, <2>6
<1>10. ImportsLeftFirst'
  <2> SUFFICES ASSUME NEW q \in Paths, Left(q)', NEW n \in (1..Len(ImportsOf(q)))'
               PROVE  Left(Import(q, n))'
    BY DEF ImportsLeftFirst
  <2>1. n \in 1..Len(ImportsOf(q)) /\ Import(q, n)' = Import(q, n) /\ Import(q, n) \in Paths
    BY <1>4
  <2>2. CASE Left(q)
    BY <1>2, <2>1, <2>2 DEF ImportsLeftFirst, Failures
  <2>3. CASE \A m \in 1..Len(ImportsOf(q)) : Left(Import(q, m))'
    BY <2>1, <2>3
  <2> QED BY <2>2, <2>3
<1> QED BY <1>1, <1>5, <1>6, <1>7, <1>8, <1>9, <1>10

-----------------------------------------------------------------------------
\* What holds while parsing goes on.
LEMMA RunningFacts ==
    ASSUME ParserInv, outcome = "running"
    PROVE  /\ StackVisited /\ StackDistinct /\ StackChained /\ BehindLeft /\ ImportsLeftFirst
           /\ stack \in Seq(Frames) /\ Depth \in Nat /\ Depth > 0
           /\ \A n \in 1..Depth : stack[n] \in Frames /\ stack[n].path \in Paths
           /\ Top = stack[Depth] /\ Top.next \in Nat \ {0} /\ Top.types \in Seq(Found)
<1>1. /\ StackVisited /\ StackDistinct /\ StackChained /\ BehindLeft /\ ImportsLeftFirst
      /\ stack \in Seq(Frames) /\ Depth > 0
  BY DEF ParserInv, ParserTypeOK, Failures, Phases
<1>2. \A f \in Frames : f.path \in Paths /\ f.next \in Nat \ {0} /\ f.types \in Seq(Found)
  BY DEF Frames, Found
<1>3. Depth \in Nat /\ \A n \in 1..Depth : stack[n] \in Frames
  BY <1>1 DEF Depth
<1> QED BY <1>1, <1>2, <1>3 DEF Top

LEMMA StartInv == ParserInv /\ Start => ParserInv'
BY EnterInv, FilesAssumption DEF Start, ParserInv, Phases

LEMMA CircularInv ==
    ASSUME ParserInv, NEW p \in Paths, ImportCircular(p)
    PROVE  ParserInv'
BY DEF ParserInv, ParserTypeOK, ImportCircular, Fail, Failures, ListedVisited, ReadOnce, Phases

LEMMA VisitedInv ==
    ASSUME ParserInv, NEW p \in Paths, ImportVisited(p)
    PROVE  ParserInv'
<1> USE DEF ParserInv, ParserTypeOK
<1>1. /\ outcome = "running" /\ Top.next <= Len(ImportsOf(Top.path))
      /\ p = Import(Top.path, Top.next) /\ ~OnStack(p) /\ p \in visited
      /\ stack' = Advance(stack, <<>>)
      /\ UNCHANGED <<imports, visited, inFiles, outcome, idl>>
  BY DEF ImportVisited, At, Circular, SkipVisited
<1>2. /\ stack \in Seq(Frames) /\ Depth \in Nat /\ Depth > 0 /\ Top = stack[Depth]
  BY <1>1, RunningFacts
<1>3. /\ Depth' = Depth
      /\ \A n \in 1..Depth : stack'[n].path = stack[n].path
  <2>1. <<>> \in Seq(Found)
    OBVIOUS
  <2> HIDE DEF ParserInv, ParserTypeOK
  <2> QED BY <1>1, <1>2, <2>1, AdvanceFacts DEF Depth
<1>4. \A q : Left(q)' <=> Left(q)
  BY <1>1, <1>3 DEF Left, OnStack
<1>5. Left(p)
  BY <1>1 DEF Left
<1>6. /\ stack' \in Seq(Frames) /\ Phases'
      /\ StackVisited' /\ StackDistinct' /\ StackChained' /\ BehindLeft' /\ ImportsLeftFirst'
  <2>1. <<>> \in Seq(Found) /\ Depth \in 1..Depth
    BY <1>2
  <2> HIDE DEF ParserInv, ParserTypeOK
  <2> QED BY <1>1, <1>2, <1>4, <1>5, <2>1, AdvanceInv DEF Depth
<1> QED BY <1>1, <1>6 DEF ListedVisited, ReadOnce

LEMMA IdlInv ==
    ASSUME ParserInv, NEW p \in Paths, ImportIdl(p)
    PROVE  ParserInv'
BY EnterInv DEF ImportIdl, At

LEMMA ExternInv ==
    ASSUME ParserInv, NEW p \in Paths, ImportExtern(p)
    PROVE  ParserInv'
<1> USE DEF ParserInv, ParserTypeOK
<1>1. /\ outcome = "running" /\ Top.next <= Len(ImportsOf(Top.path))
      /\ p = Import(Top.path, Top.next) /\ ~OnStack(p) /\ p \notin visited
      /\ FileOf[p] \in Externs /\ Visit(p) /\ UNCHANGED imports
  BY DEF ImportExtern, At, Circular
<1>2. /\ visited' \in SUBSET Paths /\ inFiles' \in Seq(Paths)
      /\ ListedVisited' /\ ReadOnce'
  BY <1>1, VisitOnce
<1>3. CASE Fail("syntax")
  BY <1>1, <1>2, <1>3 DEF Fail, Failures, Phases
<1>4. CASE stack' = Advance(stack, <<p>>) /\ UNCHANGED <<outcome, idl>>
  <2>1. /\ stack \in Seq(Frames) /\ Depth \in Nat /\ Depth > 0 /\ Top = stack[Depth]
    BY <1>1, RunningFacts
  <2>2. /\ Depth' = Depth
        /\ \A n \in 1..Depth : stack'[n].path = stack[n].path
    <3>1. <<p>> \in Seq(Found)
      BY <1>1, FilesAssumption DEF Found
    <3> HIDE DEF ParserInv, ParserTypeOK
    <3> QED BY <1>4, <2>1, <3>1, AdvanceFacts DEF Depth
  <2>3. visited' = visited \cup {p}
    BY <1>1 DEF Visit
  <2>4. \A q : OnStack(q)' <=> OnStack(q)
    BY <2>2 DEF OnStack
  <2>5. \A q : Left(q)' <=> Left(q) \/ q = p
    BY <1>1, <2>3, <2>4 DEF Left
  <2>6. 1..Len(ImportsOf(p)) = {}
    BY <1>1, ImportTypes
  <2>7. /\ stack' \in Seq(Frames) /\ Phases'
        /\ StackVisited' /\ StackDistinct' /\ StackChained' /\ BehindLeft' /\ ImportsLeftFirst'
    <3>1. <<p>> \in Seq(Found) /\ Depth \in 1..Depth
      BY <1>1, <2>1, FilesAssumption DEF Found
    <3> HIDE DEF ParserInv, ParserTypeOK
    <3> QED BY <1>1, <1>4, <2>1, <2>3, <2>5, <2>6, <3>1, AdvanceInv DEF Depth
  <2> QED BY <1>1, <1>2, <1>4, <2>7
<1> QED BY <1>3, <1>4 DEF ImportExtern

LEMMA ReturnInv ==
    ASSUME ParserInv, Return
    PROVE  ParserInv'
<1> USE DEF ParserInv, ParserTypeOK
<1>1. /\ outcome = "running" /\ Top.next > Len(ImportsOf(Top.path))
      /\ UNCHANGED <<imports, visited, inFiles>>
  BY DEF Return
<1>2. /\ StackVisited /\ StackDistinct /\ StackChained /\ BehindLeft /\ ImportsLeftFirst
      /\ stack \in Seq(Frames) /\ Depth \in Nat /\ Depth > 0 /\ Top = stack[Depth]
      /\ \A n \in 1..Depth : stack[n] \in Frames /\ stack[n].path \in Paths
      /\ Top.next \in Nat /\ Top.types \in Seq(Found)
  BY <1>1, RunningFacts
<1>3. \A n \in 1..Len(ImportsOf(Top.path)) : Left(Import(Top.path, n))
  <2>1. ImportsOf(Top.path) \in Seq(Refs)
    BY <1>2, ImportTypes
  <2> QED BY <1>1, <1>2, <2>1 DEF BehindLeft
<1>4. ListedVisited' /\ ReadOnce'
  BY <1>1 DEF ListedVisited, ReadOnce
<1>5. CASE Depth = 1
  <2>1. stack' = <<>> /\ outcome' = "parsed" /\ idl' = Top.types
    BY <1>5 DEF Return
  <2>2. Top \in Frames
    BY <1>2
  <2>3. idl' \in Seq(Found) /\ idl' # <<>>
    BY <2>1, <2>2 DEF Frames
  <2>4. \A q : Left(q)' <=> q \in visited
    BY <1>1, <2>1 DEF Left, OnStack, Depth
  <2>5. \A q : Left(q) <=> q \in visited /\ q # Top.path
    BY <1>2, <1>5 DEF Left, OnStack
  <2>6. ImportsLeftFirst'
    <3> SUFFICES ASSUME NEW q \in Paths, q \in visited, NEW n \in 1..Len(ImportsOf(q))
                 PROVE  Left(Import(q, n))'
      BY <1>1, <2>4 DEF ImportsLeftFirst, ImportsOf
    <3>1. Left(Import(q, n))
      BY <1>1, <1>2, <1>3, <2>5 DEF ImportsLeftFirst, Failures
    <3>2. Import(q, n)' = Import(q, n)
      BY <1>1 DEF Import, ImportsOf
    <3> QED BY <2>4, <2>5, <3>1, <3>2
  <2>7. StackVisited' /\ StackDistinct' /\ StackChained' /\ BehindLeft' /\ Phases'
    BY <2>1, <2>3 DEF StackVisited, StackDistinct, StackChained, BehindLeft, Phases, Depth
  <2>8. stack' \in Seq(Frames)
    BY <2>1
  <2> QED BY <1>1, <1>4, <2>1, <2>3, <2>6, <2>7, <2>8
<1>6. CASE Depth # 1
  <2> DEFINE s == SubSeq(stack, 1, Depth - 1)
             below == stack[Depth - 1]
  <2>1. /\ s \in Seq(Frames) /\ Len(s) = Depth - 1
        /\ \A n \in 1..(Depth - 1) : s[n] = stack[n]
    <3> HIDE DEF ParserInv, ParserTypeOK
    <3>1. Depth = Len(stack)
      BY DEF Depth
    <3>2. Depth > 1
      BY <1>2, <1>6
    <3>3. Len(stack) > 1
      BY <3>1, <3>2
    <3> QED BY <1>2, <3>1, <3>3, PopFacts
  <2>2. stack' = Advance(s, Top.types) /\ UNCHANGED <<outcome, idl>>
    BY <1>6 DEF Return, Leave
  <2>3. Depth - 1 \in 1..(Depth - 1) /\ s[Len(s)] = below
    BY <1>2, <1>6, <2>1
  <2> HIDE DEF s, below
  <2>4. /\ below.next <= Len(ImportsOf(below.path))
        /\ Top.path = Import(below.path, below.next)
    BY <1>2, <2>3 DEF StackChained, below
  <2>5. /\ Depth' = Depth - 1
        /\ \A n \in 1..(Depth - 1) : stack'[n].path = stack[n].path
    <3>1. Len(s) > 0 /\ Depth' = Len(stack')
      BY <1>2, <2>1, <2>3 DEF Depth
    <3> HIDE DEF ParserInv, ParserTypeOK
    <3>2. Depth' = Len(s) /\ \A n \in 1..Len(s) : stack'[n].path = s[n].path
      BY <1>2, <2>1, <2>2, <3>1, AdvanceFacts
    <3> QED BY <2>1, <3>2
  <2>6. \A q : OnStack(q)' <=> OnStack(q) /\ q # Top.path
    <3>1. \A q : OnStack(q) <=> (\E n \in 1..(Depth - 1) : stack[n].path = q) \/ q = Top.path
      <4>1. 1..Depth = (1..(Depth - 1)) \cup {Depth}
        BY <1>2
      <4> HIDE DEF ParserInv, ParserTypeOK
      <4> QED BY <1>2, <4>1, Zenon DEF OnStack
    <3>2. \A n \in 1..(Depth - 1) : stack[n].path # Top.path
      BY <1>2 DEF StackDistinct
    <3>3. \A q : OnStack(q)' <=> \E n \in 1..(Depth - 1) : stack[n].path = q
      BY <2>5 DEF OnStack
    <3> QED BY <2>3, <3>1, <3>2, <3>3
  <2>7. \A q : Left(q)' <=> Left(q) \/ q = Top.path
    <3>1. Top.path \in visited
      BY <1>2 DEF StackVisited
    <3> QED BY <1>1, <2>6, <3>1 DEF Left
  <2>8. \A q \in Paths : q = Top.path =>
            \A n \in 1..Len(ImportsOf(q)) : Left(Import(q, n))'
    <3> SUFFICES ASSUME NEW q \in Paths, q = Top.path, NEW n \in 1..Len(ImportsOf(q))
                 PROVE  Left(Import(q, n))'
      OBVIOUS
    <3>1. Left(Import(q, n))
      BY <1>3
    <3>2. Import(q, n)' = Import(q, n)
      BY <1>1 DEF Import, ImportsOf
    <3> QED BY <2>7, <3>1, <3>2
  <2>9. /\ stack' \in Seq(Frames) /\ Phases'
        /\ StackVisited' /\ StackDistinct' /\ StackChained' /\ BehindLeft' /\ ImportsLeftFirst'
    <3>1. Len(s) \in 1..Depth /\ Top.path \in Paths /\ visited \subseteq visited'
      BY <1>1, <1>2, <2>1, <2>3
    <3> HIDE DEF ParserInv, ParserTypeOK
    <3> QED BY <1>1, <1>2, <2>1, <2>2, <2>3, <2>4, <2>7, <2>8, <3>1, AdvanceInv
  <2> QED BY <1>1, <1>4, <2>2, <2>9
<1> QED BY <1>5, <1>6

LEMMA ParserInvNext == ParserInv /\ [ParserNext]_parserVars => ParserInv'
<1> SUFFICES ASSUME ParserInv, [ParserNext]_parserVars PROVE ParserInv'
  OBVIOUS
<1>1. CASE Start
  BY <1>1, StartInv
<1>2. CASE Return
  BY <1>2, ReturnInv
<1>3. ASSUME NEW p \in Paths, ImportCircular(p) PROVE ParserInv'
  BY <1>3, CircularInv
<1>4. ASSUME NEW p \in Paths, ImportVisited(p) PROVE ParserInv'
  BY <1>4, VisitedInv
<1>5. ASSUME NEW p \in Paths, ImportIdl(p) PROVE ParserInv'
  BY <1>5, IdlInv
<1>6. ASSUME NEW p \in Paths, ImportExtern(p) PROVE ParserInv'
  BY <1>6, ExternInv
<1>7. CASE UNCHANGED parserVars
  <2>1. UNCHANGED <<Depth, imports, stack, visited, inFiles, outcome, idl>>
    BY <1>7 DEF parserVars, Depth
  <2> QED BY <2>1
          DEF ParserInv, ParserTypeOK, ListedVisited, ReadOnce, Phases, StackVisited,
              StackDistinct, StackChained, BehindLeft, ImportsLeftFirst, Left, OnStack,
              Import, ImportsOf
<1> QED BY <1>1, <1>2, <1>3, <1>4, <1>5, <1>6, <1>7 DEF ParserNext

LEMMA ParserInvariant == ParserSpec => []ParserInv
BY ParserInvInit, ParserInvNext, PTL DEF ParserSpec

\* The program as a whole parses as IdlParser does: neither the resolver nor a
\* generator touches what the parser keeps.
THEOREM FrontParses == FrontSpec => ParserSpec
<1>1. FrontInit => ParserInit
  BY DEF FrontInit
<1>2. [FrontNext]_frontVars => [ParserNext]_parserVars
  BY DEF FrontNext, Main, Parse, ParseFails, Resolve, SkipExtern, CreateFile,
         CreateFileOnce, Finish, frontVars
<1> QED BY <1>1, <1>2, PTL DEF FrontSpec, ParserSpec

\* For every project, however its files import each other, parseFile() and
\* parseExternFile() read what is at a normalised path once.
THEOREM FilesReadOnce == FrontSpec => []ReadOnce
<1>1. ParserInv => ReadOnce
  BY DEF ParserInv
<1> QED BY <1>1, FrontParses, ParserInvariant, PTL

\* For every project, a file has been left only when the files it imports have:
\* the test of fileStack finds every cycle, and no import is passed over.
THEOREM FrontImportsLeftFirst == FrontSpec => []ImportsLeftFirst
<1>1. ParserInv => ImportsLeftFirst
  BY DEF ParserInv, ImportsLeftFirst
<1> QED BY <1>1, FrontParses, ParserInvariant, PTL

-----------------------------------------------------------------------------
(***************************************************************************)
(* What is parsed.  The paths in the frames' types are those that were     *)
(* visited, each in one place; all of them can be reached; and there is no *)
(* cycle among those that have been left.                                  *)
(***************************************************************************)
Elems(s) == {s[n] : n \in 1..Len(s)}
OneOfEach(s) == \A m, n \in 1..Len(s) : s[m] = s[n] => m = n

VisitedReached == visited \subseteq Reached /\ (outcome # "new" => Root \in visited)

LeftUntangled == \A C \in SUBSET Paths : (\A p \in C : Left(p)) => ~Tangled(C)

\* The frames s have the paths V in their types, each of them once.
Holds(s, V) ==
    /\ \A n \in 1..Len(s) : OneOfEach(s[n].types)
    /\ \A m, n \in 1..Len(s) : m # n => Elems(s[m].types) \cap Elems(s[n].types) = {}
    /\ \A q : q \in V <=> \E n \in 1..Len(s) : q \in Elems(s[n].types)

Walk ==
    /\ outcome \notin Failures => VisitedReached /\ LeftUntangled
    /\ outcome \in {"new", "running"} => Holds(stack, visited)
    /\ outcome = "parsed" => Elems(idl) = visited /\ OneOfEach(idl)
    /\ outcome = "circular" => \E C \in SUBSET Reached : Tangled(C)

LEMMA ConcatElems ==
    ASSUME NEW s \in Seq(Found), NEW t \in Seq(Found)
    PROVE  /\ Elems(s \o t) = Elems(s) \cup Elems(t)
           /\ OneOfEach(s) /\ OneOfEach(t) /\ Elems(s) \cap Elems(t) = {} => OneOfEach(s \o t)
<1>1. /\ Len(s) \in Nat /\ Len(t) \in Nat /\ Len(s \o t) = Len(s) + Len(t)
      /\ \A n \in 1..(Len(s) + Len(t)) :
            (s \o t)[n] = IF n <= Len(s) THEN s[n] ELSE t[n - Len(s)]
  OBVIOUS
<1>2. \A n \in 1..Len(s) : n \in 1..(Len(s) + Len(t)) /\ (s \o t)[n] = s[n]
  BY <1>1
<1>3. \A n \in 1..Len(t) : n + Len(s) \in 1..(Len(s) + Len(t)) /\ (s \o t)[n + Len(s)] = t[n]
  <2> SUFFICES ASSUME NEW n \in 1..Len(t)
               PROVE  n + Len(s) \in 1..(Len(s) + Len(t)) /\ (s \o t)[n + Len(s)] = t[n]
    OBVIOUS
  <2>1. /\ n + Len(s) \in 1..(Len(s) + Len(t)) /\ ~(n + Len(s) <= Len(s))
        /\ (n + Len(s)) - Len(s) = n
    BY <1>1
  <2> QED BY <1>1, <2>1
<1>4. \A n \in 1..(Len(s) + Len(t)) :
         \/ n \in 1..Len(s) /\ (s \o t)[n] = s[n]
         \/ n - Len(s) \in 1..Len(t) /\ (s \o t)[n] = t[n - Len(s)] /\ n = (n - Len(s)) + Len(s)
  BY <1>1
<1>5. Elems(s \o t) = Elems(s) \cup Elems(t)
  <2>1. \A n \in 1..(Len(s) + Len(t)) : (s \o t)[n] \in Elems(s) \cup Elems(t)
    BY Zenon, <1>4 DEF Elems
  <2>2. \A n \in 1..Len(s) : s[n] \in Elems(s \o t)
    BY Zenon, <1>1, <1>2 DEF Elems
  <2>3. \A n \in 1..Len(t) : t[n] \in Elems(s \o t)
    BY Zenon, <1>1, <1>3 DEF Elems
  <2> QED BY <1>1, <2>1, <2>2, <2>3 DEF Elems
<1>6. ASSUME OneOfEach(s), OneOfEach(t), Elems(s) \cap Elems(t) = {}
      PROVE  OneOfEach(s \o t)
  <2> SUFFICES ASSUME NEW m \in 1..(Len(s) + Len(t)), NEW n \in 1..(Len(s) + Len(t)),
                      (s \o t)[m] = (s \o t)[n]
               PROVE  m = n
    BY <1>1 DEF OneOfEach
  <2>1. CASE m \in 1..Len(s) /\ n \in 1..Len(s)
    BY <1>2, <1>6, <2>1 DEF OneOfEach
  <2>2. CASE m - Len(s) \in 1..Len(t) /\ n - Len(s) \in 1..Len(t)
    <3>1. t[m - Len(s)] = t[n - Len(s)] /\ m \in Nat /\ n \in Nat
      BY <1>1, <1>3, <2>2
    <3>2. m - Len(s) = n - Len(s)
      BY <1>6, <2>2, <3>1 DEF OneOfEach
    <3> QED BY <1>1, <3>1, <3>2
  <2>3. CASE m \in 1..Len(s) /\ n - Len(s) \in 1..Len(t)
    <3>1. (s \o t)[m] \in Elems(s) /\ (s \o t)[n] \in Elems(t)
      BY <1>1, <1>2, <1>3, <2>3 DEF Elems
    <3> QED BY <1>6, <3>1
  <2>4. CASE n \in 1..Len(s) /\ m - Len(s) \in 1..Len(t)
    <3>1. (s \o t)[n] \in Elems(s) /\ (s \o t)[m] \in Elems(t)
      BY <1>1, <1>2, <1>3, <2>4 DEF Elems
    <3> QED BY <1>6, <3>1
  <2> QED BY <1>4, <2>1, <2>2, <2>3, <2>4
<1> QED BY <1>5, <1>6

LEMMA EmptyElems == Elems(<<>>) = {} /\ OneOfEach(<<>>)
BY DEF Elems, OneOfEach

LEMMA OneElem == ASSUME NEW p PROVE Elems(<<p>>) = {p} /\ OneOfEach(<<p>>)
BY DEF Elems, OneOfEach

LEMMA AdvanceTypes ==
    ASSUME NEW s \in Seq(Frames), Len(s) > 0, NEW types \in Seq(Found), NEW n \in 1..Len(s)
    PROVE  Advance(s, types)[n].types = IF n = Len(s) THEN types \o s[n].types ELSE s[n].types
BY DEF Advance

LEMMA AdvanceHolds ==
    ASSUME NEW s \in Seq(Frames), Len(s) > 0, NEW types \in Seq(Found), NEW V, Holds(s, V),
           OneOfEach(types), Elems(types) \cap V = {}
    PROVE  Holds(Advance(s, types), V \cup Elems(types))
<1> DEFINE a == Advance(s, types)
           L == Len(s)
<1>1. L \in Nat /\ L \in 1..L /\ Len(a) = L
  BY AdvanceFacts
<1>2. \A n \in 1..L : s[n].types \in Seq(Found)
  <2>1. \A f \in Frames : f.types \in Seq(Found)
    BY DEF Frames
  <2> QED BY <2>1
<1>3. \A n \in 1..L : a[n].types = IF n = L THEN types \o s[n].types ELSE s[n].types
  BY AdvanceTypes
<1> HIDE DEF a, L
<1>4. \A n \in 1..L : Elems(s[n].types) \cap Elems(types) = {}
  BY <1>1 DEF Holds, L
<1>5. \A n \in 1..L :
         Elems(a[n].types) = IF n = L THEN Elems(types) \cup Elems(s[n].types) ELSE Elems(s[n].types)
  BY <1>2, <1>3, ConcatElems
<1>6. \A n \in 1..L : OneOfEach(a[n].types)
  <2> SUFFICES ASSUME NEW n \in 1..L PROVE OneOfEach(a[n].types)
    OBVIOUS
  <2>1. OneOfEach(s[n].types)
    BY DEF Holds, L
  <2> QED BY <1>2, <1>3, <1>4, <2>1, ConcatElems
<1>7. \A m, n \in 1..L : m # n => Elems(a[m].types) \cap Elems(a[n].types) = {}
  <2>1. \A m, n \in 1..L : m # n => Elems(s[m].types) \cap Elems(s[n].types) = {}
    BY DEF Holds, L
  <2> QED BY <1>4, <1>5, <2>1
<1>8. \A q : q \in V \cup Elems(types) <=> \E n \in 1..L : q \in Elems(a[n].types)
  <2>1. \A q : q \in V <=> \E n \in 1..L : q \in Elems(s[n].types)
    BY DEF Holds, L
  <2> QED BY <1>1, <1>5, <2>1
<1> QED BY <1>1, <1>6, <1>7, <1>8 DEF Holds, a

LEMMA PushHolds ==
    ASSUME NEW s \in Seq(Frames), NEW f \in Frames, NEW V, Holds(s, V), NEW p, p \notin V,
           f.types = <<p>>
    PROVE  Holds(Append(s, f), V \cup {p})
<1> DEFINE a == Append(s, f)
           L == Len(s)
<1>1. /\ L \in Nat /\ Len(a) = L + 1
      /\ \A n \in 1..L : a[n] = s[n]
      /\ a[L + 1] = f
  BY PushFacts
<1> HIDE DEF a, L
<1>2. \A n \in 1..(L + 1) : n \in 1..L \/ n = L + 1
  BY <1>1
<1>3. Elems(f.types) = {p} /\ OneOfEach(f.types)
  BY OneElem
<1>4. /\ \A n \in 1..L : OneOfEach(s[n].types) /\ p \notin Elems(s[n].types)
      /\ \A m, n \in 1..L : m # n => Elems(s[m].types) \cap Elems(s[n].types) = {}
      /\ \A q : q \in V <=> \E n \in 1..L : q \in Elems(s[n].types)
  BY DEF Holds, L
<1>5. \A n \in 1..(L + 1) : OneOfEach(a[n].types)
  BY <1>1, <1>2, <1>3, <1>4
<1>6. \A m, n \in 1..(L + 1) : m # n => Elems(a[m].types) \cap Elems(a[n].types) = {}
  <2>1. \A n \in 1..L : Elems(a[n].types) = Elems(s[n].types)
    BY <1>1
  <2>2. Elems(a[L + 1].types) = {p}
    BY <1>1, <1>3
  <2> SUFFICES ASSUME NEW m \in 1..(L + 1), NEW n \in 1..(L + 1), m # n
               PROVE  Elems(a[m].types) \cap Elems(a[n].types) = {}
    OBVIOUS
  <2>3. CASE m \in 1..L /\ n \in 1..L
    BY <1>4, <2>1, <2>3
  <2>4. CASE m = L + 1 /\ n \in 1..L
    BY <1>4, <2>1, <2>2, <2>4
  <2>5. CASE n = L + 1 /\ m \in 1..L
    BY <1>4, <2>1, <2>2, <2>5
  <2> QED BY <1>2, <2>3, <2>4, <2>5
<1>7. \A q : q \in V \cup {p} <=> \E n \in 1..(L + 1) : q \in Elems(a[n].types)
  <2>1. L + 1 \in 1..(L + 1) /\ \A n \in 1..L : n \in 1..(L + 1)
    BY <1>1
  <2> QED BY <1>1, <1>2, <1>3, <1>4, <2>1
<1> QED BY <1>1, <1>5, <1>6, <1>7 DEF Holds, a

LEMMA PopHolds ==
    ASSUME NEW s \in Seq(Frames), Len(s) > 1, NEW V, Holds(s, V)
    PROVE  LET below == SubSeq(s, 1, Len(s) - 1)
               types == s[Len(s)].types
           IN  /\ Holds(below, V \ Elems(types))
               /\ OneOfEach(types) /\ Elems(types) \subseteq V
<1> DEFINE b == SubSeq(s, 1, Len(s) - 1)
           L == Len(s)
           types == s[L].types
<1>1. /\ L \in Nat /\ L > 1 /\ Len(b) = L - 1
      /\ \A n \in 1..(L - 1) : b[n] = s[n]
  BY PopFacts
<1>2. /\ \A n \in 1..L : OneOfEach(s[n].types)
      /\ \A m, n \in 1..L : m # n => Elems(s[m].types) \cap Elems(s[n].types) = {}
      /\ \A q : q \in V <=> \E n \in 1..L : q \in Elems(s[n].types)
  BY DEF Holds
<1> HIDE DEF b, L
<1>3. /\ L \in 1..L /\ \A n \in 1..(L - 1) : n \in 1..L /\ n # L
      /\ \A n \in 1..L : n = L \/ n \in 1..(L - 1)
  BY <1>1
<1>4. /\ \A n \in 1..(L - 1) : OneOfEach(b[n].types)
      /\ \A m, n \in 1..(L - 1) : m # n => Elems(b[m].types) \cap Elems(b[n].types) = {}
  BY <1>1, <1>2, <1>3
<1>5. \A q : q \in V \ Elems(types) <=> \E n \in 1..(L - 1) : q \in Elems(b[n].types)
  <2>1. \A q : \A n \in 1..(L - 1) : q \in Elems(s[n].types) => q \notin Elems(types)
    BY <1>2, <1>3
  <2> QED BY <1>1, <1>2, <1>3, <2>1
<1>6. OneOfEach(types) /\ Elems(types) \subseteq V
  BY <1>2, <1>3
<1>7. Holds(b, V \ Elems(types))
  BY <1>1, <1>4, <1>5 DEF Holds
<1> QED BY <1>6, <1>7 DEF b, L

\* What is reached.
LEMMA ReachedRoot == Root \in Reached
BY FilesAssumption DEF Reached, Closed

LEMMA ReachedImport ==
    ASSUME imports \in Projects, NEW p \in Reached, NEW n \in 1..Len(ImportsOf(p))
    PROVE  Import(p, n) \in Reached
<1>1. p \in Paths /\ Import(p, n) \in Paths
  BY ImportTypes DEF Reached
<1>2. ASSUME NEW S \in SUBSET Paths, Closed(S) PROVE Import(p, n) \in S
  <2>1. p \in S
    BY <1>2 DEF Reached
  <2> QED BY <1>2, <2>1 DEF Closed
<1> QED BY <1>1, <1>2 DEF Reached

\* The import graph is that of the project.
LEMMA SameGraph ==
    ASSUME UNCHANGED imports
    PROVE  /\ Reached' = Reached
           /\ \A p : ImportsOf(p)' = ImportsOf(p)
           /\ \A p, n : Import(p, n)' = Import(p, n)
           /\ \A C : Tangled(C)' = Tangled(C)
BY DEF Reached, Closed, Tangled, ImportsOf, Import

\* One path more is left; it has its imports behind it and is none of them.
LEMMA LeaveUntangled ==
    ASSUME ParserInv, outcome \notin Failures, LeftUntangled, UNCHANGED imports,
           NEW p \in Paths, ~Left(p), \A n \in 1..Len(ImportsOf(p)) : Left(Import(p, n)),
           \A q \in Paths : Left(q)' => Left(q) \/ q = p
    PROVE  LeftUntangled'
<1> SUFFICES ASSUME NEW C \in SUBSET Paths, \A q \in C : Left(q)', Tangled(C)
             PROVE  FALSE
  BY SameGraph DEF LeftUntangled
<1> DEFINE D == C \ {p}
<1>1. imports \in Projects /\ ImportsLeftFirst
  BY DEF ParserInv
<1>2. \A q \in C : \A n \in 1..Len(ImportsOf(q)) : Left(Import(q, n))
  BY <1>1 DEF ImportsLeftFirst
<1>3. \A q \in C : \E n \in 1..Len(ImportsOf(q)) : Import(q, n) \in D
  BY <1>2 DEF Tangled
<1>4. Tangled(D)
  BY <1>3 DEF Tangled
<1> QED BY <1>4 DEF LeftUntangled

LEMMA StayUntangled ==
    ASSUME LeftUntangled, UNCHANGED imports, \A q \in Paths : Left(q)' => Left(q)
    PROVE  LeftUntangled'
<1> SUFFICES ASSUME NEW C \in SUBSET Paths, \A q \in C : Left(q)', Tangled(C)
             PROVE  FALSE
  BY SameGraph DEF LeftUntangled
<1> QED BY DEF LeftUntangled

LEMMA EnterWalk ==
    ASSUME ParserInv, Walk, NEW p \in Paths, p \notin visited, Enter(p), UNCHANGED imports,
           outcome \in {"new", "running"}, p \in Reached, outcome = "new" => p = Root
    PROVE  Walk'
<1>1. visited' = visited \cup {p}
  BY DEF Enter, Visit
<1>2. CASE outcome' \in {"missing", "syntax"}
  BY <1>2 DEF Walk, Failures
<1>3. CASE /\ FileOf[p] # None
           /\ stack' = Append(stack, [path |-> p, next |-> 1, types |-> <<p>>])
           /\ outcome' = "running"
  <2> DEFINE frame == [path |-> p, next |-> 1, types |-> <<p>>]
  <2>1. frame \in Frames /\ frame.path = p /\ frame.types = <<p>>
    BY <1>3 DEF Frames, Found
  <2>2. stack \in Seq(Frames) /\ Holds(stack, visited) /\ VisitedReached /\ LeftUntangled
    BY DEF ParserInv, ParserTypeOK, Walk, Failures
  <2>3. stack' = Append(stack, frame)
    BY <1>3
  <2> HIDE DEF frame
  <2>4. Holds(stack', visited')
    BY <1>1, <2>1, <2>2, <2>3, PushHolds
  <2>5. /\ Depth \in Nat /\ Depth' = Depth + 1 /\ stack'[Depth + 1] = frame
        /\ \A n \in 1..Depth : stack'[n] = stack[n]
    BY <2>1, <2>2, <2>3, PushFacts DEF Depth
  <2>6. \A q : OnStack(q) \/ q = p => OnStack(q)'
    BY <2>1, <2>5 DEF OnStack
  <2>7. \A q \in Paths : Left(q)' => Left(q)
    BY <1>1, <2>6 DEF Left
  <2>8. LeftUntangled'
    BY <2>2, <2>7, StayUntangled
  <2>9. VisitedReached'
    BY <1>1, <2>2, SameGraph DEF VisitedReached
  <2> QED BY <1>3, <2>4, <2>8, <2>9 DEF Walk
<1> QED BY <1>2, <1>3 DEF Enter, Fail

LEMMA StartWalk == ASSUME ParserInv, Walk, Start PROVE Walk'
BY EnterWalk, ReachedRoot, FilesAssumption DEF Start, ParserInv, Phases

\* The next import of a file that was visited is reached.
LEMMA AtReached ==
    ASSUME ParserInv, Walk, NEW p \in Paths, At(p)
    PROVE  p \in Reached /\ VisitedReached /\ LeftUntangled /\ Holds(stack, visited)
<1>1. outcome = "running" /\ Top.next <= Len(ImportsOf(Top.path)) /\ p = Import(Top.path, Top.next)
  BY DEF At
<1>2. VisitedReached /\ LeftUntangled /\ Holds(stack, visited)
  BY <1>1 DEF Walk, Failures
<1>3. /\ Depth \in 1..Depth /\ Top = stack[Depth] /\ Top.path \in Paths
      /\ Top.next \in Nat \ {0} /\ StackVisited
  BY <1>1, RunningFacts
<1>4. Top.path \in Reached
  BY <1>2, <1>3 DEF StackVisited, VisitedReached
<1>5. imports \in Projects /\ ImportsOf(Top.path) \in Seq(Refs)
  BY <1>3, ImportTypes DEF ParserInv
<1>6. Top.next \in 1..Len(ImportsOf(Top.path))
  BY <1>1, <1>3, <1>5
<1> QED BY <1>1, <1>2, <1>4, <1>5, <1>6, ReachedImport

\* The frames from the first with p to the last are a cycle.
LEMMA CircularWalk ==
    ASSUME ParserInv, Walk, NEW p \in Paths, ImportCircular(p)
    PROVE  Walk'
<1>1. /\ At(p) /\ OnStack(p) /\ outcome' = "circular"
      /\ UNCHANGED imports
  BY DEF ImportCircular, Circular, Fail
<1>2. /\ outcome = "running" /\ Top.next <= Len(ImportsOf(Top.path))
      /\ p = Import(Top.path, Top.next)
  BY <1>1 DEF At
<1>3. /\ StackVisited /\ StackChained /\ Depth \in Nat /\ Depth > 0 /\ Top = stack[Depth]
      /\ Top.next \in Nat \ {0}
      /\ \A n \in 1..Depth : stack[n] \in Frames /\ stack[n].path \in Paths
  BY <1>2, RunningFacts
<1>4. visited \subseteq Reached /\ imports \in Projects
  BY <1>1, AtReached DEF VisitedReached, ParserInv
<1>5. PICK k \in 1..Depth : stack[k].path = p
  BY <1>1 DEF OnStack
<1> DEFINE C == {stack[n].path : n \in k..Depth}
<1>6. \A n \in k..Depth : n \in 1..Depth
  BY <1>3
<1>7. C \in SUBSET Reached
  BY <1>3, <1>4, <1>6 DEF StackVisited
<1>8. p \in C
  BY <1>3, <1>5
<1>9. ASSUME NEW n \in k..Depth
      PROVE  \E i \in 1..Len(ImportsOf(stack[n].path)) : Import(stack[n].path, i) \in C
  <2>1. /\ n \in 1..Depth /\ stack[n].next \in Nat \ {0}
        /\ ImportsOf(stack[n].path) \in Seq(Refs)
    <3>1. \A f \in Frames : f.next \in Nat \ {0}
      BY DEF Frames
    <3> QED BY <1>3, <1>4, <1>6, <3>1, ImportTypes
  <2>2. CASE n = Depth
    <3>1. Top.next \in 1..Len(ImportsOf(Top.path))
      BY <1>2, <1>3, <2>1, <2>2
    <3> QED BY <1>2, <1>3, <1>8, <2>2, <3>1
  <2>3. CASE n # Depth
    <3>1. n \in 1..(Depth - 1) /\ n + 1 \in k..Depth
      BY <1>3, <2>1, <2>3
    <3>2. /\ stack[n].next \in 1..Len(ImportsOf(stack[n].path))
          /\ stack[n + 1].path = Import(stack[n].path, stack[n].next)
      BY <1>3, <2>1, <3>1 DEF StackChained
    <3> QED BY <3>1, <3>2
  <2> QED BY <2>2, <2>3
<1>10. Tangled(C)
  BY <1>8, <1>9 DEF Tangled
<1> HIDE DEF C
<1> QED BY <1>1, <1>7, <1>10, SameGraph DEF Walk, Failures

LEMMA VisitedWalk ==
    ASSUME ParserInv, Walk, NEW p \in Paths, ImportVisited(p)
    PROVE  Walk'
<1>1. /\ At(p) /\ outcome = "running" /\ stack' = Advance(stack, <<>>)
      /\ UNCHANGED <<imports, visited, inFiles, outcome, idl>>
  BY DEF ImportVisited, At, SkipVisited
<1>2. VisitedReached /\ LeftUntangled /\ Holds(stack, visited)
  BY <1>1, AtReached
<1>3. stack \in Seq(Frames) /\ Len(stack) > 0 /\ <<>> \in Seq(Found)
  BY <1>1, RunningFacts DEF Depth
<1>4. Holds(stack', visited \cup {})
  BY <1>1, <1>2, <1>3, AdvanceHolds, EmptyElems
<1>5. Depth' = Depth /\ \A n \in 1..Depth : stack'[n].path = stack[n].path
  BY <1>1, <1>3, AdvanceFacts DEF Depth
<1>6. \A q \in Paths : Left(q)' => Left(q)
  BY <1>1, <1>5 DEF Left, OnStack
<1>7. LeftUntangled'
  BY <1>1, <1>2, <1>6, StayUntangled
<1>8. VisitedReached'
  BY <1>1, <1>2, SameGraph DEF VisitedReached
<1>9. Holds(stack', visited')
  BY <1>1, <1>4
<1> QED BY <1>1, <1>7, <1>8, <1>9 DEF Walk

LEMMA ExternWalk ==
    ASSUME ParserInv, Walk, NEW p \in Paths, ImportExtern(p)
    PROVE  Walk'
<1>1. /\ At(p) /\ outcome = "running" /\ p \notin visited /\ FileOf[p] \in Externs
      /\ visited' = visited \cup {p} /\ UNCHANGED imports
  BY DEF ImportExtern, At, Visit
<1>2. p \in Reached /\ VisitedReached /\ LeftUntangled /\ Holds(stack, visited)
  BY <1>1, AtReached
<1>3. CASE outcome' = "syntax"
  BY <1>3 DEF Walk, Failures
<1>4. CASE stack' = Advance(stack, <<p>>) /\ UNCHANGED <<outcome, idl>>
  <2>1. stack \in Seq(Frames) /\ Len(stack) > 0 /\ <<p>> \in Seq(Found)
    BY <1>1, RunningFacts, FilesAssumption DEF Depth, Found
  <2>2. Holds(stack', visited')
    BY <1>1, <1>2, <1>4, <2>1, AdvanceHolds, OneElem
  <2>3. Depth' = Depth /\ \A n \in 1..Depth : stack'[n].path = stack[n].path
    BY <1>4, <2>1, AdvanceFacts DEF Depth
  <2>4. \A q \in Paths : Left(q)' => Left(q) \/ q = p
    BY <1>1, <2>3 DEF Left, OnStack
  <2>5. 1..Len(ImportsOf(p)) = {} /\ ~Left(p)
    BY <1>1, ImportTypes DEF ParserInv, Left
  <2>6. LeftUntangled'
    BY <1>1, <1>2, <2>4, <2>5, LeaveUntangled DEF Failures
  <2>7. VisitedReached'
    BY <1>1, <1>2, SameGraph DEF VisitedReached
  <2> QED BY <1>1, <1>4, <2>2, <2>6, <2>7 DEF Walk
<1> QED BY <1>3, <1>4 DEF ImportExtern, Fail

LEMMA ReturnWalk ==
    ASSUME ParserInv, Walk, Return
    PROVE  Walk'
<1>1. /\ outcome = "running" /\ Top.next > Len(ImportsOf(Top.path))
      /\ UNCHANGED <<imports, visited, inFiles>>
  BY DEF Return
<1>2. /\ StackVisited /\ StackDistinct /\ BehindLeft
      /\ stack \in Seq(Frames) /\ Depth \in Nat /\ Depth > 0 /\ Top = stack[Depth]
      /\ \A n \in 1..Depth : stack[n] \in Frames /\ stack[n].path \in Paths
      /\ Top.next \in Nat /\ Top.types \in Seq(Found)
  BY <1>1, RunningFacts
<1>3. VisitedReached /\ LeftUntangled /\ Holds(stack, visited)
  BY <1>1 DEF Walk, Failures
<1>4. \A n \in 1..Len(ImportsOf(Top.path)) : Left(Import(Top.path, n))
  <2>1. ImportsOf(Top.path) \in Seq(Refs)
    BY <1>2, ImportTypes DEF ParserInv
  <2> QED BY <1>1, <1>2, <2>1 DEF BehindLeft
<1>5. ~Left(Top.path)
  BY <1>2 DEF Left, OnStack
<1>6. VisitedReached'
  BY <1>1, <1>3, SameGraph DEF VisitedReached, Return
<1>7. CASE Depth = 1
  <2>1. stack' = <<>> /\ outcome' = "parsed" /\ idl' = Top.types
    BY <1>7 DEF Return
  <2>2. \A q \in Paths : Left(q)' => Left(q) \/ q = Top.path
    BY <1>1, <1>2, <1>7 DEF Left, OnStack
  <2>3. LeftUntangled'
    BY <1>1, <1>2, <1>3, <1>4, <1>5, <2>2, LeaveUntangled DEF Failures
  <2>4. Elems(Top.types) = visited /\ OneOfEach(Top.types)
    <3>1. 1..Len(stack) = {1} /\ Top = stack[1]
      BY <1>2, <1>7 DEF Depth
    <3>2. \A q : q \in visited <=> q \in Elems(Top.types)
      BY <1>3, <3>1 DEF Holds
    <3> QED BY <1>3, <3>1, <3>2 DEF Holds
  <2> QED BY <1>1, <1>6, <2>1, <2>3, <2>4 DEF Walk
<1>8. CASE Depth # 1
  <2> DEFINE s == SubSeq(stack, 1, Depth - 1)
  <2>1. Depth = Len(stack) /\ Len(stack) > 1
    <3>1. Depth > 1
      BY <1>2, <1>8
    <3> QED BY <3>1 DEF Depth
  <2>2. /\ s \in Seq(Frames) /\ Len(s) = Depth - 1
        /\ \A n \in 1..(Depth - 1) : s[n] = stack[n]
    BY <1>2, <2>1, PopFacts
  <2>3. /\ Holds(s, visited \ Elems(Top.types))
        /\ OneOfEach(Top.types) /\ Elems(Top.types) \subseteq visited
    BY <1>2, <1>3, <2>1, PopHolds
  <2>4. stack' = Advance(s, Top.types) /\ UNCHANGED <<outcome, idl>>
    BY <1>8 DEF Return, Leave
  <2> HIDE DEF s
  <2>5. Len(s) > 0
    BY <2>1, <2>2
  <2>6. Holds(stack', (visited \ Elems(Top.types)) \cup Elems(Top.types))
    BY <1>2, <2>2, <2>3, <2>4, <2>5, AdvanceHolds
  <2>7. (visited \ Elems(Top.types)) \cup Elems(Top.types) = visited'
    BY <1>1, <2>3
  <2>8. Depth' = Depth - 1 /\ \A n \in 1..(Depth - 1) : stack'[n].path = stack[n].path
    <3>1. Depth' = Len(s) /\ \A n \in 1..Len(s) : stack'[n].path = s[n].path
      BY <1>2, <2>2, <2>4, <2>5, AdvanceFacts DEF Depth
    <3> QED BY <2>2, <3>1
  <2>9. \A q : OnStack(q) => OnStack(q)' \/ q = Top.path
    <3> SUFFICES ASSUME NEW q, NEW n \in 1..Depth, stack[n].path = q, q # Top.path
                 PROVE  OnStack(q)'
      BY DEF OnStack
    <3>1. n \in 1..(Depth - 1)
      BY <1>2
    <3> QED BY <2>8, <3>1 DEF OnStack
  <2>10. \A q \in Paths : Left(q)' => Left(q) \/ q = Top.path
    BY <1>1, <2>9 DEF Left
  <2>11. LeftUntangled'
    BY <1>1, <1>2, <1>3, <1>4, <1>5, <2>10, LeaveUntangled DEF Failures
  <2> QED BY <1>1, <1>6, <2>4, <2>6, <2>7, <2>11 DEF Walk
<1> QED BY <1>7, <1>8

LEMMA WalkNext == ParserInv /\ Walk /\ [ParserNext]_parserVars => Walk'
<1> SUFFICES ASSUME ParserInv, Walk, [ParserNext]_parserVars PROVE Walk'
  OBVIOUS
<1>1. CASE Start
  BY <1>1, StartWalk
<1>2. CASE Return
  BY <1>2, ReturnWalk
<1>3. ASSUME NEW p \in Paths, ImportCircular(p) PROVE Walk'
  BY <1>3, CircularWalk
<1>4. ASSUME NEW p \in Paths, ImportVisited(p) PROVE Walk'
  BY <1>4, VisitedWalk
<1>5. ASSUME NEW p \in Paths, ImportIdl(p) PROVE Walk'
  BY <1>5, AtReached, EnterWalk DEF ImportIdl, At
<1>6. ASSUME NEW p \in Paths, ImportExtern(p) PROVE Walk'
  BY <1>6, ExternWalk
<1>7. CASE UNCHANGED parserVars
  <2>1. UNCHANGED <<imports, stack, visited, outcome, idl>>
    BY <1>7 DEF parserVars
  <2>2. \A q : Left(q)' = Left(q)
    BY <2>1 DEF Left, OnStack, Depth
  <2> QED BY <2>1, <2>2, SameGraph DEF Walk, VisitedReached, LeftUntangled
<1> QED BY <1>1, <1>2, <1>3, <1>4, <1>5, <1>6, <1>7 DEF ParserNext

LEMMA WalkInit == ParserInit => Walk
<1> SUFFICES ASSUME ParserInit PROVE Walk
  OBVIOUS
<1>1. \A p : ~Left(p)
  BY DEF ParserInit, Left
<1>2. LeftUntangled
  BY <1>1 DEF LeftUntangled, Tangled
<1> QED BY <1>2 DEF ParserInit, Walk, VisitedReached, Holds

\* For every project: what is parsed is what is reached through imports, each file
\* once and without a cycle, and "circular import" is said of a cycle only.
THEOREM WhatIsParsed == FrontSpec => []ParsedIsReachable
<1>1. ASSUME ParserInv, Walk PROVE ParsedIsReachable
  <2>1. ASSUME outcome = "parsed"
        PROVE  /\ Elems(idl) = Reached /\ OneOfEach(idl)
               /\ \A C \in SUBSET Reached : ~Tangled(C)
    <3>1. /\ stack = <<>> /\ ImportsLeftFirst /\ VisitedReached /\ LeftUntangled
          /\ Elems(idl) = visited /\ OneOfEach(idl) /\ visited \in SUBSET Paths
      BY <1>1, <2>1 DEF ParserInv, ParserTypeOK, Phases, Walk, Failures
    <3>2. \A q : Left(q) <=> q \in visited
      BY <3>1 DEF Left, OnStack, Depth
    <3>3. Closed(visited)
      BY <2>1, <3>1, <3>2 DEF Closed, ImportsLeftFirst, VisitedReached, Failures
    <3>4. visited = Reached
      BY <3>1, <3>3 DEF Reached, VisitedReached
    <3> QED BY <3>1, <3>2, <3>4 DEF LeftUntangled
  <2> QED BY <1>1, <2>1 DEF ParsedIsReachable, Walk, Elems, OneOfEach
<1>2. ParserSpec => []Walk
  BY WalkInit, WalkNext, ParserInvariant, PTL DEF ParserSpec
<1> QED BY <1>1, <1>2, FrontParses, ParserInvariant, PTL

-----------------------------------------------------------------------------
(***************************************************************************)
(* The generated files.  Handled are the jobs that are behind; the cursor  *)
(* stands at the next one.  The path of each of them is taken, the first   *)
(* that claimed it has its text there and its line in the list.            *)
(***************************************************************************)
Cursor  == <<todo.gen, todo.type, todo.file>>
Handled == {j \in Jobs : Before(j, Cursor)}

TakenIsWritten == \A k \in OutPaths : written[k] = None <=> disk[k] = None
DiskHandled    == \A k \in OutPaths : disk[k] # None => \E j \in Handled : k = JobPath(j)
HandledOnDisk  == \A j \in Handled : disk[JobPath(j)] # None
FirstOnDisk    == \A j \in Handled : ~Claimed(j) => disk[JobPath(j)] = JobText(j)
LostByOnce     == \A j \in Handled : Claimed(j) => Generators[j[1]] \in Once
FirstListed    == \A j \in Handled : ~Claimed(j) =>
                      \E n \in 1..Len(outFiles) : outFiles[n] = JobLine(j)
ListedFirst    == \A n \in 1..Len(outFiles) :
                      \E j \in Handled : ~Claimed(j) /\ outFiles[n] = JobLine(j)
ListedOnce     == \A m, n \in 1..Len(outFiles) : outFiles[m] = outFiles[n] => m = n

Kept == /\ TakenIsWritten /\ DiskHandled /\ HandledOnDisk /\ FirstOnDisk
        /\ LostByOnce /\ FirstListed /\ ListedFirst /\ ListedOnce

FrontInv ==
    /\ ParserInv /\ FrontTypeOK
    /\ phase \in {"parse", "unparsed"} => todo = [gen |-> 1, type |-> 1, file |-> 1]
    /\ phase \notin {"parse", "unparsed"} => outcome = "parsed"
    /\ phase \in {"generate", "done"} => todo.type \in 1..Len(idl)
    /\ phase = "generate" /\ todo.gen <= Len(Generators) => todo.file <= Len(Outputs(Gen, Decl))
    /\ phase = "done" => todo.gen > Len(Generators)
    /\ phase = "parse" =>
          /\ written = [k \in OutPaths |-> None] /\ disk = [k \in OutPaths |-> None]
          /\ outFiles = <<>>
    /\ phase \in {"generate", "done"} /\ ~config.skip => Kept

LEMMA ConfigTypes ==
    ASSUME FrontTypeOK
    PROVE  /\ config.skip \in BOOLEAN /\ Generators \in Seq(AllGens) /\ Len(Generators) \in Nat
           /\ \A n \in 1..Len(Generators) : Generators[n] \in AllGens
           /\ \A p \in Found : Name(p) \in Names /\ Kind(p) \in Kinds
<1>1. config \in [types : [Files -> [name : Names, kind : Kinds]],
                  gens : Seq(AllGens), skip : BOOLEAN]
  BY ConfigsAssumption DEF FrontTypeOK
<1>2. \A p \in Found : config.types[FileOf[p]] \in [name : Names, kind : Kinds]
  BY <1>1, FilesAssumption DEF Found
<1> QED BY <1>1, <1>2 DEF Generators, Name, Kind

\* A declaration has one file or two, and each has its path.
LEMMA OutputTypes ==
    ASSUME FrontTypeOK, NEW g \in AllGens, NEW p \in Found
    PROVE  /\ Len(Outputs(g, p)) \in {1, 2}
           /\ \A n \in 1..Len(Outputs(g, p)) :
                 /\ Outputs(g, p)[n] \in FilePrefixes \X Stems
                 /\ OutPath(g, Outputs(g, p)[n]) \in OutPaths
<1> DEFINE outputs == Outputs(g, p)
<1>1. Name(p) \in Stems /\ Helper[Name(p)] \in Stems /\ Base[Name(p)] \in Stems
  BY ConfigTypes, NamesAssumption
<1>2. outputs \in Seq(FilePrefixes \X Stems) /\ Len(outputs) \in {1, 2}
  <2>1. ASSUME NEW f \in FilePrefixes \X Stems, outputs = <<f>>
        PROVE  outputs \in Seq(FilePrefixes \X Stems) /\ Len(outputs) \in {1, 2}
    BY <2>1
  <2>2. ASSUME NEW f \in FilePrefixes \X Stems, NEW h \in FilePrefixes \X Stems, outputs = <<f, h>>
        PROVE  outputs \in Seq(FilePrefixes \X Stems) /\ Len(outputs) \in {1, 2}
    BY <2>2
  <2>3. \A s \in Stems, prefix \in FilePrefixes : <<prefix, s>> \in FilePrefixes \X Stems
    OBVIOUS
  <2>4. "" \in FilePrefixes /\ "cw__" \in FilePrefixes /\ "dh__" \in FilePrefixes
    BY DEF FilePrefixes
  <2>5. CASE g = "cw"
    <3>1. outputs = << <<IF Kind(p) = "interface" THEN "cw__" ELSE "dh__", Name(p)>> >>
      BY <2>5 DEF Outputs, CFiles
    <3> QED BY <1>1, <2>1, <2>3, <2>4, <3>1
  <2>6. CASE g = "py" /\ Kind(p) = "record"
    <3>1. outputs = << <<"", Name(p)>>, <<"", Helper[Name(p)]>> >>
      BY <2>6 DEF Outputs, PyFiles
    <3> QED BY <1>1, <2>2, <2>3, <2>4, <3>1
  <2>7. CASE g = "py" /\ Kind(p) = "record +p"
    <3>1. outputs = << <<"", Base[Name(p)]>>, <<"", Helper[Name(p)]>> >>
      BY <2>7 DEF Outputs, PyFiles
    <3> QED BY <1>1, <2>2, <2>3, <2>4, <3>1
  <2>8. CASE g = "py" /\ Kind(p) \notin {"record", "record +p"}
    <3>1. outputs = << <<"", Name(p)>> >>
      BY <2>8 DEF Outputs, PyFiles
    <3> QED BY <1>1, <2>1, <2>3, <2>4, <3>1
  <2>9. CASE g = "cpp"
    <3>1. outputs = << <<"", Name(p)>> >>
      BY <2>9 DEF Outputs
    <3> QED BY <1>1, <2>1, <2>3, <2>4, <3>1
  <2> QED BY <2>5, <2>6, <2>7, <2>8, <2>9 DEF AllGens
<1> HIDE DEF outputs
<1>3. \A n \in 1..Len(outputs) : outputs[n] \in FilePrefixes \X Stems
  BY <1>2
<1>4. \A n \in 1..Len(outputs) : OutPath(g, outputs[n]) \in OutPaths
  BY <1>3, NamesAssumption DEF OutPath, OutPaths
<1> QED BY <1>2, <1>3, <1>4 DEF outputs

LEMMA JobTypes ==
    ASSUME FrontTypeOK, NEW j \in Jobs
    PROVE  /\ j = <<j[1], j[2], j[3]>>
           /\ j[1] \in 1..Len(Generators) /\ j[2] \in 1..Len(idl) /\ j[3] \in {1, 2}
           /\ Generators[j[1]] \in AllGens /\ idl[j[2]] \in Found
           /\ j[3] <= Len(Outputs(Generators[j[1]], idl[j[2]]))
           /\ JobPath(j) \in OutPaths /\ JobText(j) # None
           /\ JobLine(j) \in AllGens \X FilePrefixes \X Stems
           /\ JobPath(j) = <<JobLine(j)[1], JobLine(j)[2], Lower[JobLine(j)[3]]>>
<1>1. /\ j \in (1..Len(Generators)) \X Generated \X {1, 2}
      /\ j[3] <= Len(Outputs(Generators[j[1]], idl[j[2]]))
  BY DEF Jobs
<1>2. /\ j = <<j[1], j[2], j[3]>> /\ j[1] \in 1..Len(Generators) /\ j[2] \in Generated
      /\ j[3] \in {1, 2}
  BY <1>1
<1>3. j[2] \in 1..Len(idl) /\ idl \in Seq(Found)
  BY <1>2 DEF Generated, FrontTypeOK, ParserTypeOK
<1>4. Generators[j[1]] \in AllGens /\ idl[j[2]] \in Found
  BY <1>2, <1>3, ConfigTypes
<1>5. Len(Outputs(Generators[j[1]], idl[j[2]])) \in {1, 2}
  BY <1>4, OutputTypes
<1>6. j[3] \in 1..Len(Outputs(Generators[j[1]], idl[j[2]]))
  BY <1>1, <1>2, <1>5
<1>7. JobFile(j) \in FilePrefixes \X Stems /\ JobPath(j) \in OutPaths
  BY <1>4, <1>6, OutputTypes DEF JobFile, JobPath
<1>8. JobText(j) # None
  BY <1>2, <1>4, NamesAssumption DEF JobText, Found
<1> QED BY <1>1, <1>2, <1>3, <1>4, <1>7, <1>8 DEF JobLine, JobPath, OutPath

LEMMA FrontInvInit == FrontInit => FrontInv
<1> SUFFICES ASSUME FrontInit PROVE FrontInv
  OBVIOUS
<1>1. ParserInv
  BY ParserInvInit DEF FrontInit
<1>2. FrontTypeOK
  BY <1>1 DEF FrontInit, FrontTypeOK, ParserInv
<1> QED BY <1>1, <1>2 DEF FrontInit, FrontInv

\* At the end all jobs are behind.
LEMMA KeptNoFileLost == FrontInv => NoFileLost
<1> SUFFICES ASSUME FrontInv, phase = "done", ~config.skip PROVE NoFileLost
  BY DEF NoFileLost
<1>1. Kept /\ FrontTypeOK /\ todo.gen > Len(Generators) /\ todo.gen \in Nat
  BY DEF FrontInv, FrontTypeOK
<1>2. Handled = Jobs
  <2>1. \A j \in Jobs : j[1] \in Nat /\ j[1] <= Len(Generators) /\ Len(Generators) \in Nat
    BY <1>1, JobTypes, ConfigTypes
  <2>2. \A j \in Jobs : j[1] < Cursor[1]
    BY <1>1, <2>1 DEF Cursor
  <2> QED BY <2>2 DEF Handled, Before
<1>3. {outFiles[n] : n \in 1..Len(outFiles)} = {JobLine(j) : j \in {i \in Jobs : ~Claimed(i)}}
  <2> DEFINE listed == {outFiles[n] : n \in 1..Len(outFiles)}
             first  == {i \in Jobs : ~Claimed(i)}
             lines  == {JobLine(j) : j \in first}
  <2>1. ASSUME NEW e \in listed PROVE e \in lines
    <3>1. PICK n \in 1..Len(outFiles) : e = outFiles[n]
      BY <2>1
    <3>2. PICK j \in Handled : ~Claimed(j) /\ outFiles[n] = JobLine(j)
      BY <1>1 DEF Kept, ListedFirst
    <3>3. j \in first
      BY <1>2, <3>2
    <3> QED BY <3>1, <3>2, <3>3
  <2>2. ASSUME NEW e \in lines PROVE e \in listed
    <3>1. PICK j \in first : e = JobLine(j)
      BY <2>2
    <3>2. PICK n \in 1..Len(outFiles) : outFiles[n] = JobLine(j)
      BY <1>1, <1>2, <3>1 DEF Kept, FirstListed
    <3> QED BY <3>1, <3>2
  <2> HIDE DEF listed, lines
  <2>3. listed = lines
    BY <2>1, <2>2
  <2> QED BY <2>3 DEF listed, lines
<1> QED BY <1>1, <1>2, <1>3 DEF NoFileLost, Kept, FirstOnDisk, LostByOnce, ListedOnce

-----------------------------------------------------------------------------
\* A generator at work stands at a file of a declaration.
LEMMA GeneratingFacts ==
    ASSUME FrontInv, Generating
    PROVE  /\ idl \in Seq(Found) /\ FrontTypeOK /\ phase = "generate" /\ outcome = "parsed"
           /\ todo.gen \in 1..Len(Generators) /\ todo.type \in 1..Len(idl)
           /\ todo.file \in 1..Len(Outputs(Gen, Decl)) /\ todo.file \in {1, 2}
           /\ Len(idl) \in Nat /\ Len(Generators) \in Nat /\ Len(Outputs(Gen, Decl)) \in {1, 2}
           /\ todo = [gen |-> todo.gen, type |-> todo.type, file |-> todo.file]
           /\ Gen \in AllGens /\ Decl \in Found
           /\ File \in FilePrefixes \X Stems /\ Path \in OutPaths
<1>1. /\ idl \in Seq(Found) /\ FrontTypeOK /\ phase = "generate" /\ outcome = "parsed"
      /\ todo.gen \in 1..Len(Generators) /\ todo.type \in 1..Len(idl)
      /\ todo.file \in Nat \ {0} /\ todo.file <= Len(Outputs(Gen, Decl))
      /\ Len(idl) \in Nat /\ Len(Generators) \in Nat
      /\ todo = [gen |-> todo.gen, type |-> todo.type, file |-> todo.file]
  BY ConfigTypes DEF FrontInv, FrontTypeOK, ParserTypeOK, Generating
<1>2. Gen \in AllGens /\ Decl \in Found
  BY <1>1, ConfigTypes DEF Gen, Decl
<1>3. Len(Outputs(Gen, Decl)) \in {1, 2}
  BY <1>1, <1>2, OutputTypes
<1>4. todo.file \in 1..Len(Outputs(Gen, Decl)) /\ todo.file \in {1, 2}
  <2> DEFINE len == Len(Outputs(Gen, Decl))
  <2>1. len \in {1, 2} /\ todo.file \in Nat \ {0} /\ todo.file <= len
    BY <1>1, <1>3
  <2> HIDE DEF len
  <2>2. todo.file \in 1..len /\ todo.file \in {1, 2}
    BY <2>1, SMT
  <2> QED BY <2>2 DEF len
<1>5. File \in FilePrefixes \X Stems /\ Path \in OutPaths
  BY <1>1, <1>2, <1>4, OutputTypes DEF File, Path
<1> QED BY <1>1, <1>2, <1>3, <1>4, <1>5

\* The job at the cursor.
LEMMA CursorFacts ==
    ASSUME FrontInv, Generating, FileOf[Decl] \notin Externs
    PROVE  /\ Cursor \in Jobs /\ Generators[Cursor[1]] = Gen
           /\ JobPath(Cursor) = Path /\ JobText(Cursor) = <<Decl, todo.file>>
           /\ JobLine(Cursor) = <<Gen, File[1], File[2]>>
           /\ Claimed(Cursor) <=> \E i \in Handled : JobPath(i) = Path
<1>1. todo.type \in Generated
  BY GeneratingFacts DEF Generated, Decl
<1>2. /\ Generators[Cursor[1]] = Gen /\ idl[Cursor[2]] = Decl
      /\ Cursor[3] = todo.file
  BY DEF Cursor, Gen, Decl
<1>3. Cursor \in Jobs
  BY <1>1, <1>2, GeneratingFacts DEF Jobs, Cursor
<1>4. JobPath(Cursor) = Path
  BY <1>2 DEF JobPath, JobFile, Path, File
<1>5. Claimed(Cursor) <=> \E i \in Handled : JobPath(i) = Path
  BY <1>4 DEF Claimed, Handled
<1> QED BY <1>2, <1>3, <1>4, <1>5 DEF JobText, JobLine, JobFile, File

\* The cursor moves over one job, if the declaration is generated, and over none
\* otherwise.
LEMMA NextFacts ==
    ASSUME FrontInv, Generating, UNCHANGED <<idl, config>>,
           \/ FileOf[Decl] \notin Externs /\ NextFile
           \/ FileOf[Decl] \in Externs /\ NextDecl
    PROVE  /\ todo' \in [gen : Nat \ {0}, type : Nat \ {0}, file : Nat \ {0}]
           /\ todo'.type \in 1..Len(idl)
           /\ todo'.gen <= Len(Generators) => todo'.file <= Len(Outputs(Gen', Decl'))
           /\ Handled' = Handled \cup (IF FileOf[Decl] \in Externs THEN {} ELSE {Cursor})
<1> DEFINE len == Len(Outputs(Gen, Decl))
<1>1. /\ todo.gen \in 1..Len(Generators) /\ todo.type \in 1..Len(idl)
      /\ Len(idl) \in Nat /\ Len(Generators) \in Nat /\ FrontTypeOK
      /\ len \in {1, 2} /\ todo.file \in 1..len /\ idl \in Seq(Found)
      /\ todo = [gen |-> todo.gen, type |-> todo.type, file |-> todo.file]
  BY GeneratingFacts
<1>2. /\ todo' = [gen |-> todo'.gen, type |-> todo'.type, file |-> todo'.file]
      /\ \/ /\ FileOf[Decl] \notin Externs /\ todo.file < len
            /\ todo'.gen = todo.gen /\ todo'.type = todo.type /\ todo'.file = todo.file + 1
         \/ /\ FileOf[Decl] \in Externs \/ todo.file = len
            /\ todo.type < Len(idl)
            /\ todo'.gen = todo.gen /\ todo'.type = todo.type + 1 /\ todo'.file = 1
         \/ /\ FileOf[Decl] \in Externs \/ todo.file = len
            /\ todo.type = Len(idl)
            /\ todo'.gen = todo.gen + 1 /\ todo'.type = 1 /\ todo'.file = 1
  <2> HIDE DEF len
  <2>1. CASE FileOf[Decl] \notin Externs /\ todo.file < len
    <3>1. todo' = [todo EXCEPT !.file = @ + 1]
      BY <2>1 DEF NextFile, len
    <3> QED BY <1>1, <2>1, <3>1
  <2>2. CASE (FileOf[Decl] \in Externs \/ todo.file = len) /\ todo.type < Len(idl)
    <3>1. todo' = [todo EXCEPT !.type = @ + 1, !.file = 1]
      BY <1>1, <2>2 DEF NextFile, NextDecl, len
    <3>2. todo' = [gen |-> todo.gen, type |-> todo.type + 1, file |-> 1]
      BY <1>1, <3>1
    <3> QED BY <2>2, <3>2
  <2>3. CASE (FileOf[Decl] \in Externs \/ todo.file = len) /\ todo.type = Len(idl)
    <3>1. todo' = [gen |-> todo.gen + 1, type |-> 1, file |-> 1]
      BY <1>1, <2>3 DEF NextFile, NextDecl, len
    <3> QED BY <2>3, <3>1
  <2> QED BY <1>1, <2>1, <2>2, <2>3
<1>3. /\ todo' \in [gen : Nat \ {0}, type : Nat \ {0}, file : Nat \ {0}]
      /\ todo'.type \in 1..Len(idl)
  <2>1. /\ todo'.gen \in Nat \ {0} /\ todo'.type \in Nat \ {0} /\ todo'.file \in Nat \ {0}
        /\ todo'.type \in 1..Len(idl)
    BY <1>1, <1>2
  <2> QED BY <1>2, <2>1
<1>4. /\ Generated' = Generated /\ Jobs' = Jobs /\ Generators' = Generators
      /\ \A g, p : Outputs(g, p)' = Outputs(g, p)
  BY DEF Generated, Jobs, Generators, Outputs, PyFiles, CFiles, Name, Kind
<1>5. todo'.gen <= Len(Generators) => todo'.file <= Len(Outputs(Gen', Decl'))
  <2> SUFFICES ASSUME todo'.gen <= Len(Generators)
               PROVE  todo'.file <= Len(Outputs(Gen', Decl'))
    OBVIOUS
  <2>1. Gen' = Generators[todo'.gen] /\ Decl' = idl[todo'.type]
    BY <1>4 DEF Gen, Decl
  <2>2. todo'.gen \in 1..Len(Generators)
    BY <1>3
  <2>3. Gen' \in AllGens /\ Decl' \in Found
    BY <1>1, <1>3, <2>1, <2>2, ConfigTypes
  <2>4. Len(Outputs(Gen', Decl')) \in {1, 2}
    BY <1>1, <2>3, OutputTypes
  <2>5. CASE todo'.file = 1
    <3>1. \A n \in {1, 2} : 1 <= n
      BY SMT
    <3> QED BY <2>4, <2>5, <3>1
  <2>6. CASE todo'.gen = todo.gen /\ todo'.type = todo.type /\ todo'.file = todo.file + 1
             /\ todo.file < len
    <3>1. Gen' = Gen /\ Decl' = Decl
      BY <2>1, <2>6 DEF Gen, Decl
    <3> QED BY <1>1, <2>6, <3>1
  <2> QED BY <1>2, <2>5, <2>6
<1>6. ASSUME NEW j \in Jobs
      PROVE  /\ j[1] \in Nat /\ j[2] \in 1..Len(idl) /\ j[3] \in {1, 2}
             /\ j = Cursor <=> j[1] = todo.gen /\ j[2] = todo.type /\ j[3] = todo.file
             /\ j[1] = todo.gen /\ j[2] = todo.type => j[3] <= len /\ FileOf[Decl] \notin Externs
  <2>1. /\ j = <<j[1], j[2], j[3]>> /\ j[1] \in Nat /\ j[2] \in 1..Len(idl) /\ j[3] \in {1, 2}
        /\ j[3] <= Len(Outputs(Generators[j[1]], idl[j[2]]))
    BY <1>1, <1>6, JobTypes
  <2>2. j = Cursor <=> j[1] = todo.gen /\ j[2] = todo.type /\ j[3] = todo.file
    BY <2>1 DEF Cursor
  <2>3. j[2] \in Generated
    BY <1>6 DEF Jobs
  <2> QED BY <2>1, <2>2, <2>3 DEF Gen, Decl, Generated
<1>7. ASSUME NEW j \in Jobs
      PROVE  Before(j, Cursor)' <=> Before(j, Cursor) \/ (FileOf[Decl] \notin Externs /\ j = Cursor)
  <2>1. Before(j, Cursor) <=>
            \/ j[1] < todo.gen
            \/ j[1] = todo.gen /\ j[2] < todo.type
            \/ j[1] = todo.gen /\ j[2] = todo.type /\ j[3] < todo.file
    BY DEF Before, Cursor
  <2>2. Before(j, Cursor)' <=>
            \/ j[1] < todo'.gen
            \/ j[1] = todo'.gen /\ j[2] < todo'.type
            \/ j[1] = todo'.gen /\ j[2] = todo'.type /\ j[3] < todo'.file
    BY DEF Before, Cursor
  <2> HIDE DEF len
  <2> QED BY <1>1, <1>2, <1>6, <2>1, <2>2
<1>8. Handled' = {j \in Jobs : Before(j, Cursor)'}
  BY <1>4 DEF Handled
<1>9. FileOf[Decl] \notin Externs => Cursor \in Jobs
  BY CursorFacts
<1>10. Handled' = Handled \cup (IF FileOf[Decl] \in Externs THEN {} ELSE {Cursor})
  BY <1>7, <1>8, <1>9 DEF Handled
<1> QED BY <1>3, <1>5, <1>10

\* What was claimed stays so while the declarations and the options stay.
LEMMA JobsStay ==
    ASSUME UNCHANGED <<idl, config>>
    PROVE  /\ UNCHANGED <<Generators, Jobs>>
           /\ \A j : /\ JobPath(j)' = JobPath(j) /\ JobText(j)' = JobText(j)
                    /\ JobLine(j)' = JobLine(j) /\ Claimed(j)' = Claimed(j)
<1>1. /\ UNCHANGED <<Generators, Jobs>>
      /\ \A g, p : Outputs(g, p)' = Outputs(g, p)
  BY DEF Generated, Jobs, Generators, Outputs, PyFiles, CFiles, Name, Kind
<1>2. \A j : JobFile(j)' = JobFile(j)
  BY <1>1 DEF JobFile
<1>3. \A j : /\ JobPath(j)' = JobPath(j) /\ JobText(j)' = JobText(j)
            /\ JobLine(j)' = JobLine(j)
  BY <1>1, <1>2 DEF JobPath, JobText, JobLine
<1>4. \A j : Claimed(j)' = Claimed(j)
  BY <1>1, <1>3 DEF Claimed
<1> QED BY <1>1, <1>3, <1>4

\* A file for the declaration, at a path that was free.
LEMMA WriteKept ==
    ASSUME FrontInv, Generating, ~config.skip, FileOf[Decl] \notin Externs,
           ~Occupied, Take, Write, List, NextFile, UNCHANGED <<parserVars, config>>
    PROVE  Kept'
<1> DEFINE cur == Cursor
<1>1. /\ FrontTypeOK /\ Path \in OutPaths /\ phase = "generate" /\ Decl \in Found
      /\ File \in FilePrefixes \X Stems /\ Gen \in AllGens /\ todo.file \in {1, 2}
  BY GeneratingFacts
<1>2. Kept
  BY <1>1 DEF FrontInv
<1>3. UNCHANGED <<idl, config>>
  BY DEF parserVars
<1>4. Handled' = Handled \cup {cur}
  BY <1>3, NextFacts
<1>5. /\ cur \in Jobs /\ Generators[cur[1]] = Gen /\ JobPath(cur) = Path
      /\ JobText(cur) = <<Decl, todo.file>> /\ JobLine(cur) = <<Gen, File[1], File[2]>>
      /\ Claimed(cur) <=> \E i \in Handled : JobPath(i) = Path
  BY CursorFacts
<1> HIDE DEF cur
<1>6. \A j \in Handled : j \in Jobs /\ JobPath(j) \in OutPaths /\ disk[JobPath(j)] # None
  BY <1>1, <1>2, JobTypes DEF Kept, HandledOnDisk, Handled
<1>7. disk[Path] = None /\ File[2] # None /\ JobText(cur) # None
  BY <1>1, <1>2, <1>5, JobTypes, NamesAssumption DEF Occupied, Kept, TakenIsWritten
<1>8. ~Claimed(cur)
  BY <1>5, <1>6, <1>7
<1>9. /\ disk'[Path] = JobText(cur) /\ written'[Path] = File[2]
      /\ \A k \in OutPaths : k # Path => disk'[k] = disk[k] /\ written'[k] = written[k]
      /\ \A j \in Handled : JobPath(j) # Path /\ disk'[JobPath(j)] = disk[JobPath(j)]
  BY <1>1, <1>5, <1>6, <1>7 DEF Write, Take, FrontTypeOK
<1>10. /\ Len(outFiles') = Len(outFiles) + 1 /\ Len(outFiles) \in Nat
       /\ \A n \in 1..Len(outFiles) : outFiles'[n] = outFiles[n]
       /\ outFiles'[Len(outFiles) + 1] = JobLine(cur)
  BY <1>1, <1>5 DEF List, FrontTypeOK
<1>11. /\ UNCHANGED <<Generators, Jobs>>
       /\ \A j : /\ JobPath(j)' = JobPath(j) /\ JobText(j)' = JobText(j)
                /\ JobLine(j)' = JobLine(j) /\ Claimed(j)' = Claimed(j)
  BY <1>3, JobsStay
<1>12. TakenIsWritten'
  BY <1>1, <1>2, <1>7, <1>9 DEF Kept, TakenIsWritten
<1>13. DiskHandled'
  BY <1>2, <1>4, <1>5, <1>9, <1>11 DEF Kept, DiskHandled
<1>14. HandledOnDisk'
  BY <1>4, <1>5, <1>6, <1>7, <1>9, <1>11 DEF HandledOnDisk
<1>15. FirstOnDisk'
  BY <1>2, <1>4, <1>5, <1>9, <1>11 DEF Kept, FirstOnDisk
<1>16. LostByOnce'
  BY <1>2, <1>4, <1>8, <1>11 DEF Kept, LostByOnce
<1>17. FirstListed'
  <2> SUFFICES ASSUME NEW j \in Handled', ~Claimed(j)
               PROVE  \E n \in 1..Len(outFiles') : outFiles'[n] = JobLine(j)
    BY <1>11 DEF FirstListed
  <2>1. CASE j = cur
    BY <1>10, <2>1
  <2>2. CASE j \in Handled
    BY <1>2, <1>10, <2>2 DEF Kept, FirstListed
  <2> QED BY <1>4, <2>1, <2>2
<1>18. ListedFirst'
  <2> SUFFICES ASSUME NEW n \in 1..Len(outFiles')
               PROVE  \E j \in Handled' : ~Claimed(j) /\ outFiles'[n] = JobLine(j)
    BY <1>11 DEF ListedFirst
  <2>1. CASE n = Len(outFiles) + 1
    BY <1>4, <1>8, <1>10, <2>1
  <2>2. CASE n \in 1..Len(outFiles)
    BY <1>2, <1>4, <1>10, <2>2 DEF Kept, ListedFirst
  <2> QED BY <1>10, <2>1, <2>2
<1>19. ListedOnce'
  <2>1. \A n \in 1..Len(outFiles) : outFiles[n] # JobLine(cur)
    <3> SUFFICES ASSUME NEW n \in 1..Len(outFiles), outFiles[n] = JobLine(cur) PROVE FALSE
      OBVIOUS
    <3>1. PICK j \in Handled : outFiles[n] = JobLine(j)
      BY <1>2 DEF Kept, ListedFirst
    <3>2. JobPath(j) = <<JobLine(j)[1], JobLine(j)[2], Lower[JobLine(j)[3]]>>
      BY <1>1, <1>6, JobTypes
    <3>3. JobPath(cur) = <<JobLine(cur)[1], JobLine(cur)[2], Lower[JobLine(cur)[3]]>>
      BY <1>1, <1>5, JobTypes
    <3>4. JobLine(j) = JobLine(cur)
      BY <3>1
    <3>5. JobPath(j) = JobPath(cur)
      BY <3>2, <3>3, <3>4
    <3> QED BY <1>5, <1>9, <3>5
  <2> QED BY <1>2, <1>10, <2>1 DEF Kept, ListedOnce
<1> QED BY <1>12, <1>13, <1>14, <1>15, <1>16, <1>17, <1>18, <1>19 DEF Kept

\* No file for the declaration: its path was taken.
LEMMA DropKept ==
    ASSUME FrontInv, Generating, ~config.skip, FileOf[Decl] \notin Externs, Gen \in Once,
           Occupied, Take, NextFile, UNCHANGED <<parserVars, config, disk, outFiles>>
    PROVE  Kept'
<1> DEFINE cur == Cursor
<1>1. FrontTypeOK /\ Path \in OutPaths /\ phase = "generate" /\ File \in FilePrefixes \X Stems
  BY GeneratingFacts
<1>2. Kept
  BY <1>1 DEF FrontInv
<1>3. UNCHANGED <<idl, config, disk, outFiles>>
  BY DEF parserVars
<1>4. Handled' = Handled \cup {cur}
  BY <1>3, NextFacts
<1>5. /\ Generators[cur[1]] = Gen /\ JobPath(cur) = Path
      /\ Claimed(cur) <=> \E i \in Handled : JobPath(i) = Path
  BY CursorFacts
<1> HIDE DEF cur
<1>6. disk[Path] # None /\ File[2] # None
  BY <1>1, <1>2, NamesAssumption DEF Occupied, Kept, TakenIsWritten
<1>7. Claimed(cur)
  BY <1>1, <1>2, <1>5, <1>6 DEF Kept, DiskHandled
<1>8. /\ UNCHANGED <<Generators, Jobs>>
      /\ \A j : /\ JobPath(j)' = JobPath(j) /\ JobText(j)' = JobText(j)
               /\ JobLine(j)' = JobLine(j) /\ Claimed(j)' = Claimed(j)
  BY <1>3, JobsStay
<1>9. TakenIsWritten'
  BY <1>1, <1>2, <1>3, <1>6 DEF Kept, TakenIsWritten, Take, FrontTypeOK
<1>10. DiskHandled'
  BY <1>2, <1>3, <1>4, <1>8 DEF Kept, DiskHandled
<1>11. HandledOnDisk'
  BY <1>2, <1>3, <1>4, <1>5, <1>6, <1>8 DEF Kept, HandledOnDisk
<1>12. FirstOnDisk'
  BY <1>2, <1>3, <1>4, <1>7, <1>8 DEF Kept, FirstOnDisk
<1>13. LostByOnce'
  BY <1>2, <1>4, <1>5, <1>8 DEF Kept, LostByOnce
<1>14. FirstListed'
  BY <1>2, <1>3, <1>4, <1>7, <1>8 DEF Kept, FirstListed
<1>15. ListedFirst'
  BY <1>2, <1>3, <1>4, <1>8 DEF Kept, ListedFirst
<1>16. ListedOnce'
  BY <1>2, <1>3 DEF Kept, ListedOnce
<1> QED BY <1>9, <1>10, <1>11, <1>12, <1>13, <1>14, <1>15, <1>16 DEF Kept

LEMMA FrontInvNext == FrontInv /\ [FrontNext]_frontVars => FrontInv'
<1> SUFFICES ASSUME FrontInv, [FrontNext]_frontVars PROVE FrontInv'
  OBVIOUS
<1>1. ParserInv'
  <2>1. [ParserNext]_parserVars
    BY DEF FrontNext, Main, Parse, ParseFails, Resolve, SkipExtern, CreateFile,
           CreateFileOnce, Finish, frontVars
  <2> QED BY <2>1, ParserInvNext DEF FrontInv
<1>2. FrontTypeOK /\ ParserTypeOK'
  BY <1>1 DEF FrontInv, ParserInv
<1>3. ASSUME UNCHANGED <<config, written, disk, outFiles, idl, Handled>>, Kept
      PROVE  Kept'
  <2>1. /\ UNCHANGED <<Generators, Jobs>>
        /\ \A j : /\ JobPath(j)' = JobPath(j) /\ JobText(j)' = JobText(j)
                 /\ JobLine(j)' = JobLine(j) /\ Claimed(j)' = Claimed(j)
    BY <1>3, JobsStay
  <2>2. TakenIsWritten' /\ DiskHandled' /\ HandledOnDisk'
    BY <1>3, <2>1 DEF Kept, TakenIsWritten, DiskHandled, HandledOnDisk
  <2>3. FirstOnDisk' /\ LostByOnce'
    BY <1>3, <2>1 DEF Kept, FirstOnDisk, LostByOnce
  <2>4. FirstListed' /\ ListedFirst' /\ ListedOnce'
    BY <1>3, <2>1 DEF Kept, FirstListed, ListedFirst, ListedOnce
  <2> QED BY <2>2, <2>3, <2>4 DEF Kept
<1>4. ASSUME UNCHANGED <<config, todo, idl>>
      PROVE  /\ UNCHANGED <<Handled, Generators>>
             /\ Len(Outputs(Gen, Decl))' = Len(Outputs(Gen, Decl))
  <2>1. UNCHANGED <<Generators, Jobs, Cursor>>
    BY <1>4, JobsStay DEF Cursor
  <2>2. UNCHANGED <<Gen, Decl>>
    BY <1>4, <2>1 DEF Gen, Decl
  <2> QED BY <1>4, <2>1, <2>2 DEF Handled, Before, Outputs, PyFiles, CFiles, Name, Kind
<1>5. CASE Parse
  <2>1. phase = "parse" /\ UNCHANGED <<config, phase, todo, written, disk, outFiles>>
    BY <1>5 DEF Parse, genVars
  <2> QED BY <1>1, <1>2, <2>1 DEF FrontInv, FrontTypeOK
<1>6. CASE ParseFails
  <2>1. UNCHANGED <<config, todo, written, disk, outFiles>> /\ phase' = "unparsed"
        /\ phase = "parse"
    BY <1>6 DEF ParseFails
  <2> QED BY <1>1, <1>2, <2>1 DEF FrontInv, FrontTypeOK
<1>7. CASE Resolve
  <2>1. /\ UNCHANGED <<config, todo, written, disk, outFiles, idl, outcome>>
        /\ phase' \in {"duplicate", "generate"} /\ phase = "parse" /\ outcome = "parsed"
    BY <1>7 DEF Resolve, parserVars
  <2>2. /\ todo' = [gen |-> 1, type |-> 1, file |-> 1] /\ outFiles' = <<>>
        /\ written' = [k \in OutPaths |-> None] /\ disk' = [k \in OutPaths |-> None]
    BY <2>1 DEF FrontInv
  <2>3. idl # <<>> /\ idl \in Seq(Found)
    BY <2>1 DEF FrontInv, ParserInv, ParserTypeOK, Phases
  <2>4. Len(idl) \in Nat /\ Len(idl) > 0
    BY <2>3
  <2>5. UNCHANGED Handled /\ Len(Outputs(Gen, Decl))' = Len(Outputs(Gen, Decl))
        /\ UNCHANGED Generators
    BY <1>4, <2>1
  <2>6. Cursor = <<1, 1, 1>>
    BY <2>1, <2>2 DEF Cursor
  <2>7. \A j \in Jobs : ~Before(j, Cursor)
    <3> SUFFICES ASSUME NEW j \in Jobs PROVE ~Before(j, Cursor)
      OBVIOUS
    <3>1. /\ j[1] \in 1..Len(Generators) /\ j[2] \in 1..Len(idl) /\ j[3] \in {1, 2}
          /\ Len(Generators) \in Nat
      BY <1>2, JobTypes, ConfigTypes
    <3>2. j[1] >= 1 /\ j[2] >= 1 /\ j[3] >= 1 /\ j[1] \in Nat /\ j[2] \in Nat /\ j[3] \in Nat
      BY <2>4, <3>1
    <3> QED BY <2>6, <3>2 DEF Before
  <2>8. Handled' = {}
    BY <2>5, <2>7 DEF Handled
  <2>9. Len(outFiles') = 0
    BY <2>2
  <2>10. Kept'
    BY <2>2, <2>8, <2>9
       DEF Kept, TakenIsWritten, DiskHandled, HandledOnDisk, FirstOnDisk, LostByOnce,
           FirstListed, ListedFirst, ListedOnce
  <2>11. todo'.type \in (1..Len(idl))'
    BY <2>1, <2>2, <2>4
  <2>12. (todo.gen <= Len(Generators) => todo.file <= Len(Outputs(Gen, Decl)))'
    <3> SUFFICES ASSUME todo.gen <= Len(Generators)
                 PROVE  todo.file <= Len(Outputs(Gen, Decl))
      BY <2>1, <2>5
    <3>1. todo.gen = 1 /\ todo.type = 1 /\ todo.file = 1 /\ Len(Generators) \in Nat
      BY <1>2, <2>1, <2>2, ConfigTypes
    <3>2. 1 \in 1..Len(Generators) /\ 1 \in 1..Len(idl)
      BY <2>4, <3>1
    <3>3. Gen \in AllGens /\ Decl \in Found
      BY <1>2, <2>3, <3>1, <3>2, ConfigTypes DEF Gen, Decl
    <3>4. Len(Outputs(Gen, Decl)) \in {1, 2}
      BY <1>2, <3>3, OutputTypes
    <3>5. \A n \in {1, 2} : 1 <= n
      BY SMT
    <3> QED BY <3>1, <3>4, <3>5
  <2> QED BY <1>1, <1>2, <2>1, <2>10, <2>11, <2>12 DEF FrontInv, FrontTypeOK
<1>8. CASE SkipExtern
  <2>1. /\ Generating /\ NextDecl /\ FileOf[Decl] \in Externs
        /\ UNCHANGED <<config, phase, written, disk, outFiles, idl, outcome>>
    BY <1>8 DEF SkipExtern, parserVars
  <2>2. phase = "generate" /\ outcome = "parsed"
    BY <2>1, GeneratingFacts
  <2>3. /\ todo' \in [gen : Nat \ {0}, type : Nat \ {0}, file : Nat \ {0}]
        /\ todo'.type \in 1..Len(idl)
        /\ todo'.gen <= Len(Generators) => todo'.file <= Len(Outputs(Gen', Decl'))
        /\ Handled' = Handled
    BY <2>1, NextFacts
  <2>4. ASSUME Kept PROVE Kept'
    BY <1>3, <2>1, <2>3, <2>4
  <2>5. /\ todo'.type \in (1..Len(idl))'
        /\ (todo.gen <= Len(Generators) => todo.file <= Len(Outputs(Gen, Decl)))'
    BY <2>1, <2>3, JobsStay DEF Outputs, PyFiles, CFiles, Name, Kind
  <2> QED BY <1>1, <1>2, <2>1, <2>2, <2>3, <2>4, <2>5 DEF FrontInv, FrontTypeOK
<1>9. ASSUME Generating, FileOf[Decl] \notin Externs, UNCHANGED <<parserVars, config>>
      PROVE  /\ phase = "generate" /\ outcome' = "parsed" /\ UNCHANGED <<config, idl>>
             /\ Take => written' \in [OutPaths -> Stems \cup {None}]
             /\ Write => disk' \in [OutPaths -> (Found \X {1, 2}) \cup {None}]
             /\ List => outFiles' \in Seq(AllGens \X FilePrefixes \X Stems)
             /\ NextFile =>
                   /\ todo' \in [gen : Nat \ {0}, type : Nat \ {0}, file : Nat \ {0}]
                   /\ todo'.type \in (1..Len(idl))'
                   /\ (todo.gen <= Len(Generators) => todo.file <= Len(Outputs(Gen, Decl)))'
  <2>1. UNCHANGED <<outcome, idl, config>>
    BY <1>9 DEF parserVars
  <2>2. /\ phase = "generate" /\ outcome = "parsed" /\ Gen \in AllGens
        /\ File \in FilePrefixes \X Stems /\ todo.file \in {1, 2}
        /\ Decl \in Found /\ Path \in OutPaths
    BY <1>9, GeneratingFacts
  <2>3. ASSUME NextFile
        PROVE  /\ todo' \in [gen : Nat \ {0}, type : Nat \ {0}, file : Nat \ {0}]
               /\ todo'.type \in (1..Len(idl))'
               /\ (todo.gen <= Len(Generators) => todo.file <= Len(Outputs(Gen, Decl)))'
    <3>1. /\ todo' \in [gen : Nat \ {0}, type : Nat \ {0}, file : Nat \ {0}]
          /\ todo'.type \in 1..Len(idl)
          /\ todo'.gen <= Len(Generators) => todo'.file <= Len(Outputs(Gen', Decl'))
      BY <1>9, <2>1, <2>3, NextFacts
    <3> QED BY <2>1, <3>1, JobsStay DEF Outputs, PyFiles, CFiles, Name, Kind
  <2>4. List => outFiles' \in Seq(AllGens \X FilePrefixes \X Stems)
    BY <1>2, <2>2 DEF List, FrontTypeOK
  <2>5. Take => written' \in [OutPaths -> Stems \cup {None}]
    BY <1>2, <2>2 DEF Take, FrontTypeOK
  <2>6. Write => disk' \in [OutPaths -> (Found \X {1, 2}) \cup {None}]
    BY <1>2, <2>2 DEF Write, FrontTypeOK
  <2> QED BY <2>1, <2>2, <2>3, <2>4, <2>5, <2>6
<1>10. CASE CreateFile
  <2>1. /\ Generating /\ FileOf[Decl] \notin Externs /\ List
        /\ UNCHANGED <<parserVars, config>>
    BY <1>10 DEF CreateFile
  <2>2. CASE config.skip /\ NextFile /\ UNCHANGED <<phase, written, disk>>
    BY <1>1, <1>2, <1>9, <2>1, <2>2 DEF FrontInv, FrontTypeOK
  <2>3. CASE Take /\ phase' = "refused" /\ UNCHANGED <<todo, disk>>
    BY <1>1, <1>2, <1>9, <2>1, <2>3 DEF FrontInv, FrontTypeOK
  <2>4. CASE /\ ~config.skip /\ ~Occupied /\ Take /\ Write /\ NextFile /\ UNCHANGED phase
    <3>1. Kept'
      BY <2>1, <2>4, WriteKept
    <3> QED BY <1>1, <1>2, <1>9, <2>1, <2>4, <3>1 DEF FrontInv, FrontTypeOK
  <2> QED BY <1>10, <2>2, <2>3, <2>4 DEF CreateFile
<1>11. CASE CreateFileOnce
  <2>1. /\ Generating /\ FileOf[Decl] \notin Externs /\ Gen \in Once /\ Take
        /\ NextFile /\ UNCHANGED <<parserVars, config, phase>>
    BY <1>11 DEF CreateFileOnce
  <2>2. CASE Occupied /\ UNCHANGED <<disk, outFiles>>
    <3>1. ~config.skip => Kept'
      BY <2>1, <2>2, DropKept
    <3> QED BY <1>1, <1>2, <1>9, <2>1, <2>2, <3>1 DEF FrontInv, FrontTypeOK
  <2>3. CASE /\ ~Occupied /\ List
             /\ IF config.skip THEN UNCHANGED disk ELSE Write
    <3>1. ~config.skip => Kept'
      BY <2>1, <2>3, WriteKept
    <3> QED BY <1>1, <1>2, <1>9, <2>1, <2>3, <3>1 DEF FrontInv, FrontTypeOK
  <2> QED BY <1>11, <2>2, <2>3 DEF CreateFileOnce
<1>12. CASE Finish
  <2>1. /\ UNCHANGED <<config, todo, written, disk, outFiles, idl, outcome>>
        /\ phase = "generate" /\ phase' = "done" /\ todo.gen > Len(Generators)
    BY <1>12 DEF Finish, parserVars
  <2> QED BY <1>1, <1>2, <1>3, <1>4, <2>1 DEF FrontInv, FrontTypeOK
<1>13. CASE UNCHANGED frontVars
  <2>1. UNCHANGED <<config, todo, written, disk, outFiles, idl, outcome, phase>>
    BY <1>13 DEF frontVars, genVars, parserVars
  <2> QED BY <1>1, <1>2, <1>3, <1>4, <2>1 DEF FrontInv, FrontTypeOK
<1> QED BY <1>5, <1>6, <1>7, <1>8, <1>10, <1>11, <1>12, <1>13 DEF FrontNext, Main

\* For every project and every choice of generators: a path keeps the text of the
\* first that had a claim to it, only a generator that uses createFileOnce() leaves
\* files out, and the list of output files names exactly those written.
THEOREM FirstClaimKept == FrontSpec => []NoFileLost
<1>1. FrontInv => NoFileLost
  BY KeptNoFileLost
<1> QED BY <1>1, FrontInvInit, FrontInvNext, PTL DEF FrontSpec

\* Every variable keeps to its type.
THEOREM FrontTyped == FrontSpec => []FrontTypeOK
<1>1. FrontInv => FrontTypeOK
  BY DEF FrontInv
<1> QED BY <1>1, FrontInvInit, FrontInvNext, PTL DEF FrontSpec
=============================================================================
