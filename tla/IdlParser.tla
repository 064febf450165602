----------------------------- MODULE IdlParser ------------------------------
(***************************************************************************)
(* The parser's walk through the imports of an IDL project (parser.scala). *)
(* parseFile() calls itself for every @import of the file it has read and  *)
(* puts the declarations it gets in front of those it has; @extern names a *)
(* YAML file, which imports nothing.  Files are told apart by their paths, *)
(* normalised but neither made absolute nor freed of symbolic links, so    *)
(* that one file may be known by several.                                  *)
(*                                                                         *)
(* A file stands for its imports and its declarations; the declarations of *)
(* a file are one unit, named by the path under which it was read.         *)
(***************************************************************************)
EXTENDS Naturals, Sequences

CONSTANTS
    Refs,      \* files as directives name them, found by importFile()
    Paths,     \* normalised paths
    Normal,    \* Refs -> Paths
    Files,
    FileOf,    \* the file at a path, or None
    Externs,   \* the YAML files among Files
    Broken,    \* the files that do not parse
    Projects,  \* what may be imported: a set of functions Files -> Seq(Refs)
    Root,      \* the path given by --idl
    None

ASSUME NormalAssumption == Normal \in [Refs -> Paths]
ASSUME FilesAssumption ==
    /\ None \notin Files \cup Paths
    /\ FileOf \in [Paths -> Files \cup {None}]
    /\ Externs \subseteq Files /\ Broken \subseteq Files
    /\ Root \in Paths /\ FileOf[Root] \notin Externs
ASSUME ProjectsAssumption ==
    /\ Projects \subseteq [Files -> Seq(Refs)]
    /\ \A f \in Externs, project \in Projects : project[f] = <<>>

VARIABLES
    imports,   \* the project: what each file imports, in order
    stack,     \* fileStack with the locals of each parseFile()
    visited,   \* visitedFiles
    inFiles,   \* what was written to --list-in-files
    outcome,   \* "new", "running", "parsed" or why parsing failed
    idl        \* the declarations, when parsed

parserVars == <<imports, stack, visited, inFiles, outcome, idl>>

Failures == {"missing", "syntax", "circular"}
Found    == {p \in Paths : FileOf[p] # None}
Frames   == [path : Found, next : Nat \ {0}, types : Seq(Found) \ {<<>>}]

ParserTypeOK ==
    /\ imports \in [Files -> Seq(Refs)]
    /\ stack \in Seq(Frames)
    /\ visited \in SUBSET Paths
    /\ inFiles \in Seq(Paths)
    /\ outcome \in {"new", "running", "parsed"} \cup Failures
    /\ idl \in Seq(Found)

ParserInit ==
    /\ imports \in Projects
    /\ stack = <<>>
    /\ visited = {}
    /\ inFiles = <<>>
    /\ outcome = "new"
    /\ idl = <<>>

-----------------------------------------------------------------------------
Depth == Len(stack)
Top   == stack[Depth]
OnStack(p) == \E n \in 1..Depth : stack[n].path = p

\* The import directives of the file at p ...
ImportsOf(p) == IF FileOf[p] = None THEN <<>> ELSE imports[FileOf[p]]
\* ... and the path of the n-th.
Import(p, n) == Normal[ImportsOf(p)[n]]

\* One of the imports is nowhere: importFile() finds out while p is parsed.
Dangling(p) == \E n \in 1..Len(ImportsOf(p)) : FileOf[Import(p, n)] = None

Fail(why) == /\ outcome' = why
             /\ UNCHANGED <<stack, idl>>

\* Mutant: the file is not marked.
Visit_Unmarked(p) == inFiles' = Append(inFiles, p) /\ UNCHANGED visited
\* A file is listed and marked before it is opened.
Visit(p) == /\ inFiles' = Append(inFiles, p)
            /\ visited' = visited \cup {p}

\* parseFile(): the whole file is read, then its imports are walked through.
Enter(p) ==
    /\ Visit(p)
    /\ \/ (FileOf[p] = None \/ Dangling(p)) /\ Fail("missing")
       \/ FileOf[p] \in Broken /\ Fail("syntax")
       \/ /\ FileOf[p] # None /\ ~Dangling(p) /\ FileOf[p] \notin Broken
          /\ stack' = Append(stack, [path |-> p, next |-> 1, types |-> <<p>>])
          /\ outcome' = "running"
          /\ UNCHANGED idl

Start == outcome = "new" /\ Enter(Root) /\ UNCHANGED imports

\* The frame below, or this one, goes on with its next import and has `types`
\* in front of its own.
Advance(s, types) ==
    [s EXCEPT ![Len(s)] =
        [path |-> @.path, next |-> @.next + 1, types |-> types \o @.types]]

\* The innermost parseFile() is at the import of p.
At(p) == /\ outcome = "running"
         /\ Top.next <= Len(ImportsOf(Top.path))
         /\ p = Import(Top.path, Top.next)

\* Mutant: only the importing file itself is looked for.
Circular_Self(p) == Top.path = p
Circular(p) == OnStack(p)

ImportCircular(p) ==
    /\ At(p) /\ Circular(p)
    /\ Fail("circular")
    /\ UNCHANGED <<imports, visited, inFiles>>

\* Mutant: an import that was visited before is left for later.
SkipVisited_Stay(s) == s
SkipVisited(s) == Advance(s, <<>>)

ImportVisited(p) ==
    /\ At(p) /\ ~Circular(p) /\ p \in visited
    /\ stack' = SkipVisited(stack)
    /\ UNCHANGED <<imports, visited, inFiles, outcome, idl>>

ImportIdl(p) ==
    /\ At(p) /\ ~Circular(p) /\ p \notin visited
    /\ FileOf[p] \notin Externs
    /\ Enter(p)
    /\ UNCHANGED imports

\* parseExternFile(): pushed, read and popped.
ImportExtern(p) ==
    /\ At(p) /\ ~Circular(p) /\ p \notin visited
    /\ FileOf[p] \in Externs
    /\ Visit(p)
    /\ IF FileOf[p] \in Broken
       THEN Fail("syntax")
       ELSE stack' = Advance(stack, <<p>>) /\ UNCHANGED <<outcome, idl>>
    /\ UNCHANGED imports

\* Mutant: the types of the file replace those read before.
Leave_Drop(s, types) == Advance(s, SubSeq(types, 1, 1))
\* parseFile() returns into the one below it.
Leave(s, types) == Advance(s, types)

Return ==
    /\ outcome = "running"
    /\ Top.next > Len(ImportsOf(Top.path))
    /\ IF Depth = 1
       THEN stack' = <<>> /\ outcome' = "parsed" /\ idl' = Top.types
       ELSE /\ stack' = Leave(SubSeq(stack, 1, Depth - 1), Top.types)
            /\ UNCHANGED <<outcome, idl>>
    /\ UNCHANGED <<imports, visited, inFiles>>

ParserNext ==
    \/ Start \/ Return
    \/ \E p \in Paths : \/ ImportCircular(p) \/ ImportVisited(p)
                        \/ ImportIdl(p) \/ ImportExtern(p)

ParserSpec == ParserInit /\ [][ParserNext]_parserVars

-----------------------------------------------------------------------------
(* Properties.                                                             *)

\* However many files import it, by whatever spellings that normalise() makes one, a
\* path is read once: the list of input files does not name it twice.  A file that
\* has several paths, through a symbolic link, is read by each of them.
ReadOnce ==
    \A m, n \in 1..Len(inFiles) : inFiles[m] = inFiles[n] => m = n

\* While parsing has not failed, a file that has been left has had all its
\* imports left before it: none was skipped while it was still being read.
\* So the order in which files are left has no cycle, and what is parsed in the
\* end is closed under imports.
Left(p) == p \in visited /\ ~OnStack(p)

ImportsLeftFirst ==
    outcome \notin Failures =>
        \A p \in Paths : Left(p) =>
            \A n \in 1..Len(ImportsOf(p)) : Left(Import(p, n))

\* The paths that --idl reaches through imports: those that no set can do without
\* that has Root and, with a path, all that it imports.
Closed(S) ==
    /\ Root \in S
    /\ \A p \in S : \A n \in 1..Len(ImportsOf(p)) : Import(p, n) \in S
Reached == {p \in Paths : \A S \in SUBSET Paths : Closed(S) => p \in S}

\* Every one of these paths imports one of them: there is a cycle among them.
Tangled(C) ==
    C # {} /\ \A p \in C : \E n \in 1..Len(ImportsOf(p)) : Import(p, n) \in C

\* What is parsed is what --idl reaches, each file once: no file is left out on
\* the way back up, and a diamond is not taken for a cycle, nor a cycle for a
\* diamond.
ParsedIsReachable ==
    /\ outcome = "parsed" =>
          /\ {idl[n] : n \in 1..Len(idl)} = Reached
          /\ \A m, n \in 1..Len(idl) : idl[m] = idl[n] => m = n
          /\ \A C \in SUBSET Reached : ~Tangled(C)
    /\ outcome = "circular" => \E C \in SUBSET Reached : Tangled(C)
=============================================================================
