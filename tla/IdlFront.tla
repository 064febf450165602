------------------------------ MODULE IdlFront ------------------------------
(***************************************************************************)
(* A run of the program, from the IDL files to the generated ones          *)
(* (Main.scala): IdlParser, then the resolver's check of top-level names   *)
(* (resolver.scala), then the generators that the options enable, one      *)
(* after the other, each of them over all types, with the table of written *)
(* files that they share (generator.scala).                                *)
(*                                                                         *)
(* Three generators stand for all: C++, which writes a file with the name  *)
(* of the type; Python, which writes two for a record and passes over a    *)
(* path that is taken; and the C wrapper, whose prefixes tell interfaces   *)
(* from the rest.  The names are used as they are, which is the default    *)
(* style of file names of all three.  Files of one type that differ in     *)
(* their extension alone are one file here, and those that the last two    *)
(* write for containers are left out.                                      *)
(*                                                                         *)
(* On many file systems two names that differ in case are one file, so     *)
(* files are known by their lower-cased paths (OutPaths).                  *)
(***************************************************************************)
EXTENDS IdlParser

CONSTANTS
    Names,    \* names of types
    Stems,    \* names of files, without prefix and extension
    Lower,    \* a stem in lower case
    Helper,   \* the name of a type with "_helper" behind it
    Base,     \* the name of a type with "_base" behind it
    Configs   \* the types that the files declare, and the options

Kinds    == {"interface", "enum", "record", "record +p"}  \* +p: extended in Python
AllGens  == {"cpp", "py", "cw"}
Once     == {"py"}  \* the generators that use createFileOnce()
FilePrefixes == {"", "cw__", "dh__"}

ASSUME NamesAssumption ==
    /\ None \notin Stems \cup (Paths \X {1, 2}) /\ Names \subseteq Stems /\ Lower \in [Stems -> Stems]
    /\ Helper \in [Names -> Stems] /\ Base \in [Names -> Stems]
ASSUME ConfigsAssumption ==
    Configs \subseteq [types : [Files -> [name : Names, kind : Kinds]],
                       gens  : Seq(AllGens),
                       skip  : BOOLEAN]

VARIABLES
    config,    \* what the files declare, the enabled generators, --skip-generation
    phase,     \* "parse", "generate", "done", or why the program has failed
    todo,      \* which generator is at which declaration of idl, at which file of it
    written,   \* Generator.writtenFiles: the name under which a path is taken
    disk,      \* disk[k]: whose text is at the path k, <<declaration, which file of it>>
    outFiles   \* what was written to --list-out-files

genVars   == <<phase, todo, written, disk, outFiles>>
frontVars == <<parserVars, config, genVars>>

OutPaths == AllGens \X FilePrefixes \X Stems

FrontTypeOK ==
    /\ ParserTypeOK
    /\ config \in Configs
    /\ phase \in {"parse", "generate", "done", "unparsed", "duplicate", "refused"}
    /\ todo \in [gen : Nat \ {0}, type : Nat \ {0}, file : Nat \ {0}]
    /\ written \in [OutPaths -> Stems \cup {None}]
    /\ disk \in [OutPaths -> (Found \X {1, 2}) \cup {None}]
    /\ outFiles \in Seq(AllGens \X FilePrefixes \X Stems)

FrontInit ==
    /\ ParserInit
    /\ config \in Configs
    /\ phase = "parse"
    /\ todo = [gen |-> 1, type |-> 1, file |-> 1]
    /\ written = [k \in OutPaths |-> None]
    /\ disk = [k \in OutPaths |-> None]
    /\ outFiles = <<>>

-----------------------------------------------------------------------------
Generators == config.gens
Name(p) == config.types[FileOf[p]].name
Kind(p) == config.types[FileOf[p]].kind

Parse == phase = "parse" /\ ParserNext /\ UNCHANGED <<config, genVars>>

ParseFails ==
    /\ phase = "parse" /\ outcome \in Failures
    /\ phase' = "unparsed"
    /\ UNCHANGED <<parserVars, config, todo, written, disk, outFiles>>

\* DupeChecker, over the declarations of all files.
Duplicate(m, n) == Name(idl[m]) = Name(idl[n])

Resolve ==
    /\ phase = "parse" /\ outcome = "parsed"
    /\ phase' = IF \E m, n \in 1..Len(idl) : m < n /\ Duplicate(m, n)
                THEN "duplicate" ELSE "generate"
    /\ UNCHANGED <<parserVars, config, todo, written, disk, outFiles>>

-----------------------------------------------------------------------------
(* The generators.                                                         *)

\* The files that a generator writes for a declaration, in their order: Python ...
PyFiles(p) ==
    CASE Kind(p) = "record"    -> << <<"", Name(p)>>, <<"", Helper[Name(p)]>> >>
      [] Kind(p) = "record +p" -> << <<"", Base[Name(p)]>>, <<"", Helper[Name(p)]>> >>
      [] OTHER                 -> << <<"", Name(p)>> >>
\* ... the C wrapper ...
CFiles(p) == << <<IF Kind(p) = "interface" THEN "cw__" ELSE "dh__", Name(p)>> >>
\* ... and C++.
Outputs(g, p) == CASE g = "py"  -> PyFiles(p)
                   [] g = "cw"  -> CFiles(p)
                   [] g = "cpp" -> << <<"", Name(p)>> >>

\* The path of such a file, whatever the case of its letters.
OutPath(g, file) == <<g, file[1], Lower[file[2]]>>

Gen  == Generators[todo.gen]
Decl == idl[todo.type]
File == Outputs(Gen, Decl)[todo.file]
Path == OutPath(Gen, File)

\* Mutant: a path is refused only if the very same was written.
Occupied_Exact == written[Path] = File[2]
\* writtenFiles.put(cp.toLowerCase, cp) finds an entry.
Occupied == written[Path] # None

Take  == written' = [written EXCEPT ![Path] = File[2]]
Write == disk' = [disk EXCEPT ![Path] = <<Decl, todo.file>>]
List  == outFiles' = Append(outFiles, <<Gen, File[1], File[2]>>)

\* Mutant: the next generator begins before the first declaration.
NextDecl_Zero ==
    todo' = IF todo.type < Len(idl) THEN [todo EXCEPT !.type = @ + 1, !.file = 1]
            ELSE [gen |-> todo.gen + 1, type |-> 0, file |-> 1]
\* On to the next declaration, or to the next generator.
NextDecl ==
    todo' = IF todo.type < Len(idl) THEN [todo EXCEPT !.type = @ + 1, !.file = 1]
            ELSE [gen |-> todo.gen + 1, type |-> 1, file |-> 1]

\* On to the next file of the declaration, if there is one.
NextFile == IF todo.file < Len(Outputs(Gen, Decl)) THEN todo' = [todo EXCEPT !.file = @ + 1]
            ELSE NextDecl

Generating ==
    phase = "generate" /\ todo.gen <= Len(Generators)

\* Declarations from YAML files are not generated.
SkipExtern ==
    /\ Generating /\ FileOf[Decl] \in Externs
    /\ NextDecl
    /\ UNCHANGED <<parserVars, config, phase, written, disk, outFiles>>

\* createFile(): listed first; a dry run does not look at the table.
CreateFile ==
    /\ Generating /\ FileOf[Decl] \notin Externs /\ Gen \notin Once
    /\ List
    /\ \/ /\ config.skip
          /\ NextFile
          /\ UNCHANGED <<phase, written, disk>>
       \/ /\ ~config.skip /\ Occupied
          /\ Take
          /\ phase' = "refused"
          /\ UNCHANGED <<todo, disk>>
       \/ /\ ~config.skip /\ ~Occupied
          /\ Take /\ Write
          /\ NextFile
          /\ UNCHANGED phase
    /\ UNCHANGED <<parserVars, config>>

\* createFileOnce(): a path that is taken is left as it is, in silence.
CreateFileOnce ==
    /\ Generating /\ FileOf[Decl] \notin Externs /\ Gen \in Once
    /\ Take
    /\ IF Occupied THEN UNCHANGED <<disk, outFiles>>
       ELSE /\ List
            /\ IF config.skip THEN UNCHANGED disk ELSE Write
    /\ NextFile
    /\ UNCHANGED <<parserVars, config, phase>>

Finish ==
    /\ phase = "generate" /\ todo.gen > Len(Generators)
    /\ phase' = "done"
    /\ UNCHANGED <<parserVars, config, todo, written, disk, outFiles>>

Main == \/ Parse \/ ParseFails \/ Resolve
        \/ SkipExtern \/ CreateFile \/ CreateFileOnce \/ Finish

Over == phase \notin {"parse", "generate"}
FrontNext == Main \/ (Over /\ UNCHANGED frontVars)

\* The program keeps running.
FrontSpec == FrontInit /\ [][FrontNext]_frontVars /\ WF_frontVars(Main)

-----------------------------------------------------------------------------
(* Properties.                                                             *)

\* What there is to write: the f-th file of the n-th declaration, by the m-th
\* generator.
Generated == {n \in 1..Len(idl) : FileOf[idl[n]] \notin Externs}
Jobs == {job \in (1..Len(Generators)) \X Generated \X {1, 2} :
            job[3] <= Len(Outputs(Generators[job[1]], idl[job[2]]))}

JobFile(job) == Outputs(Generators[job[1]], idl[job[2]])[job[3]]
JobPath(job) == OutPath(Generators[job[1]], JobFile(job))
JobText(job) == <<idl[job[2]], job[3]>>
JobLine(job) == <<Generators[job[1]], JobFile(job)[1], JobFile(job)[2]>>

Before(i, j) ==
    \/ i[1] < j[1]
    \/ i[1] = j[1] /\ i[2] < j[2]
    \/ i[1] = j[1] /\ i[2] = j[2] /\ i[3] < j[3]
Claimed(j) == \E i \in Jobs : Before(i, j) /\ JobPath(i) = JobPath(j)

\* When the program ends well, a path holds the text of the first that had a claim
\* to it and was not written over; --list-out-files names what was written, each
\* file once; and a file was lost to an earlier claim by createFileOnce() alone.
\* Python has such losses, and nothing tells of them: the helper of a record foo and
\* a type foo_helper, or an interface Foo and a record foo, which the prefixes of the
\* C wrapper keep apart.
NoFileLost ==
    phase = "done" /\ ~config.skip =>
        /\ \A j \in Jobs : Claimed(j) => Generators[j[1]] \in Once
        /\ \A j \in Jobs : ~Claimed(j) => disk[JobPath(j)] = JobText(j)
        /\ {outFiles[n] : n \in 1..Len(outFiles)} = {JobLine(j) : j \in {i \in Jobs : ~Claimed(i)}}
        /\ \A m, n \in 1..Len(outFiles) : outFiles[m] = outFiles[n] => m = n

\* Whatever the files import, the program comes to an end.
Ends == <>Over
=============================================================================
