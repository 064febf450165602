----------------------------- MODULE MCIdlFront -----------------------------
(***************************************************************************)
(* The IDL front end on projects small enough for TLC.                     *)
(***************************************************************************)
EXTENDS IdlFront, SequencesExt

CONSTANTS a, b, b_link, c, d, x, gone, dot_b,  \* references and paths
          fa, fb, fc, fd, fx                   \* files; fd does not parse

MCRefs   == {a, b, b_link, c, d, x, gone, dot_b}
MCPaths  == MCRefs \ {dot_b}
MCNormal == [r \in MCRefs |-> IF r = dot_b THEN b ELSE r]
MCFiles  == {fa, fb, fc, fd, fx}
MCFileOf == [p \in MCPaths |->
                CASE p = a -> fa [] p \in {b, b_link} -> fb [] p = c -> fc
                  [] p = d -> fd [] p = x -> fx [] OTHER -> None]

\* Imports that make diamonds, cycles, aliases and failures.
MCProjects ==
    {(fa :> ia) @@ (fb :> ib) @@ (fc :> ic) @@ (fd :> <<>>) @@ (fx :> <<>>) :
        ia \in SeqOf({b, dot_b, b_link, c, x}, 2),
        ib \in SeqOf({a, c, dot_b, x}, 2),
        ic \in SeqOf({a, b, b_link, d, x, gone}, 1)}

MCNames  == {"foo", "Foo", "foo_helper", "foo_base", "bar", "baz"}
MCHelper == [name \in MCNames |-> name \o "_helper"]
MCBase   == [name \in MCNames |-> name \o "_base"]
MCStems  == MCNames \cup {MCHelper[name] : name \in MCNames} \cup {MCBase[name] : name \in MCNames}
MCLower  == [stem \in MCStems |->
                CASE stem = "Foo" -> "foo" [] stem = "Foo_helper" -> "foo_helper"
                  [] stem = "Foo_base" -> "foo_base" [] OTHER -> stem]

\* The root declares a record foo; beside it another type may have the same name, one
\* that differs in case or the name of one of the record's files.
MCConfig(kind, name, other, gens, skip) ==
    [types |-> [f \in MCFiles |->
                  CASE f = fa -> [name |-> "foo", kind |-> kind]
                    [] f = fb -> [name |-> name, kind |-> other]
                    [] f = fx -> [name |-> "baz", kind |-> "interface"]
                    [] OTHER  -> [name |-> "bar", kind |-> "enum"]],
     gens  |-> gens, skip |-> skip]

MCConfigs ==
    {MCConfig("record", "foo", "enum", <<"cpp">>, FALSE),
     MCConfig("record", "foo_base", "record", <<"cpp", "py", "cw">>, FALSE),
     MCConfig("record", "foo_helper", "interface", <<"cpp", "py", "cw">>, FALSE),
     MCConfig("record +p", "foo_base", "record +p", <<"py", "cw">>, FALSE),
     MCConfig("record", "Foo", "interface", <<"py", "cw">>, FALSE),
     MCConfig("record", "Foo", "record", <<"py", "cw">>, FALSE),
     MCConfig("record", "Foo", "interface", <<"cpp", "py">>, TRUE)}
=============================================================================
