----------------------------- MODULE IdlRecords -----------------------------
(***************************************************************************)
(* What a record inherits (generator.scala, getSuperRecord() and           *)
(* collectSuperFields(); Marshal.scala, extendsRecord()).  A generator     *)
(* asks for the fields of a record's ancestors before it writes the        *)
(* record's constructor, its getters or its marshalling.  Neither the      *)
(* parser nor the resolver looks at the name behind `extends`, so a base   *)
(* may be missing, or no record, or the record itself.                     *)
(*                                                                         *)
(* A record has one field of its own here, which is named as it is.        *)
(***************************************************************************)
EXTENDS Naturals, Sequences, SequencesExt

CONSTANTS
    Records,
    Unknown,   \* a name that no record has
    None

VARIABLES
    baseRecord,  \* baseRecord[r]: the name behind `extends`, or None
    record,      \* the record that is generated
    at,          \* the record that superFieldsAccumulator() has come to
    fields,      \* what it has gathered
    result       \* "walks", "done" or "AssertionError"

vars == <<baseRecord, record, at, fields, result>>

\* getSuperRecord() for a record with a base: collectSuperFields() starts at
\* the base, with Seq.empty.
Init ==
    /\ baseRecord \in [Records -> Records \cup {Unknown, None}]
    /\ record \in {r \in Records : baseRecord[r] # None}
    /\ at = baseRecord[record]
    /\ fields = <<>>
    /\ result = "walks"

\* The accumulator's argument for the next round.
Gathered == <<at>>

\* One round of superFieldsAccumulator().
Accumulate ==
    /\ result = "walks" /\ at \in Records /\ baseRecord[at] # None
    /\ at' = baseRecord[at]
    /\ fields' = Gathered
    /\ UNCHANGED <<baseRecord, record, result>>

\* case None => r.fields ++ fields
Collected ==
    /\ result = "walks" /\ at \in Records /\ baseRecord[at] = None
    /\ fields' = <<at>> \o fields
    /\ result' = "done"
    /\ UNCHANGED <<baseRecord, record, at>>

\* "Unreachable. The parser throws an exception ..."
BaseMissing ==
    /\ result = "walks" /\ at \notin Records
    /\ result' = "AssertionError"
    /\ UNCHANGED <<baseRecord, record, at, fields>>

Next == Accumulate \/ Collected \/ BaseMissing

Spec == Init /\ [][Next]_vars

-----------------------------------------------------------------------------
\* The records that r extends, directly or through others.
Ancestors(r) ==
    LET up[n \in Nat] ==
            IF n = 0 THEN {r}
            ELSE up[n - 1] \cup {baseRecord[s] : s \in up[n - 1] \cap Records}
    IN  {baseRecord[s] : s \in up[Cardinality(Records)] \cap Records} \cap Records

\* A record inherits the fields of every record above it, each once.
InheritsAll ==
    result = "done" =>
        /\ ToSet(fields) = Ancestors(record)
        /\ Len(fields) = Cardinality(ToSet(fields))
=============================================================================
