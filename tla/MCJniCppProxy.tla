---------------------------- MODULE MCJniCppProxy ---------------------------
(***************************************************************************)
(* The CppProxy life cycle on instances small enough for TLC.              *)
(***************************************************************************)
EXTENDS JniCppProxy

CONSTANTS i1, a1, a2

\* One implementation is elsewhere and the others follow one another.
TwoAddresses == [i \in Impls |-> IF i = i1 THEN a1 ELSE a2]
=============================================================================
