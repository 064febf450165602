---------------------------- MODULE MCJniRuntime ----------------------------
(***************************************************************************)
(* The JNI support library at run time, on instances small enough for TLC. *)
(***************************************************************************)
EXTENDS JniRuntime, TLC

Symmetry == Permutations(Errs) \cup Permutations(Objs)
=============================================================================
