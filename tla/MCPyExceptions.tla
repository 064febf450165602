--------------------------- MODULE MCPyExceptions ---------------------------
(***************************************************************************)
(* Exceptions across the Python border, on instances small enough for TLC. *)
(***************************************************************************)
EXTENDS PyExceptions, TLC

Symmetry == Permutations(Errs)
            \cup Permutations(Handles) \cup Permutations(Objs)
=============================================================================
