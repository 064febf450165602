----------------------------- MODULE MCPyWrapper -----------------------------
(***************************************************************************)
(* Objects across the Python border, on instances small enough for TLC.    *)
(***************************************************************************)
EXTENDS PyWrapper, TLC

Symmetry == Permutations(Threads) \cup Permutations(Handles)
            \cup Permutations(Wrappers) \cup Permutations(CppProxies)
=============================================================================
