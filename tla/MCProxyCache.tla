---------------------------- MODULE MCProxyCache ----------------------------
(***************************************************************************)
(* The proxy cache on instances small enough for TLC.                      *)
(***************************************************************************)
EXTENDS ProxyCache, TLC

CONSTANTS i1, a1, a2

\* All implementations follow one another at one address ...
OneAddress == [i \in Impls |-> a1]
\* ... or one of them is elsewhere and the others follow one another.
TwoAddresses == [i \in Impls |-> IF i = i1 THEN a1 ELSE a2]

Symmetry == Permutations(Threads) \cup Permutations(Proxies)
=============================================================================
