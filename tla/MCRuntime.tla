------------------------------ MODULE MCRuntime ------------------------------
(* One runtime, two ost processes, two OpenUSD releases of which the catalog  *)
(* names one, and two build_usd.py command lines.                             *)
EXTENDS Runtime, TLC
CONSTANTS p1, p2
MCVersions == {<<26, 5>>, <<26, 8>>}
MCCatalog == <<26, 5, 1>>
MCRequests == {[ver |-> <<26, 5>>, key |-> "j4", git |-> TRUE, host |-> FALSE],
               [ver |-> <<26, 8>>, key |-> "j8", git |-> FALSE, host |-> FALSE]}
MCSymmetry == Permutations(Procs)
=============================================================================
