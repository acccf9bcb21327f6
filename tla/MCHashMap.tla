------------------------------ MODULE MCHashMap ------------------------------
(* Keys that share a hash, that share a bucket until the table has grown once  *)
(* or twice, and that never do.                                                *)
EXTENDS HashMap, TLC
CONSTANTS k1, k2, k3, k4, k5, v1, v2, v3, v4, v5
MCKeys == {k1, k2, k3, k4, k5}
MCValues == {v1, v2, v3, v4, v5}
MCHash == (k1 :> 1) @@ (k2 :> 1) @@ (k3 :> 3) @@ (k4 :> 5) @@ (k5 :> 0)
Symmetry == Permutations(MCValues)
=============================================================================
