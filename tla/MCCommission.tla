----------------------------- MODULE MCCommission -----------------------------
(* Instances of Commission for TLC.                                        *)
EXTENDS Commission, TLC

CONSTANTS e1, e2, g1, g2

\* Of the first order half is in each category, the second is in one.
CLines    == e1 :> (g1 :> 2 @@ g2 :> 2) @@ e2 :> (g1 :> 0 @@ g2 :> 3)
CTaxable  == e1 :> 4 @@ e2 :> 3
CExplicit == g1 :> 1 @@ g2 :> NoRate

Symmetry == Permutations(Requests)
============================================================================
