----------------------------- MODULE MCCatalogue -----------------------------
(* An instance of Catalogue for TLC: one product of two variants.          *)
EXTENDS Catalogue, TLC

CONSTANTS p1, v1, v2, s1, s2

CProductOf == v1 :> p1 @@ v2 :> p1
CVariantOf == s1 :> v1 @@ s2 :> v2
CReorder   == s1 :> 0 @@ s2 :> 1

Symmetry == Permutations(Requests)
=============================================================================
