----------------------------- MODULE MCMembership -----------------------------
(* Instances of Membership for TLC.                                        *)
EXTENDS Membership, TLC

Symmetry == Permutations(Front) \cup Permutations(Office)
============================================================================
