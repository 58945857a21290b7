---------------------------- MODULE MCDraftFlow ----------------------------
(* Instances of DraftFlow for TLC.                                         *)
EXTENDS DraftFlow, TLC

\* Every nonempty set of sizes is a range of some size chart.
AllRanges == (SUBSET Variants) \ {{}}

\* Ids are interchangeable, and so are sizes when all ranges exist.
DataSymmetry ==
  Permutations(Orders) \cup Permutations(Groups) \cup Permutations(Variants)
============================================================================
