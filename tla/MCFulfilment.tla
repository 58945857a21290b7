---------------------------- MODULE MCFulfilment ----------------------------
(* Instances of Fulfilment for TLC.                                        *)
EXTENDS Fulfilment, TLC

AllRanges == (SUBSET Variants) \ {{}}

\* Everything but the endpoint that sets any status.
GuardedOps == {"cancel", "approve", "reject", "edit", "pack", "dispatch", "deliver", "track"}

\* Where the packing screen shows orders: from confirmation to PACKED.
WarehouseStatuses == {"confirmed", "processing", "packed"}

IdSymmetry ==
  Permutations(Orders) \cup Permutations(Groups) \cup Permutations(Requests)
============================================================================
