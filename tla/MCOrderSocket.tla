---------------------------- MODULE MCOrderSocket ----------------------------
(* Instances of OrderSocket for TLC.                                       *)
EXTENDS OrderSocket, TLC

AllRanges == (SUBSET Variants) \ {{}}
=============================================================================
