---------------------------- MODULE MCReceivables ----------------------------
(* Instances of Receivables for TLC.                                        *)
EXTENDS Receivables, TLC

RowSymmetry ==
  Permutations(Invoices) \cup Permutations(Payments)
    \cup Permutations(Customers) \cup Permutations(Requests)
============================================================================
