---------------------------- MODULE StockLedger ----------------------------
(***************************************************************************)
(* What the order flow promises about stock, without orders, drafts, or    *)
(* counters: every unit promised to somebody is a unit that is on the      *)
(* shelf.  A unit is an opaque token; promising takes a fresh token for    *)
(* each piece, withdrawing a promise gives tokens back, and the shelf only *)
(* shrinks by pieces nobody was promised.  DraftFlow implements this.      *)
(***************************************************************************)
EXTENDS Integers, FiniteSets

CONSTANTS
  Variants,   \* the sellable sizes (rows of products_variantsize)
  Units,      \* tokens, one per promised piece
  MaxStock    \* bound on the shelf count of one size

VARIABLES
  stock,      \* stock[v]: pieces on the shelf
  held        \* held[v]: tokens promised

ledgerVars == <<stock, held>>

LedgerTypeOK ==
  /\ stock \in [Variants -> 0..MaxStock]
  /\ held \in [Variants -> SUBSET Units]

LedgerInit ==
  /\ stock \in [Variants -> 0..MaxStock]
  /\ held = [v \in Variants |-> {}]

\* Promise fresh tokens, in any number of sizes at once, all or nothing: a
\* size that takes new tokens must be able to cover everything promised in it.
Reserve ==
  /\ held' \in [Variants -> SUBSET Units]
  /\ \A v \in Variants :
       /\ held[v] \subseteq held'[v]
       /\ held'[v] # held[v] => Cardinality(held'[v]) <= stock[v]
  /\ UNCHANGED stock

\* Take promises back.
Release ==
  /\ held' \in [Variants -> SUBSET Units]
  /\ \A v \in Variants : held'[v] \subseteq held[v]
  /\ UNCHANGED stock

\* Recount one size; the shelf never drops below what is promised.
Adjust ==
  /\ \E v \in Variants, n \in 0..MaxStock :
       /\ n > stock[v] \/ Cardinality(held[v]) <= n
       /\ stock' = [stock EXCEPT ![v] = n]
  /\ UNCHANGED held

LedgerNext == Reserve \/ Release \/ Adjust

LedgerSpec == LedgerInit /\ [][LedgerNext]_ledgerVars

\* Every promised piece is on the shelf: what "Insufficient stock" (409) in
\* add_item_to_draft and update_item_quantity, and "available" in the stock
\* adjustment endpoint, are there to guarantee.
EveryPromiseCovered ==
  \A v \in Variants : Cardinality(held[v]) <= stock[v]
============================================================================
