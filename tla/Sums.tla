--------------------------------- MODULE Sums ---------------------------------
(***************************************************************************)
(* Sums of amounts over rows: Sum(...) of the ORM's aggregates and sum(...)*)
(* of Python.  An amount is a natural number, and a sum is the number of   *)
(* its pieces: what holds of sums is then a matter of sets and of their    *)
(* size, without an order in which rows are added up.                      *)
(***************************************************************************)
EXTENDS Integers, FiniteSets

\* The pieces of the amounts f[x].
PiecesOf(f) == UNION {{x} \X (1..f[x]) : x \in DOMAIN f}

\* The sum of f[x] over the domain of f.
SumOf(f) == Cardinality(PiecesOf(f))
===============================================================================
