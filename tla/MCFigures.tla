------------------------------- MODULE MCFigures -------------------------------
(* Instances of Figures for TLC.                                           *)
EXTENDS Figures, TLC

CONSTANTS a1, a2, c1, c2, k1, o1, o2, n1

CHome    == c1 :> k1 @@ c2 :> k1
\* Limits that one order keeps and two of them, or an order and a note, do not.
CLimits  == c1 :> 2 @@ c2 :> 0 @@ a1 :> 2 @@ a2 :> 0
CTerms   == c1 :> 0 @@ c2 :> 1
CMembers == k1 :> {a1}
\* An odd tax in the customer's state, an even one.
CTaxes   == o1 :> 1 @@ o2 :> 1
CAway    == {c2}
CTotals  == o1 :> 1 @@ o2 :> 2 @@ n1 :> 2

\* The last day of a month and the first of the next.
CDays == {120, 121}
CMonthStart(d) == d - ((d - 1) % 30)

\* Due since 0 or 1, 30 or 31, 60 or 61, 90 or 91 days, by the day that is looked
\* at; sales invoices have no due date, or one that is to come.
CDueDates == {120, 90, 60, 30}
============================================================================
