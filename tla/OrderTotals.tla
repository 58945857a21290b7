------------------------------ MODULE OrderTotals ------------------------------
(***************************************************************************)
(* The arithmetic of an order: what a line costs, what the discount takes  *)
(* off, and how the GST splits (order_flow._build_order_item and           *)
(* recalculate_order_totals).  Money is a natural number of paise, a       *)
(* percentage one of hundredths of a percent, and quantize(0.01), which    *)
(* rounds half to even, is a division of integers.                         *)
(***************************************************************************)
EXTENDS Integers

\* A percentage, as serializers admit it.
Percent == 0..10000

\* The nearest integer to n / d, the even one of two.
HalfEven(n, d) ==
  LET q == n \div d
      twice == 2 * (n % d)
  IN IF twice < d \/ (twice = d /\ q % 2 = 0) THEN q ELSE q + 1

Part(amount, pct) == HalfEven(amount * pct, 10000)

\* The line of an order item, and its GST; update_item_quantity computes both
\* anew from the price, the discount and the rate that the item has.
LineTotal(price, quantity, discount) == Part(price * quantity, 10000 - discount)
LineTax(line, rate) == Part(line, rate)

\* Whether the customer is in another state; an empty state is none other.
Interstate(companyState, customerState, noState) ==
  companyState # noState /\ customerState # noState /\ companyState # customerState

\* CGST and SGST are half of the tax each, both rounded; IGST is all of it.
Split(tax, interstate) ==
  IF interstate THEN [cgst |-> 0, sgst |-> 0, igst |-> tax]
  ELSE [cgst |-> HalfEven(tax, 2), sgst |-> HalfEven(tax, 2), igst |-> 0]

TaxShown(split) == split.cgst + split.sgst + split.igst

\* recalculate_order_totals: the tax is that of the lines before the discount
\* of the order.
Totals(subtotal, tax, discount, interstate) ==
  LET off == Part(subtotal, discount)
  IN [discount |-> off, taxable |-> subtotal - off, split |-> Split(tax, interstate),
      total |-> subtotal - off + tax]
================================================================================
