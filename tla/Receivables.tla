----------------------------- MODULE Receivables -----------------------------
(***************************************************************************)
(* What customers owe: invoices (apps/orders/services.py, apps/invoices),  *)
(* payments (apps/payments), and the customer's outstanding amount, which  *)
(* the credit check of the next order reads.                               *)
(*                                                                         *)
(* No handler locks what it reads.  Recording a payment and issuing a      *)
(* sales invoice are transactions: they write the invoice, sum up what is  *)
(* unpaid, and write the customer.  Deleting a payment is not: each of its *)
(* three writes commits alone.  amount_due is always written together with *)
(* amount_paid, as the difference to total_amount, and so is not a field   *)
(* of its own here.  total_outstanding and credit_utilized are always      *)
(* written together with the same value: outstanding stands for both.      *)
(***************************************************************************)
EXTENDS Integers, FiniteSets

CONSTANTS
  Invoices,    \* ids of invoice rows
  Payments,    \* ids of payment rows
  Customers,
  Requests,    \* request slots: how many handlers may be in flight at once
  MaxAmount,   \* bound: largest total_amount
  NoInvoice, NoPayment, NoCustomer, NoRequest

ASSUME ReceivablesAssumption ==
  /\ IsFiniteSet(Invoices)
  /\ IsFiniteSet(Payments)
  /\ NoInvoice \notin Invoices
  /\ NoPayment \notin Payments
  /\ MaxAmount \in Nat \ {0}

VARIABLES
  inv,          \* inv[i]: the Invoice row
  pay,          \* pay[p]: the Payment row
  outstanding,  \* CustomerProfile.total_outstanding, credit_utilized
  hand,         \* hand[r]: what the handler in slot r keeps in memory
  torn          \* history: customers whose last deletion was cut off half way

vars == <<inv, pay, outstanding, hand, torn>>

Amounts == 1..MaxAmount
Totals  == 0..MaxAmount

\* What the two tables hold, and what a handler keeps in memory: the rows it
\* will write, seen (the customer's outstanding amount as read), owed (the sum
\* it has computed) and how far it got.
InvoiceRows ==
  [type : {"sales_invoice", "purchase_order", "note"},
   status : {"absent", "draft", "issued", "partial", "paid", "void"},
   cust : Customers \cup {NoCustomer}, total : Totals, paid : Totals]
PaymentRows ==
  [recorded : BOOLEAN, inv : Invoices \cup {NoInvoice},
   cust : Customers \cup {NoCustomer}, amount : Totals]
Memories ==
  [op : {"pay", "sale", "delete", "void", "edit"}, i : Invoices \cup {NoInvoice},
   row : InvoiceRows, p : Payments \cup {NoPayment}, new : PaymentRows \cup {NoPayment},
   c : Customers, seen : Nat, owed : Nat,
   phase : {"read", "summed", "deleted", "reduced"}]

ASSUME NoRequestAssumption == NoRequest \notin Memories

\* A row of which nothing is paid.
Issued(type, status, c, total) ==
  [type |-> type, status |-> status, cust |-> c, total |-> total, paid |-> 0]

\* No invoice row, no payment row: not yet, or deleted.
Blank == Issued("sales_invoice", "absent", NoCustomer, 0)
Unpaid == [recorded |-> FALSE, inv |-> NoInvoice, cust |-> NoCustomer, amount |-> 0]

\* amount_due.
Due(m) == m.total - m.paid

\* The invoices that mean the customer owes money.
Counted(m) == m.status \in {"issued", "partial"} /\ m.type # "purchase_order"

\* SUM(amount_due) over them when the invoices are rows, counted in pieces.
Owed(c, rows) ==
  Cardinality({u \in Invoices \X Amounts :
                 /\ rows[u[1]].cust = c
                 /\ Counted(rows[u[1]])
                 /\ u[2] <= Due(rows[u[1]])})

Init ==
  /\ inv = [i \in Invoices |-> Blank]
  /\ pay = [p \in Payments |-> Unpaid]
  /\ outstanding = [c \in Customers |-> 0]
  /\ hand = [r \in Requests |-> NoRequest]
  /\ torn = {}

-----------------------------------------------------------------------------
\* Load: the handler reads and validates, and computes the rows it will write

Memory(op, i, row, p, new, c) ==
  [op |-> op, i |-> i, row |-> row, p |-> p, new |-> new, c |-> c,
   seen |-> outstanding[c], owed |-> 0, phase |-> "read"]

Take(r, h) ==
  /\ hand[r] = NoRequest
  /\ hand' = [hand EXCEPT ![r] = h]
  /\ UNCHANGED <<inv, pay, outstanding, torn>>

\* PaymentViewSet.create: what it adds to the invoice.
Credited(m, amount) ==
  LET paid == m.paid + amount
  IN [m EXCEPT !.paid = paid, !.status = IF m.total - paid <= 0 THEN "paid" ELSE "partial"]

\* Faulty variants: nothing is left of the other payments; the status stays.
ReducedToZero(m, amount) == [m EXCEPT !.paid = 0, !.status = "issued"]
ReducedKeepsStatus(m, amount) ==
  [m EXCEPT !.paid = IF amount < m.paid THEN m.paid - amount ELSE 0]

\* PaymentViewSet.destroy: max(0, amount_paid - amount) and the status.
Reduced(m, amount) ==
  LET paid == IF amount < m.paid THEN m.paid - amount ELSE 0
  IN [m EXCEPT !.paid = paid,
               !.status = IF m.total - paid <= 0 THEN "paid"
                          ELSE IF paid > 0 THEN "partial"
                          ELSE "issued"]

\* An id that no row and no handler has.
FreshPayment(p) ==
  ~pay[p].recorded /\ \A r \in Requests : hand[r] # NoRequest => hand[r].p # p
FreshInvoice(i) ==
  inv[i].status = "absent" /\ \A r \in Requests : hand[r] # NoRequest => hand[r].i # i

\* PaymentCreateSerializer.validate: the invoice is the customer's and has
\* that much due.  Its status is not looked at.
LoadPayment(r, p, i, c, amount) ==
  /\ FreshPayment(p)
  /\ LET new == [recorded |-> TRUE, inv |-> i, cust |-> c, amount |-> amount]
     IN IF i = NoInvoice
        THEN Take(r, Memory("pay", i, Blank, p, new, c))
        ELSE /\ inv[i].status # "absent" /\ inv[i].cust = c
             /\ amount <= Due(inv[i])
             /\ Take(r, Memory("pay", i, Credited(inv[i], amount), p, new, c))

\* generate_sales_invoice, called by dispatch and update_status.
LoadSale(r, i, c, total) ==
  /\ FreshInvoice(i)
  /\ Take(r, Memory("sale", i, Issued("sales_invoice", "issued", c, total),
                    NoPayment, NoPayment, c))

\* destroy: the payment with its customer and invoice.
LoadDelete(r, p) ==
  /\ pay[p].recorded
  /\ LET i == pay[p].inv
         c == pay[p].cust
         row == IF i = NoInvoice THEN Blank
                ELSE Reduced(inv[i], pay[p].amount)
     IN Take(r, Memory("delete", i, row, p, Unpaid, c))

\* void: nothing may be paid.
LoadVoid(r, i) ==
  /\ inv[i].status \notin {"absent", "void"}
  /\ inv[i].paid = 0
  /\ Take(r, Memory("void", i, [inv[i] EXCEPT !.status = "void"],
                    NoPayment, NoPayment, inv[i].cust))

\* An edit of the customer's profile, which saves every column.
LoadEdit(r, c) ==
  Take(r, Memory("edit", NoInvoice, Blank, NoPayment, NoPayment, c))

-----------------------------------------------------------------------------
\* Writing

Phase(r, ops, phase) ==
  hand[r] # NoRequest /\ hand[r].op \in ops /\ hand[r].phase = phase

Done(r) == hand' = [hand EXCEPT ![r] = NoRequest]

\* The row lock of an invoice, held from its write to the commit.
Unlocked(i) ==
  \A r \in Requests :
    ~(Phase(r, {"pay", "sale"}, "summed") /\ hand[r].i = i /\ i # NoInvoice)

\* The invoices as the handler's own transaction sees them.
Own(r) ==
  [i \in Invoices |-> IF i = hand[r].i THEN hand[r].row ELSE inv[i]]

\* update_customer_outstanding saves the customer when the sum is another one
\* than in memory.
SaveOutstanding(r, sum) ==
  outstanding' = [outstanding EXCEPT ![hand[r].c] = IF sum # hand[r].seen THEN sum ELSE @]

\* pay, sale: the invoice is written, what is unpaid summed up; all of it is
\* still uncommitted.
SumUp(r) ==
  /\ Phase(r, {"pay", "sale"}, "read")
  /\ Unlocked(hand[r].i)
  /\ hand' = [hand EXCEPT ![r].owed = Owed(hand[r].c, Own(r)), ![r].phase = "summed"]
  /\ UNCHANGED <<inv, pay, outstanding, torn>>

\* pay, sale: the customer, the commit.
Commit(r) ==
  /\ Phase(r, {"pay", "sale"}, "summed")
  /\ inv' = Own(r)
  /\ pay' = IF hand[r].op = "pay" THEN [pay EXCEPT ![hand[r].p] = hand[r].new] ELSE pay
  /\ SaveOutstanding(r, hand[r].owed)
  /\ torn' = torn \ {hand[r].c}
  /\ Done(r)

\* destroy: the payment is gone, by this request or by another.
DeletePayment(r) ==
  /\ Phase(r, {"delete"}, "read")
  /\ pay' = [pay EXCEPT ![hand[r].p] = hand[r].new]
  /\ hand' = [hand EXCEPT ![r].phase = "deleted"]
  /\ UNCHANGED <<inv, outstanding, torn>>

\* destroy: the invoice, when there is one.
ReduceInvoice(r) ==
  /\ Phase(r, {"delete"}, "deleted")
  /\ Unlocked(hand[r].i)
  /\ inv' = Own(r)
  /\ hand' = [hand EXCEPT ![r].phase = "reduced"]
  /\ UNCHANGED <<pay, outstanding, torn>>

\* Faulty variant: the customer is not updated.
ForgetCustomer(r) ==
  /\ Phase(r, {"delete"}, "reduced")
  /\ Done(r)
  /\ torn' = torn \ {hand[r].c}
  /\ UNCHANGED <<inv, pay, outstanding>>

\* destroy: the customer.
UpdateCustomer(r) ==
  /\ Phase(r, {"delete"}, "reduced")
  /\ SaveOutstanding(r, Owed(hand[r].c, inv))
  /\ torn' = torn \ {hand[r].c}
  /\ Done(r)
  /\ UNCHANGED <<inv, pay>>

\* void: the status alone, and not the customer.
CommitVoid(r) ==
  /\ Phase(r, {"void"}, "read")
  /\ Unlocked(hand[r].i)
  /\ inv' = [inv EXCEPT ![hand[r].i].status = "void"]
  /\ Done(r)
  /\ UNCHANGED <<pay, outstanding, torn>>

CommitEdit(r) ==
  /\ Phase(r, {"edit"}, "read")
  /\ outstanding' = [outstanding EXCEPT ![hand[r].c] = hand[r].seen]
  /\ Done(r)
  /\ UNCHANGED <<inv, pay, torn>>

\* The request fails or its worker is killed: what is not committed is gone,
\* and of a deletion what was done stays done.
Cut(r) ==
  /\ hand[r] # NoRequest
  /\ torn' = IF Phase(r, {"delete"}, "reduced") THEN torn \cup {hand[r].c} ELSE torn
  /\ Done(r)
  /\ UNCHANGED <<inv, pay, outstanding>>

\* generate_purchase_order, and credit and debit notes: not receivables yet.
IssueOther(i, c, total) ==
  /\ FreshInvoice(i)
  /\ \E new \in {Issued("purchase_order", "issued", c, total),
                 Issued("note", "draft", c, total)} :
       inv' = [inv EXCEPT ![i] = new]
  /\ UNCHANGED <<pay, outstanding, hand, torn>>

Read(r) ==
  \/ \E p \in Payments, i \in Invoices \cup {NoInvoice}, c \in Customers, amount \in Amounts :
       LoadPayment(r, p, i, c, amount)
  \/ \E i \in Invoices, c \in Customers, total \in Totals : LoadSale(r, i, c, total)
  \/ \E p \in Payments : LoadDelete(r, p)
  \/ \E i \in Invoices : LoadVoid(r, i)
  \/ \E c \in Customers : LoadEdit(r, c)

Write(r) ==
  \/ SumUp(r) \/ Commit(r)
  \/ DeletePayment(r) \/ ReduceInvoice(r) \/ UpdateCustomer(r)
  \/ CommitVoid(r) \/ CommitEdit(r)
  \/ Cut(r)

Next ==
  \/ \E r \in Requests : Read(r) \/ Write(r)
  \/ \E i \in Invoices, c \in Customers, total \in Totals : IssueOther(i, c, total)

Spec == Init /\ [][Next]_vars

\* A customer has one handler at a time: what an office sees where nobody else
\* works on the same customer.  Requests about other customers run beside it.
OneAtATime ==
  \A r, s \in Requests :
    hand[r] # NoRequest /\ hand[s] # NoRequest /\ hand[r].c = hand[s].c => r = s

SerialSpec == Init /\ [][Next /\ OneAtATime']_vars

-----------------------------------------------------------------------------
\* Properties

\* The recorded payments of an invoice, counted in pieces.
PaidPieces(i) ==
  {u \in Payments \X Amounts :
     pay[u[1]].recorded /\ pay[u[1]].inv = i /\ u[2] <= pay[u[1]].amount}

\* One request of a customer at a time, every recorded payment counts:
\* amount_paid never shows less than the payments there are, although deleting
\* one takes three commits and may be cut off between any two.
PaymentsCounted ==
  \A i \in Invoices : Cardinality(PaidPieces(i)) <= inv[i].paid

\* One request of a customer at a time, the status tells what is paid: all of
\* it, a part, or nothing, and a void invoice has nothing paid.
StatusTells ==
  \A i \in Invoices :
    LET m == inv[i]
    IN /\ m.paid <= m.total
       /\ m.status = "paid" <=> m.paid = m.total /\ m.total > 0
       /\ m.status = "partial" <=> m.paid \in 1..(m.total - 1)

\* One request of a customer at a time, the credit check never sees less than
\* what the customer owes, except while a deletion is between its writes or
\* after it was cut off there: what "Call after invoice creation/payment" is to
\* guarantee.
OutstandingCovers ==
  \A c \in Customers :
    \/ c \in torn
    \/ \E r \in Requests : Phase(r, {"delete"}, "reduced") /\ hand[r].c = c
    \/ outstanding[c] >= Owed(c, inv)
============================================================================
