-------------------------- MODULE Receivables_proofs --------------------------
(***************************************************************************)
(* Theorems about Receivables for every set of invoices, payments,         *)
(* customers and requests and every bound on the amounts, when each        *)
(* customer has one request at a time (SerialSpec).                        *)
(*                                                                         *)
(* What a handler has read still stands when it writes: nobody else        *)
(* touches the rows of its customer.  The invariant says so of every       *)
(* request in flight, in terms of the rows alone, so that its preservation *)
(* is a matter of which rows a step leaves alone.                          *)
(***************************************************************************)
EXTENDS Receivables, FiniteSetTheorems, TLAPS

\* What StatusTells asks of one row.
RowTells(m) ==
  /\ m.paid <= m.total
  /\ m.status = "paid" <=> m.paid = m.total /\ m.total > 0
  /\ m.status = "partial" <=> m.paid \in 1..(m.total - 1)

\* The rows the handlers leave behind.
Rows == {m \in InvoiceRows : RowTells(m) /\ (m.status # "absent" => m.cust \in Customers)}

Hands == {h \in Memories : h.row \in Rows}

\* PaidPieces and Own of given rows.
Paid(P, i) ==
  {u \in Payments \X Amounts : P[u[1]].recorded /\ P[u[1]].inv = i /\ u[2] <= P[u[1]].amount}
With(h, V) == [i \in Invoices |-> IF i = h.i THEN h.row ELSE V[i]]

\* An invoice of customer c.
Of(m, c) == m.status # "absent" /\ m.cust = c

\* What a request of each kind has read and not yet overtaken itself.
PayStands(h, V, P) ==
  /\ h.phase \in {"read", "summed"}
  /\ h.p \in Payments /\ ~P[h.p].recorded
  /\ h.new \in PaymentRows
  /\ h.new.recorded /\ h.new.inv = h.i /\ h.new.cust = h.c /\ h.new.amount \in Amounts
  /\ h.i # NoInvoice => /\ Of(V[h.i], h.c)
                        /\ h.new.amount <= Due(V[h.i])
                        /\ h.row = Credited(V[h.i], h.new.amount)

SaleStands(h, V) ==
  /\ h.phase \in {"read", "summed"}
  /\ h.i \in Invoices /\ V[h.i].status = "absent"
  /\ \E total \in Totals : h.row = Issued("sales_invoice", "issued", h.c, total)

DeleteStands(h, V, P) ==
  /\ h.p \in Payments /\ h.new = Unpaid
  /\ h.phase \in {"read", "deleted", "reduced"}
  /\ h.phase = "read" => /\ P[h.p].recorded
                         /\ P[h.p].inv = h.i /\ P[h.p].cust = h.c
  /\ h.i # NoInvoice =>
       /\ Of(V[h.i], h.c)
       /\ h.phase = "read" => h.row = Reduced(V[h.i], P[h.p].amount)
       /\ h.phase = "deleted" =>
            /\ \E amount \in Amounts : amount <= V[h.i].paid /\ h.row = Reduced(V[h.i], amount)
            /\ Cardinality(Paid(P, h.i)) <= h.row.paid

VoidStands(h, V) ==
  /\ h.phase = "read"
  /\ h.i \in Invoices /\ Of(V[h.i], h.c) /\ V[h.i].paid = 0

Stands(h, V, P, O) ==
  /\ h.seen = O[h.c]
  /\ h.op = "pay" => PayStands(h, V, P)
  /\ h.op = "sale" => SaleStands(h, V)
  /\ h.op = "delete" => DeleteStands(h, V, P)
  /\ h.op = "void" => VoidStands(h, V)
  /\ h.op = "edit" => h.phase = "read" /\ h.i = NoInvoice
  /\ h.phase = "summed" => h.owed = Owed(h.c, With(h, V))

\* Two requests do not enter the same new row.
Apart(h, g) ==
  /\ h.op = "pay" /\ g.op = "pay" => h.p # g.p
  /\ h.op = "sale" /\ g.op = "sale" => h.i # g.i

\* A recorded payment and the invoice it is on are of the same customer.
PaymentStands(x, V) ==
  x.recorded => /\ x.amount \in Amounts
                /\ x.cust \in Customers
                /\ x.inv # NoInvoice => Of(V[x.inv], x.cust)

RowsTyped ==
  /\ inv \in [Invoices -> Rows]
  /\ pay \in [Payments -> PaymentRows]
  /\ outstanding \in [Customers -> Nat]
  /\ hand \in [Requests -> Hands \cup {NoRequest}]

HandsStand == \A r \in Requests : hand[r] # NoRequest => Stands(hand[r], inv, pay, outstanding)
HandsApart ==
  \A r, s \in Requests :
    r # s /\ hand[r] # NoRequest /\ hand[s] # NoRequest => Apart(hand[r], hand[s])
PaymentsStand == \A p \in Payments : PaymentStands(pay[p], inv)
AllCounted == \A i \in Invoices : Cardinality(Paid(pay, i)) <= inv[i].paid

\* The inductive invariant of SerialSpec.
SerialInv ==
  /\ RowsTyped
  /\ HandsStand
  /\ HandsApart
  /\ OneAtATime
  /\ PaymentsStand
  /\ AllCounted
  /\ OutstandingCovers

-----------------------------------------------------------------------------
\* Counting

\* There are finitely many pieces.
LEMMA PiecesCounted ==
  ASSUME NEW P, NEW i, NEW c, NEW V
  PROVE  /\ IsFiniteSet(Paid(P, i)) /\ Cardinality(Paid(P, i)) \in Nat
         /\ Owed(c, V) \in Nat
<1>1. IsFiniteSet(Amounts)
  BY FS_Interval, ReceivablesAssumption DEF Amounts
<1>2. IsFiniteSet(Payments \X Amounts) /\ IsFiniteSet(Invoices \X Amounts)
  BY <1>1, FS_Product, ReceivablesAssumption
<1>3. IsFiniteSet(Paid(P, i))
  BY <1>2, FS_Subset DEF Paid
<1> DEFINE owed == {u \in Invoices \X Amounts :
                 /\ V[u[1]].cust = c
                 /\ Counted(V[u[1]])
                 /\ u[2] <= Due(V[u[1]])}
<1>4. IsFiniteSet(owed)
  BY <1>2, FS_Subset
<1>5. Owed(c, V) = Cardinality(owed)
  BY DEF Owed
<1> QED
  BY <1>3, <1>4, <1>5, FS_CardinalityType

\* A payment has as many pieces as its amount.
LEMMA PaymentPieces ==
  ASSUME NEW p, NEW n \in Totals
  PROVE  /\ IsFiniteSet({p} \X (1..n))
         /\ Cardinality({p} \X (1..n)) = n
<1> DEFINE f == [k \in 1..n |-> <<p, k>>]
<1>1. f \in Bijection(1..n, {p} \X (1..n))
  <2>1. f \in [1..n -> {p} \X (1..n)]
    OBVIOUS
  <2>2. \A a, b \in 1..n : f[a] = f[b] => a = b
    OBVIOUS
  <2>3. \A t \in {p} \X (1..n) : \E s \in 1..n : f[s] = t
    OBVIOUS
  <2> QED
    BY <2>1, <2>2, <2>3 DEF Bijection, Injection, IsInjective, Surjection
<1>2. ExistsBijection(1..n, {p} \X (1..n))
  BY <1>1 DEF ExistsBijection
<1>3. n \in Nat
  BY ReceivablesAssumption DEF Totals
<1>4. Cardinality({p} \X (1..n)) = n
  BY <1>2, <1>3, FS_CountingElements
<1>5. IsFiniteSet({p}) /\ IsFiniteSet(1..n)
  <2>1. IsFiniteSet({p})
    BY FS_Singleton
  <2>2. IsFiniteSet(1..n)
    BY <1>3, FS_Interval
  <2> QED
    BY <2>1, <2>2
<1> QED
  BY <1>4, <1>5, FS_Product

\* Recording a payment adds its amount to the pieces of its invoice.
LEMMA PiecesGrow ==
  ASSUME NEW P \in [Payments -> PaymentRows], NEW Q \in [Payments -> PaymentRows],
         NEW p \in Payments, NEW i \in Invoices,
         \A q \in Payments : q # p => Q[q] = P[q],
         ~P[p].recorded,
         Q[p].recorded, Q[p].inv = i
  PROVE  Cardinality(Paid(Q, i)) = Cardinality(Paid(P, i)) + Q[p].amount
<1> DEFINE new == {p} \X (1..Q[p].amount)
<1>1. Q[p].amount \in Totals
  BY DEF PaymentRows
<1>2. new \subseteq Payments \X Amounts
  BY <1>1, ReceivablesAssumption DEF Totals, Amounts
<1>3. Paid(Q, i) = Paid(P, i) \cup new
  <2>1. \A u \in Payments \X Amounts : u \in new <=> u[1] = p /\ u[2] <= Q[p].amount
    BY <1>1, ReceivablesAssumption DEF Totals, Amounts
  <2> HIDE DEF new
  <2> QED
    BY <1>2, <2>1 DEF Paid
<1>4. Paid(P, i) \cap new = {}
  BY DEF Paid
<1>5. IsFiniteSet(new) /\ Cardinality(new) = Q[p].amount
  BY <1>1, PaymentPieces
<1> HIDE DEF new
<1>6. Cardinality(Paid(P, i) \cup new)
        = Cardinality(Paid(P, i)) + Cardinality(new) - Cardinality(Paid(P, i) \cap new)
  BY <1>5, PiecesCounted, FS_Union
<1>7. Cardinality(Paid(P, i) \cap new) = 0
  BY <1>4, FS_EmptySet
<1> QED
  BY <1>1, <1>3, <1>5, <1>6, <1>7, PiecesCounted, ReceivablesAssumption DEF Totals

\* Other invoices have the payments they had.
LEMMA PiecesElsewhere ==
  ASSUME NEW P, NEW Q, NEW p, NEW i,
         \A q \in Payments : q # p => Q[q] = P[q],
         P[p].recorded => P[p].inv # i,
         Q[p].recorded => Q[p].inv # i
  PROVE  Paid(Q, i) = Paid(P, i)
BY DEF Paid

\* What a customer owes depends on the invoices of the customer that count.
LEMMA OwedAgrees ==
  ASSUME NEW c, NEW V, NEW W,
         \A i \in Invoices : \/ W[i] = V[i]
                             \/ ~(W[i].cust = c /\ Counted(W[i])) /\ ~(V[i].cust = c /\ Counted(V[i]))
  PROVE  Owed(c, W) = Owed(c, V)
<1>1. {u \in Invoices \X Amounts : W[u[1]].cust = c /\ Counted(W[u[1]]) /\ u[2] <= Due(W[u[1]])}
        = {u \in Invoices \X Amounts : V[u[1]].cust = c /\ Counted(V[u[1]]) /\ u[2] <= Due(V[u[1]])}
  OBVIOUS
<1> QED
  BY <1>1 DEF Owed

\* It falls when an invoice ceases to count.
LEMMA OwedFalls ==
  ASSUME NEW c, NEW V, NEW W,
         \A i \in Invoices : W[i] = V[i] \/ ~Counted(W[i])
  PROVE  Owed(c, W) <= Owed(c, V)
<1> DEFINE v == {u \in Invoices \X Amounts :
                  V[u[1]].cust = c /\ Counted(V[u[1]]) /\ u[2] <= Due(V[u[1]])}
           w == {u \in Invoices \X Amounts :
                  W[u[1]].cust = c /\ Counted(W[u[1]]) /\ u[2] <= Due(W[u[1]])}
<1>1. w \subseteq v
  OBVIOUS
<1>2. IsFiniteSet(Amounts)
  BY FS_Interval, ReceivablesAssumption DEF Amounts
<1>3. IsFiniteSet(v)
  BY <1>2, FS_Product, FS_Subset, ReceivablesAssumption
<1>4. Cardinality(w) <= Cardinality(v)
  BY <1>1, <1>3, FS_Subset
<1> QED
  BY <1>4 DEF Owed

-----------------------------------------------------------------------------
\* Rows

LEMMA ChangedRow ==
  ASSUME NEW m \in InvoiceRows, NEW paid \in Totals,
         NEW status \in {"issued", "partial", "paid"}
  PROVE  [m EXCEPT !.paid = paid, !.status = status] \in InvoiceRows
BY DEF InvoiceRows

LEMMA CreditedRow ==
  ASSUME NEW m \in Rows, NEW amount \in Amounts, amount <= Due(m), m.status # "absent"
  PROVE  LET n == Credited(m, amount)
         IN /\ n \in Rows
            /\ n.status # "absent" /\ n.cust = m.cust
            /\ n.paid = m.paid + amount
<1> DEFINE n == Credited(m, amount)
<1>1. /\ m \in InvoiceRows /\ RowTells(m) /\ m.cust \in Customers
      /\ m.total \in Nat /\ m.paid \in Nat /\ m.total <= MaxAmount
      /\ amount \in Nat /\ amount > 0 /\ m.paid + amount <= m.total
  BY ReceivablesAssumption DEF Rows, InvoiceRows, Totals, Amounts, Due
<1>2. /\ n.paid = m.paid + amount /\ n.total = m.total /\ n.cust = m.cust /\ n.type = m.type
      /\ n.status = IF m.total = m.paid + amount THEN "paid" ELSE "partial"
  BY <1>1 DEF InvoiceRows, Credited
<1>3. n \in InvoiceRows
  <2>1. m.paid + amount \in Totals
    BY <1>1, ReceivablesAssumption DEF Totals
  <2>2. (IF m.total - (m.paid + amount) <= 0 THEN "paid" ELSE "partial") \in {"issued", "partial", "paid"}
    OBVIOUS
  <2> QED
    BY <1>1, <2>1, <2>2, ChangedRow DEF Credited
<1>4. RowTells(n)
  BY <1>1, <1>2 DEF RowTells
<1> QED
  BY <1>1, <1>2, <1>3, <1>4 DEF Rows

LEMMA ReducedRow ==
  ASSUME NEW m \in Rows, NEW amount \in Amounts, amount <= m.paid, m.status # "absent"
  PROVE  LET n == Reduced(m, amount)
         IN /\ n \in Rows
            /\ n.status # "absent" /\ n.cust = m.cust
            /\ n.paid = m.paid - amount
<1> DEFINE n == Reduced(m, amount)
           paid == m.paid - amount
<1>1. /\ m \in InvoiceRows /\ RowTells(m) /\ m.cust \in Customers
      /\ m.total \in Nat /\ m.paid \in Nat /\ m.total <= MaxAmount /\ m.paid <= m.total
      /\ amount \in Nat /\ amount > 0 /\ paid \in Nat
  BY ReceivablesAssumption DEF Rows, InvoiceRows, Totals, Amounts, RowTells
<1>2. (IF amount < m.paid THEN m.paid - amount ELSE 0) = paid
  BY <1>1
<1>3. /\ n.paid = paid /\ n.total = m.total /\ n.cust = m.cust /\ n.type = m.type
      /\ n.status = IF paid > 0 THEN "partial" ELSE "issued"
  BY <1>1, <1>2 DEF InvoiceRows, Reduced
<1>4. n \in InvoiceRows
  <2>1. paid \in Totals
    BY <1>1, ReceivablesAssumption DEF Totals
  <2>2. (IF m.total - paid <= 0 THEN "paid" ELSE IF paid > 0 THEN "partial" ELSE "issued")
          \in {"issued", "partial", "paid"}
    OBVIOUS
  <2> QED
    BY <1>1, <1>2, <2>1, <2>2, ChangedRow DEF Reduced
<1>5. RowTells(n)
  BY <1>1, <1>3 DEF RowTells
<1> QED
  BY <1>1, <1>3, <1>4, <1>5 DEF Rows

LEMMA NewRow ==
  ASSUME NEW c \in Customers, NEW total \in Totals,
         NEW type \in {"sales_invoice", "purchase_order", "note"},
         NEW status \in {"draft", "issued"}
  PROVE  LET n == Issued(type, status, c, total)
         IN n \in Rows /\ n.status = status /\ n.cust = c /\ n.paid = 0
BY ReceivablesAssumption DEF Rows, InvoiceRows, RowTells, Totals, Issued

LEMMA BlankRow == Blank \in Rows /\ Blank.status = "absent" /\ Blank.paid = 0
BY ReceivablesAssumption DEF Rows, InvoiceRows, RowTells, Totals, Issued, Blank

LEMMA UnpaidRow == Unpaid \in PaymentRows /\ ~Unpaid.recorded
BY ReceivablesAssumption DEF PaymentRows, Totals, Unpaid

LEMMA VoidRow ==
  ASSUME NEW m \in Rows, m.paid = 0, m.status # "absent"
  PROVE  LET n == [m EXCEPT !.status = "void"]
         IN n \in Rows /\ n.status = "void" /\ n.cust = m.cust /\ n.paid = 0 /\ ~Counted(n)
BY ReceivablesAssumption DEF Rows, InvoiceRows, RowTells, Totals, Counted

-----------------------------------------------------------------------------
\* What a step leaves standing

\* A request stands on its own rows.
LEMMA StandsOnOwnRows ==
  ASSUME NEW g \in Hands, NEW V, NEW W, NEW P, NEW Q, NEW O, NEW U,
         Stands(g, V, P, O),
         U[g.c] = O[g.c],
         g.i \in Invoices => W[g.i] = V[g.i] /\ Paid(Q, g.i) = Paid(P, g.i),
         g.op = "pay" => Q[g.p].recorded = P[g.p].recorded,
         g.op = "delete" /\ g.phase = "read" => Q[g.p] = P[g.p],
         \A i \in Invoices : \/ W[i] = V[i]
                             \/ ~(W[i].cust = g.c /\ Counted(W[i])) /\ ~(V[i].cust = g.c /\ Counted(V[i]))
  PROVE  Stands(g, W, Q, U)
<1>1. g.i \in Invoices \cup {NoInvoice}
  BY DEF Hands, Memories
<1>2. g.op = "pay" => PayStands(g, W, Q)
  BY <1>1 DEF Stands, PayStands
<1>3. g.op = "sale" => SaleStands(g, W)
  BY <1>1 DEF Stands, SaleStands
<1>4. g.op = "delete" => DeleteStands(g, W, Q)
  BY <1>1 DEF Stands, DeleteStands
<1>5. g.op = "void" => VoidStands(g, W)
  BY <1>1 DEF Stands, VoidStands
<1>6. Owed(g.c, With(g, W)) = Owed(g.c, With(g, V))
  BY OwedAgrees DEF With
<1> QED
  BY <1>2, <1>3, <1>4, <1>5, <1>6 DEF Stands

\* The invoice a request writes is its customer's, or none yet.
LEMMA StandingInvoice ==
  ASSUME NEW h \in Hands, NEW V, NEW P, NEW O, Stands(h, V, P, O), h.i \in Invoices
  PROVE  IF h.op = "sale" THEN V[h.i].status = "absent" ELSE Of(V[h.i], h.c)
BY ReceivablesAssumption
   DEF Stands, PayStands, SaleStands, DeleteStands, VoidStands, Hands, Memories

\* A request that writes its own invoice and its own payment leaves the
\* requests of other customers standing.
LEMMA OthersStand ==
  ASSUME NEW h \in Hands, NEW g \in Hands, NEW V, NEW W, NEW P, NEW Q, NEW O, NEW U,
         Stands(h, V, P, O), Stands(g, V, P, O),
         h.c # g.c, Apart(h, g),
         \A i \in Invoices : i # h.i => W[i] = V[i],
         h.i \in Invoices => W[h.i] = V[h.i] \/ W[h.i].cust = h.c,
         \/ Q = P
         \/ /\ h.op = "pay" \/ (h.op = "delete" /\ h.phase = "read")
            /\ Q[h.p].recorded => Q[h.p].inv = h.i
            /\ \A q \in Payments : q # h.p => Q[q] = P[q],
         U[g.c] = O[g.c]
  PROVE  Stands(g, W, Q, U)
<1>1. h.i \in Invoices => V[h.i].status = "absent" \/ Of(V[h.i], h.c)
  BY StandingInvoice
<1>2. g.i \in Invoices => V[g.i].status = "absent" \/ Of(V[g.i], g.c)
  BY StandingInvoice
<1>3. g.i \in Invoices => g.i # h.i
  <2>1. SUFFICES ASSUME g.i \in Invoices, g.i = h.i
                 PROVE  FALSE
    OBVIOUS
  <2> QED
    BY <2>1, StandingInvoice DEF Apart, Of
<1>4. \A i \in Invoices : \/ W[i] = V[i]
                          \/ ~(W[i].cust = g.c /\ Counted(W[i])) /\ ~(V[i].cust = g.c /\ Counted(V[i]))
  BY <1>1 DEF Of, Counted
<1>5. CASE Q = P
  BY <1>3, <1>4, <1>5, StandsOnOwnRows
<1>6. CASE /\ h.op = "pay" \/ (h.op = "delete" /\ h.phase = "read")
           /\ Q[h.p].recorded => Q[h.p].inv = h.i
           /\ \A q \in Payments : q # h.p => Q[q] = P[q]
  <2>1. P[h.p].recorded => P[h.p].inv = h.i /\ P[h.p].cust = h.c /\ h.op = "delete"
    BY <1>6 DEF Stands, PayStands, DeleteStands
  <2>2. ~P[h.p].recorded => h.op = "pay"
    BY <1>6 DEF Stands, PayStands, DeleteStands
  <2>3. g.op = "pay" => g.p # h.p /\ g.p \in Payments
    BY <2>1, <2>2 DEF Apart, Stands, PayStands
  <2>4. g.op = "delete" /\ g.phase = "read" => g.p # h.p /\ g.p \in Payments
    BY <2>1 DEF Stands, DeleteStands
  <2>5. g.i \in Invoices => Paid(Q, g.i) = Paid(P, g.i)
    BY <1>3, <1>6, <2>1, PiecesElsewhere
  <2> QED
    BY <1>3, <1>4, <1>6, <2>3, <2>4, <2>5, StandsOnOwnRows
<1> QED
  BY <1>5, <1>6

\* The credit check of one customer.
Covered(c) ==
  \/ c \in torn
  \/ \E r \in Requests : Phase(r, {"delete"}, "reduced") /\ hand[r].c = c
  \/ outstanding[c] >= Owed(c, inv)

\* What a request h may write: its invoice, its payment, its customer.
WritesOwn(h) ==
  /\ \A i \in Invoices : i # h.i => inv'[i] = inv[i]
  /\ h.i \in Invoices => inv'[h.i] = inv[h.i] \/ Of(inv'[h.i], h.c)
  /\ \/ pay' = pay
     \/ /\ h.op = "pay" \/ (h.op = "delete" /\ h.phase = "read")
        /\ pay'[h.p].recorded => pay'[h.p].inv = h.i
        /\ \A q \in Payments : q # h.p => pay'[q] = pay[q]
  /\ \A c \in Customers : c # h.c => /\ outstanding'[c] = outstanding[c]
                                     /\ c \in torn => c \in torn'

\* A step by which a request writes only that, and goes on as k or ends, keeps
\* the requests of others standing, the invoices with their customers, and the
\* credit check of the other customers.
LEMMA StepKeeps ==
  ASSUME SerialInv,
         NEW r \in Requests, NEW h \in Hands, hand[r] = h, h # NoRequest,
         NEW k \in Hands \cup {NoRequest}, hand' = [hand EXCEPT ![r] = k],
         k # NoRequest => /\ k.op = h.op /\ k.p = h.p /\ k.i = h.i /\ k.c = h.c
                          /\ Stands(k, inv', pay', outstanding'),
         WritesOwn(h)
  PROVE  /\ hand' \in [Requests -> Hands \cup {NoRequest}]
         /\ HandsStand'
         /\ HandsApart'
         /\ \A i \in Invoices, c \in Customers : Of(inv[i], c) => Of(inv'[i], c)
         /\ \A c \in Customers : c # h.c => Covered(c)'
<1>1. hand' \in [Requests -> Hands \cup {NoRequest}]
  BY DEF SerialInv, RowsTyped
<1>2. /\ hand'[r] = k
      /\ \A s \in Requests : s # r => hand'[s] = hand[s]
  BY DEF SerialInv, RowsTyped
<1>3. Stands(h, inv, pay, outstanding) /\ h.c \in Customers
  BY DEF SerialInv, HandsStand, Hands, Memories
<1>4. ASSUME NEW s \in Requests, s # r, hand[s] # NoRequest
      PROVE  Stands(hand[s], inv', pay', outstanding') /\ hand[s].c # h.c
  <2> DEFINE g == hand[s]
  <2>1. g \in Hands /\ g.c \in Customers /\ Stands(g, inv, pay, outstanding)
    BY <1>4 DEF SerialInv, RowsTyped, HandsStand, Hands, Memories
  <2>2. h.c # g.c /\ Apart(h, g)
    BY <1>4 DEF SerialInv, OneAtATime, HandsApart
  <2> HIDE DEF g
  <2>3. Stands(g, inv', pay', outstanding')
    BY <1>3, <2>1, <2>2, OthersStand DEF WritesOwn, Of
  <2> QED
    BY <2>2, <2>3 DEF g
<1>5. HandsStand'
  <2>1. SUFFICES ASSUME NEW s \in Requests, hand'[s] # NoRequest
                 PROVE  Stands(hand'[s], inv', pay', outstanding')
    BY DEF HandsStand
  <2>2. CASE s = r
    BY <1>2, <2>1, <2>2
  <2>3. CASE s # r
    BY <1>2, <1>4, <2>1, <2>3
  <2> QED
    BY <2>2, <2>3
<1>6. HandsApart'
  <2>1. \A s \in Requests : hand'[s] # NoRequest =>
          /\ hand[s] # NoRequest
          /\ hand'[s].op = hand[s].op /\ hand'[s].p = hand[s].p /\ hand'[s].i = hand[s].i
    BY <1>2
  <2> QED
    BY <2>1 DEF SerialInv, HandsApart, Apart
<1>7. \A i \in Invoices, c \in Customers : Of(inv[i], c) => Of(inv'[i], c)
  BY <1>3, StandingInvoice DEF WritesOwn, Of
<1>8. ASSUME NEW c \in Customers, c # h.c
      PROVE  Covered(c)'
  <2>1. Covered(c)
    BY DEF SerialInv, OutstandingCovers, Covered
  <2>2. CASE c \in torn
    BY <1>8, <2>2 DEF WritesOwn, Covered
  <2>3. CASE \E s \in Requests : Phase(s, {"delete"}, "reduced") /\ hand[s].c = c
    <3>1. PICK s \in Requests : Phase(s, {"delete"}, "reduced") /\ hand[s].c = c
      BY <2>3
    <3>2. hand'[s] = hand[s]
      BY <1>2, <1>8, <3>1
    <3> QED
      BY <3>1, <3>2 DEF Covered, Phase
  <2>4. CASE outstanding[c] >= Owed(c, inv)
    <3>1. h.i \in Invoices => inv[h.i].status = "absent" \/ Of(inv[h.i], h.c)
      BY <1>3, StandingInvoice
    <3>2. \A i \in Invoices : \/ inv'[i] = inv[i]
                              \/ ~(inv'[i].cust = c /\ Counted(inv'[i])) /\ ~(inv[i].cust = c /\ Counted(inv[i]))
      BY <1>8, <3>1 DEF WritesOwn, Of, Counted
    <3>3. Owed(c, inv') = Owed(c, inv)
      BY <3>2, OwedAgrees
    <3>4. outstanding'[c] >= Owed(c, inv')
      BY <1>8, <2>4, <3>3 DEF WritesOwn
    <3> QED
      BY <3>4 DEF Covered, Owed
  <2> QED
    BY <2>1, <2>2, <2>3, <2>4 DEF Covered
<1> QED
  BY <1>1, <1>5, <1>6, <1>7, <1>8

\* Recorded payments keep their customer's invoice.
LEMMA StepPayments ==
  ASSUME PaymentsStand, pay \in [Payments -> PaymentRows],
         \A i \in Invoices, c \in Customers : Of(inv[i], c) => Of(inv'[i], c),
         \A q \in Payments : pay'[q] = pay[q] \/ PaymentStands(pay'[q], inv')
  PROVE  PaymentsStand'
<1>1. SUFFICES ASSUME NEW q \in Payments, pay'[q] = pay[q]
               PROVE  PaymentStands(pay'[q], inv')
  BY DEF PaymentsStand
<1>2. pay[q].inv \in Invoices \cup {NoInvoice}
  BY DEF PaymentRows
<1> QED
  BY <1>1, <1>2 DEF PaymentsStand, PaymentStands

\* A request other than a deletion about to end has nobody beside it to vouch
\* for the outstanding amount.
LEMMA CoveredAlone ==
  ASSUME SerialInv, NEW r \in Requests, hand[r] # NoRequest, hand[r].phase # "reduced"
  PROVE  hand[r].c \in torn \/ outstanding[hand[r].c] >= Owed(hand[r].c, inv)
<1>1. hand[r].c \in Customers
  BY DEF SerialInv, RowsTyped, Hands, Memories
<1>2. \A s \in Requests : Phase(s, {"delete"}, "reduced") => hand[s].c # hand[r].c
  BY DEF SerialInv, OneAtATime, Phase
<1> QED
  BY <1>1, <1>2 DEF SerialInv, OutstandingCovers

\* What a payment takes of an invoice was paid.
LEMMA AmountPaid ==
  ASSUME SerialInv, NEW p \in Payments, pay[p].recorded, NEW i \in Invoices, pay[p].inv = i
  PROVE  /\ pay[p].amount \in Amounts /\ pay[p].amount <= inv[i].paid
         /\ Cardinality(Paid([pay EXCEPT ![p] = Unpaid], i)) = Cardinality(Paid(pay, i)) - pay[p].amount
<1> DEFINE P == [pay EXCEPT ![p] = Unpaid]
<1>1. pay \in [Payments -> PaymentRows] /\ P \in [Payments -> PaymentRows]
  BY UnpaidRow DEF SerialInv, RowsTyped
<1>2. ~P[p].recorded /\ \A q \in Payments : q # p => pay[q] = P[q]
  BY <1>1, UnpaidRow
<1> HIDE DEF P
<1>3. Cardinality(Paid(pay, i)) = Cardinality(Paid(P, i)) + pay[p].amount
  BY <1>1, <1>2, PiecesGrow
<1>4. pay[p].amount \in Amounts
  BY DEF SerialInv, PaymentsStand, PaymentStands
<1>5. Cardinality(Paid(pay, i)) <= inv[i].paid /\ inv[i].paid \in Nat
  BY ReceivablesAssumption DEF SerialInv, AllCounted, RowsTyped, Rows, InvoiceRows, Totals
<1>6. Cardinality(Paid(P, i)) \in Nat /\ pay[p].amount \in Nat
  BY <1>4, PiecesCounted, ReceivablesAssumption DEF Amounts
<1> QED
  BY <1>3, <1>4, <1>5, <1>6 DEF P

-----------------------------------------------------------------------------
\* The invariant: the first state, and a request taken up

LEMMA SerialInit == Init => SerialInv
<1> SUFFICES ASSUME Init
             PROVE  SerialInv
  OBVIOUS
<1>1. RowsTyped
  BY BlankRow, UnpaidRow DEF Init, RowsTyped
<1>2. HandsStand /\ HandsApart /\ OneAtATime
  BY DEF Init, HandsStand, HandsApart, OneAtATime
<1>3. PaymentsStand
  BY UnpaidRow DEF Init, PaymentsStand, PaymentStands
<1>4. AllCounted
  <2>1. \A i \in Invoices : Paid(pay, i) = {}
    BY UnpaidRow DEF Init, Paid
  <2>2. Cardinality({}) = 0
    BY FS_EmptySet
  <2>3. \A i \in Invoices : Cardinality(Paid(pay, i)) = 0 /\ inv[i].paid = 0
    BY <2>1, <2>2, BlankRow DEF Init
  <2> QED
    BY <2>3 DEF AllCounted
<1>5. OutstandingCovers
  <2>1. SUFFICES ASSUME NEW c \in Customers
                 PROVE  outstanding[c] >= Owed(c, inv)
    BY DEF OutstandingCovers
  <2>2. {u \in Invoices \X Amounts :
           inv[u[1]].cust = c /\ Counted(inv[u[1]]) /\ u[2] <= Due(inv[u[1]])} = {}
    BY BlankRow DEF Init, Counted
  <2>3. Owed(c, inv) = Cardinality({})
    BY <2>2 DEF Owed
  <2>4. Owed(c, inv) = 0
    BY <2>3, FS_EmptySet
  <2> QED
    BY <2>4 DEF Init
<1> QED
  BY <1>1, <1>2, <1>3, <1>4, <1>5 DEF SerialInv

\* A request is taken up.
LEMMA TakeKeeps ==
  ASSUME SerialInv, OneAtATime',
         NEW r \in Requests, NEW h \in Hands, Take(r, h),
         Stands(h, inv, pay, outstanding),
         \A s \in Requests : hand[s] # NoRequest => Apart(h, hand[s])
  PROVE  SerialInv'
<1>1. /\ hand' \in [Requests -> Hands \cup {NoRequest}]
      /\ hand'[r] = h /\ hand[r] = NoRequest
      /\ \A s \in Requests : s # r => hand'[s] = hand[s]
      /\ inv' = inv /\ pay' = pay /\ outstanding' = outstanding /\ torn' = torn
  BY DEF Take, SerialInv, RowsTyped
<1>2. RowsTyped'
  BY <1>1 DEF SerialInv, RowsTyped
<1>3. HandsStand'
  <2>1. \A s \in Requests : hand'[s] # NoRequest => Stands(hand'[s], inv, pay, outstanding)
    BY <1>1 DEF SerialInv, HandsStand
  <2> QED
    BY <1>1, <2>1 DEF HandsStand
<1>4. HandsApart'
  BY <1>1 DEF SerialInv, HandsApart, Apart
<1>5. PaymentsStand' /\ AllCounted'
  BY <1>1 DEF SerialInv, PaymentsStand, AllCounted
<1>6. OutstandingCovers'
  <2>1. \A s \in Requests : Phase(s, {"delete"}, "reduced") => hand'[s] = hand[s]
    BY <1>1 DEF Phase
  <2>2. \A s \in Requests : Phase(s, {"delete"}, "reduced") => Phase(s, {"delete"}, "reduced")'
    BY <2>1 DEF Phase
  <2>3. \A c \in Customers : Owed(c, inv') = Owed(c, inv)
    BY <1>1
  <2>4. SUFFICES ASSUME NEW c \in Customers
                 PROVE  \/ c \in torn'
                        \/ \E s \in Requests : Phase(s, {"delete"}, "reduced")' /\ hand'[s].c = c
                        \/ outstanding'[c] >= Owed(c, inv')
    BY DEF OutstandingCovers
  <2>5. \/ c \in torn
        \/ \E s \in Requests : Phase(s, {"delete"}, "reduced") /\ hand[s].c = c
        \/ outstanding[c] >= Owed(c, inv)
    BY DEF SerialInv, OutstandingCovers
  <2> QED
    BY <1>1, <2>1, <2>2, <2>3, <2>5
<1> QED
  BY <1>2, <1>3, <1>4, <1>5, <1>6 DEF SerialInv

LEMMA MemoryTyped ==
  ASSUME NEW op \in {"pay", "sale", "delete", "void", "edit"}, NEW i \in Invoices \cup {NoInvoice},
         NEW row \in Rows, NEW p \in Payments \cup {NoPayment},
         NEW new \in PaymentRows \cup {NoPayment}, NEW c \in Customers, outstanding[c] \in Nat
  PROVE  Memory(op, i, row, p, new, c) \in Hands
<1>1. row \in InvoiceRows
  BY DEF Rows
<1>2. Memory(op, i, row, p, new, c) \in Memories
  BY <1>1 DEF Memory, Memories
<1> QED
  BY <1>2 DEF Hands, Memory

LEMMA LoadPaymentKeeps ==
  ASSUME SerialInv, OneAtATime', NEW r \in Requests,
         NEW p \in Payments, NEW i \in Invoices \cup {NoInvoice}, NEW c \in Customers,
         NEW amount \in Amounts, LoadPayment(r, p, i, c, amount)
  PROVE  SerialInv'
<1> DEFINE new == [recorded |-> TRUE, inv |-> i, cust |-> c, amount |-> amount]
           row == IF i = NoInvoice THEN Blank ELSE Credited(inv[i], amount)
           h == Memory("pay", i, row, p, new, c)
<1>1. FreshPayment(p) /\ Take(r, h)
  BY DEF LoadPayment
<1>2. i # NoInvoice => /\ Of(inv[i], c) /\ inv[i] \in Rows /\ amount <= Due(inv[i])
                       /\ inv[i].status # "absent"
  BY DEF LoadPayment, Of, SerialInv, RowsTyped
<1>3. row \in Rows
  BY <1>2, BlankRow, CreditedRow
<1>4. new \in PaymentRows
  BY ReceivablesAssumption DEF PaymentRows, Amounts, Totals
<1>5. outstanding[c] \in Nat
  BY DEF SerialInv, RowsTyped
<1> HIDE DEF new, row
<1>6. h \in Hands
  BY <1>3, <1>4, <1>5, MemoryTyped
<1>7. PayStands(h, inv, pay)
  BY <1>1, <1>2, <1>4 DEF PayStands, Memory, FreshPayment, new, row
<1>8. Stands(h, inv, pay, outstanding)
  BY <1>7 DEF Stands, Memory
<1>9. \A s \in Requests : hand[s] # NoRequest => Apart(h, hand[s])
  BY <1>1 DEF Apart, FreshPayment, Memory
<1> QED
  BY <1>1, <1>6, <1>8, <1>9, TakeKeeps

LEMMA LoadSaleKeeps ==
  ASSUME SerialInv, OneAtATime', NEW r \in Requests,
         NEW i \in Invoices, NEW c \in Customers, NEW total \in Totals, LoadSale(r, i, c, total)
  PROVE  SerialInv'
<1> DEFINE row == Issued("sales_invoice", "issued", c, total)
           h == Memory("sale", i, row, NoPayment, NoPayment, c)
<1>1. FreshInvoice(i) /\ Take(r, h)
  BY DEF LoadSale
<1>2. row \in Rows
  BY NewRow
<1>3. outstanding[c] \in Nat
  BY DEF SerialInv, RowsTyped
<1> HIDE DEF row
<1>4. h \in Hands
  BY <1>2, <1>3, MemoryTyped
<1>5. SaleStands(h, inv)
  BY <1>1 DEF SaleStands, Memory, FreshInvoice, row
<1>6. Stands(h, inv, pay, outstanding)
  BY <1>5 DEF Stands, Memory
<1>7. \A s \in Requests : hand[s] # NoRequest => Apart(h, hand[s])
  BY <1>1 DEF Apart, FreshInvoice, Memory
<1> QED
  BY <1>1, <1>4, <1>6, <1>7, TakeKeeps

LEMMA LoadDeleteKeeps ==
  ASSUME SerialInv, OneAtATime', NEW r \in Requests, NEW p \in Payments, LoadDelete(r, p)
  PROVE  SerialInv'
<1> DEFINE i == pay[p].inv
           c == pay[p].cust
           row == IF i = NoInvoice THEN Blank ELSE Reduced(inv[i], pay[p].amount)
           h == Memory("delete", i, row, p, Unpaid, c)
<1>1. pay[p].recorded /\ Take(r, h)
  BY DEF LoadDelete
<1>2. i \in Invoices \cup {NoInvoice}
  BY DEF SerialInv, RowsTyped, PaymentRows
<1>3. c \in Customers /\ (i # NoInvoice => Of(inv[i], c))
  BY <1>1 DEF SerialInv, PaymentsStand, PaymentStands
<1>4. row \in Rows
  <2>1. CASE i = NoInvoice
    BY <2>1, BlankRow
  <2>2. CASE i # NoInvoice
    <3>1. pay[p].amount \in Amounts /\ pay[p].amount <= inv[i].paid
      BY <1>1, <1>2, <2>2, AmountPaid
    <3>2. inv[i] \in Rows /\ inv[i].status # "absent"
      BY <1>2, <1>3, <2>2 DEF SerialInv, RowsTyped, Of
    <3> QED
      BY <2>2, <3>1, <3>2, ReducedRow
  <2> QED
    BY <2>1, <2>2
<1>5. outstanding[c] \in Nat
  BY <1>3 DEF SerialInv, RowsTyped
<1>6. h \in Hands
  <2> HIDE DEF row, c, i
  <2> QED
    BY <1>2, <1>3, <1>4, <1>5, UnpaidRow, MemoryTyped
<1>7. DeleteStands(h, inv, pay)
  BY <1>1, <1>3 DEF DeleteStands, Memory
<1>8. Stands(h, inv, pay, outstanding)
  BY <1>7 DEF Stands, Memory
<1>9. \A s \in Requests : hand[s] # NoRequest => Apart(h, hand[s])
  BY DEF Apart, Memory
<1> HIDE DEF h
<1> QED
  BY <1>1, <1>6, <1>8, <1>9, TakeKeeps

LEMMA LoadVoidKeeps ==
  ASSUME SerialInv, OneAtATime', NEW r \in Requests, NEW i \in Invoices, LoadVoid(r, i)
  PROVE  SerialInv'
<1> DEFINE c == inv[i].cust
           row == [inv[i] EXCEPT !.status = "void"]
           h == Memory("void", i, row, NoPayment, NoPayment, c)
<1>1. inv[i].status # "absent" /\ inv[i].paid = 0 /\ Take(r, h)
  BY DEF LoadVoid
<1>2. inv[i] \in Rows /\ c \in Customers /\ row \in Rows
  BY <1>1, VoidRow DEF SerialInv, RowsTyped, Rows
<1>3. outstanding[c] \in Nat
  BY <1>2 DEF SerialInv, RowsTyped
<1>4. h \in Hands
  <2> HIDE DEF row, c
  <2> QED
    BY <1>2, <1>3, MemoryTyped
<1>5. VoidStands(h, inv)
  BY <1>1 DEF VoidStands, Memory, Of
<1>6. Stands(h, inv, pay, outstanding)
  BY <1>5 DEF Stands, Memory
<1>7. \A s \in Requests : hand[s] # NoRequest => Apart(h, hand[s])
  BY DEF Apart, Memory
<1> HIDE DEF h
<1> QED
  BY <1>1, <1>4, <1>6, <1>7, TakeKeeps

LEMMA LoadEditKeeps ==
  ASSUME SerialInv, OneAtATime', NEW r \in Requests, NEW c \in Customers, LoadEdit(r, c)
  PROVE  SerialInv'
<1> DEFINE h == Memory("edit", NoInvoice, Blank, NoPayment, NoPayment, c)
<1>1. Take(r, h)
  BY DEF LoadEdit
<1>2. outstanding[c] \in Nat
  BY DEF SerialInv, RowsTyped
<1>3. h \in Hands
  BY <1>2, BlankRow, MemoryTyped
<1>4. Stands(h, inv, pay, outstanding)
  BY DEF Stands, Memory
<1>5. \A s \in Requests : hand[s] # NoRequest => Apart(h, hand[s])
  BY DEF Apart, Memory
<1> HIDE DEF h
<1> QED
  BY <1>1, <1>3, <1>4, <1>5, TakeKeeps

-----------------------------------------------------------------------------
\* The invariant: a request writes

\* What is left to show of a write: types, what its customer's payments and
\* invoices come to, and that the request itself still stands.
LEMMA WriteKeeps ==
  ASSUME SerialInv, OneAtATime',
         NEW r \in Requests, NEW h \in Hands, hand[r] = h, h # NoRequest,
         NEW k \in Hands \cup {NoRequest}, hand' = [hand EXCEPT ![r] = k],
         k # NoRequest => /\ k.op = h.op /\ k.p = h.p /\ k.i = h.i /\ k.c = h.c
                          /\ Stands(k, inv', pay', outstanding'),
         WritesOwn(h),
         inv' \in [Invoices -> Rows], pay' \in [Payments -> PaymentRows],
         outstanding' \in [Customers -> Nat],
         \A q \in Payments : pay'[q] = pay[q] \/ PaymentStands(pay'[q], inv'),
         \A i \in Invoices : \/ inv'[i] = inv[i] /\ Paid(pay', i) = Paid(pay, i)
                             \/ Cardinality(Paid(pay', i)) <= inv'[i].paid,
         Covered(h.c)'
  PROVE  SerialInv'
<1>1. /\ hand' \in [Requests -> Hands \cup {NoRequest}] /\ HandsStand' /\ HandsApart'
      /\ \A i \in Invoices, c \in Customers : Of(inv[i], c) => Of(inv'[i], c)
      /\ \A c \in Customers : c # h.c => Covered(c)'
  BY StepKeeps
<1>2. RowsTyped'
  BY <1>1 DEF RowsTyped
<1>3. PaymentsStand'
  BY <1>1, StepPayments DEF SerialInv, RowsTyped
<1>4. AllCounted'
  BY DEF SerialInv, AllCounted
<1>5. OutstandingCovers'
  BY <1>1 DEF OutstandingCovers, Covered
<1> QED
  BY <1>1, <1>2, <1>3, <1>4, <1>5 DEF SerialInv

\* A request in flight and what it has read.
LEMMA InFlight ==
  ASSUME SerialInv, NEW r \in Requests, hand[r] # NoRequest
  PROVE  /\ hand[r] \in Hands /\ hand[r].c \in Customers /\ hand[r].row \in Rows
         /\ Stands(hand[r], inv, pay, outstanding)
         /\ Own(r) = With(hand[r], inv)
BY DEF SerialInv, RowsTyped, HandsStand, Hands, Memories, Own, With

LEMMA SumUpKeeps ==
  ASSUME SerialInv, OneAtATime', NEW r \in Requests, SumUp(r)
  PROVE  SerialInv'
<1>1. PICK h \in Hands : h = hand[r]
  BY InFlight DEF SumUp, Phase
<1>2. /\ h # NoRequest /\ h.op \in {"pay", "sale"} /\ h.phase = "read"
      /\ h.c \in Customers /\ Stands(h, inv, pay, outstanding) /\ Own(r) = With(h, inv)
  BY <1>1, InFlight DEF SumUp, Phase
<1> DEFINE k == [h EXCEPT !.owed = Owed(h.c, With(h, inv)), !.phase = "summed"]
<1>3. hand' = [hand EXCEPT ![r] = k]
  BY <1>1, <1>2 DEF SumUp, SerialInv, RowsTyped
<1>4. inv' = inv /\ pay' = pay /\ outstanding' = outstanding /\ torn' = torn
  BY DEF SumUp
<1>5. Owed(h.c, With(h, inv)) \in Nat
  BY PiecesCounted
<1>6. k \in Hands
  BY <1>5 DEF Hands, Memories
<1>7. /\ k.op = h.op /\ k.p = h.p /\ k.i = h.i /\ k.c = h.c /\ k.new = h.new /\ k.row = h.row
      /\ k.seen = h.seen /\ k.phase = "summed" /\ k.owed = Owed(h.c, With(h, inv))
  BY DEF Hands, Memories
<1> HIDE DEF k
<1>8. With(k, inv) = With(h, inv)
  BY <1>7 DEF With
<1>9. PayStands(h, inv, pay) => PayStands(k, inv, pay)
  BY <1>7 DEF PayStands
<1>10. SaleStands(h, inv) => SaleStands(k, inv)
  BY <1>7 DEF SaleStands
<1>11. Stands(k, inv, pay, outstanding)
  BY <1>2, <1>7, <1>8, <1>9, <1>10 DEF Stands
<1>12. WritesOwn(h)
  BY <1>4 DEF WritesOwn
<1>13. Covered(h.c)'
  <2>1. h.c \in torn \/ outstanding[h.c] >= Owed(h.c, inv)
    BY <1>1, <1>2, CoveredAlone
  <2> QED
    BY <2>1, <1>4 DEF Covered
<1>14. /\ inv' \in [Invoices -> Rows] /\ pay' \in [Payments -> PaymentRows]
       /\ outstanding' \in [Customers -> Nat]
  BY <1>4 DEF SerialInv, RowsTyped
<1> QED
  BY <1>1, <1>2, <1>3, <1>4, <1>6, <1>7, <1>11, <1>12, <1>13, <1>14, WriteKeeps

LEMMA CommitKeeps ==
  ASSUME SerialInv, OneAtATime', NEW r \in Requests, Commit(r)
  PROVE  SerialInv'
<1>1. PICK h \in Hands : h = hand[r]
  BY InFlight DEF Commit, Phase
<1>2. /\ h # NoRequest /\ h.op \in {"pay", "sale"} /\ h.phase = "summed"
      /\ h.c \in Customers /\ h.row \in Rows
      /\ Stands(h, inv, pay, outstanding) /\ Own(r) = With(h, inv)
  BY <1>1, InFlight DEF Commit, Phase
<1>3. /\ inv \in [Invoices -> Rows] /\ pay \in [Payments -> PaymentRows]
      /\ outstanding \in [Customers -> Nat]
  BY DEF SerialInv, RowsTyped
<1>4. /\ hand' = [hand EXCEPT ![r] = NoRequest]
      /\ inv' = With(h, inv)
      /\ pay' = IF h.op = "pay" THEN [pay EXCEPT ![h.p] = h.new] ELSE pay
      /\ outstanding' = [outstanding EXCEPT ![h.c] = IF h.owed # h.seen THEN h.owed ELSE @]
      /\ torn' = torn \ {h.c}
  BY <1>1, <1>2 DEF Commit, Done, SaveOutstanding
<1>5. h.op = "pay" => PayStands(h, inv, pay)
  BY <1>2 DEF Stands
<1>6. h.op = "sale" => SaleStands(h, inv)
  BY <1>2 DEF Stands
<1>7. inv' \in [Invoices -> Rows]
  BY <1>2, <1>3, <1>4 DEF With
<1>8. pay' \in [Payments -> PaymentRows]
  BY <1>3, <1>4, <1>5 DEF PayStands
<1>9. h.owed = Owed(h.c, inv') /\ h.owed \in Nat /\ h.seen = outstanding[h.c]
  BY <1>2, <1>4 DEF Stands, Hands, Memories
<1>10. outstanding' \in [Customers -> Nat] /\ outstanding'[h.c] = Owed(h.c, inv')
  BY <1>2, <1>3, <1>4, <1>9
<1>11. /\ \A i \in Invoices : i # h.i => inv'[i] = inv[i]
       /\ h.i \in Invoices => inv'[h.i] = h.row
  BY <1>4 DEF With
<1>12. h.i \in Invoices => Of(h.row, h.c)
  <2>1. CASE h.op = "pay" /\ h.i \in Invoices
    <3>1. /\ inv[h.i] \in Rows /\ Of(inv[h.i], h.c) /\ h.row = Credited(inv[h.i], h.new.amount)
          /\ h.new.amount \in Amounts /\ h.new.amount <= Due(inv[h.i])
      BY <1>3, <1>5, <2>1, ReceivablesAssumption DEF PayStands
    <3> QED
      BY <3>1, CreditedRow DEF Of
  <2>2. CASE h.op = "sale"
    <3>1. PICK total \in Totals : h.row = Issued("sales_invoice", "issued", h.c, total)
      BY <1>6, <2>2 DEF SaleStands
    <3> QED
      BY <1>2, <3>1, NewRow DEF Of
  <2> QED
    BY <1>2, <2>1, <2>2
<1>13. WritesOwn(h)
  <2>1. pay' = pay \/ (h.op = "pay" /\ pay'[h.p].inv = h.i /\ \A q \in Payments : q # h.p => pay'[q] = pay[q])
    BY <1>3, <1>4, <1>5 DEF PayStands
  <2>2. \A c \in Customers : c # h.c => outstanding'[c] = outstanding[c] /\ (c \in torn => c \in torn')
    BY <1>3, <1>4
  <2> QED
    BY <1>11, <1>12, <2>1, <2>2 DEF WritesOwn
<1>14. \A q \in Payments : pay'[q] = pay[q] \/ PaymentStands(pay'[q], inv')
  <2>1. SUFFICES ASSUME NEW q \in Payments, h.op = "pay", q = h.p
                 PROVE  PaymentStands(pay'[q], inv')
    BY <1>3, <1>4
  <2>2. pay'[q] = h.new
    BY <1>3, <1>4, <2>1
  <2>3. h.i \in Invoices \cup {NoInvoice}
    BY DEF Hands, Memories
  <2> QED
    BY <1>2, <1>5, <1>11, <1>12, <2>1, <2>2, <2>3 DEF PayStands, PaymentStands
<1>15. \A i \in Invoices : \/ inv'[i] = inv[i] /\ Paid(pay', i) = Paid(pay, i)
                           \/ Cardinality(Paid(pay', i)) <= inv'[i].paid
  <2>1. SUFFICES ASSUME NEW i \in Invoices
                 PROVE  \/ inv'[i] = inv[i] /\ Paid(pay', i) = Paid(pay, i)
                        \/ Cardinality(Paid(pay', i)) <= inv'[i].paid
    OBVIOUS
  <2>2. /\ Cardinality(Paid(pay, i)) <= inv[i].paid /\ Cardinality(Paid(pay, i)) \in Nat
        /\ inv[i] \in Rows /\ inv[i].paid \in Nat
    BY <1>3, PiecesCounted, ReceivablesAssumption DEF SerialInv, AllCounted, Rows, InvoiceRows, Totals
  <2>3. CASE i # h.i
    <3>1. Paid(pay', i) = Paid(pay, i)
      <4>1. CASE h.op = "pay"
        <5>1. /\ \A q \in Payments : q # h.p => pay'[q] = pay[q]
              /\ ~pay[h.p].recorded /\ pay'[h.p].inv # i
          BY <1>3, <1>4, <1>5, <2>3, <4>1 DEF PayStands
        <5> QED
          BY <5>1, PiecesElsewhere
      <4>2. CASE h.op = "sale"
        BY <1>4, <4>2
      <4> QED
        BY <1>2, <4>1, <4>2
    <3> QED
      BY <1>11, <2>3, <3>1
  <2>4. CASE i = h.i /\ h.op = "pay"
    <3>1. /\ h.new.amount \in Amounts /\ h.new.amount <= Due(inv[i])
          /\ h.row = Credited(inv[i], h.new.amount) /\ inv[i].status # "absent"
      BY <1>5, <2>4, ReceivablesAssumption DEF PayStands, Of
    <3>2. inv'[i].paid = inv[i].paid + h.new.amount
      BY <1>11, <2>2, <2>4, <3>1, CreditedRow
    <3>3. /\ \A q \in Payments : q # h.p => pay'[q] = pay[q]
          /\ h.p \in Payments /\ ~pay[h.p].recorded
          /\ pay'[h.p] = h.new /\ h.new.recorded /\ h.new.inv = i
      BY <1>3, <1>4, <1>5, <2>4 DEF PayStands
    <3>4. Cardinality(Paid(pay', i)) = Cardinality(Paid(pay, i)) + h.new.amount
      BY <1>3, <1>8, <3>3, PiecesGrow
    <3> QED
      BY <2>2, <3>1, <3>2, <3>4, ReceivablesAssumption DEF Amounts
  <2>5. CASE i = h.i /\ h.op = "sale"
    <3>1. inv[i].status = "absent" /\ \E total \in Totals : h.row = Issued("sales_invoice", "issued", h.c, total)
      BY <1>6, <2>5 DEF SaleStands
    <3>2. inv[i].paid = 0
      BY <2>2, <3>1, ReceivablesAssumption DEF Rows, InvoiceRows, RowTells, Totals
    <3>3. inv'[i].paid = 0
      BY <1>2, <1>11, <2>5, <3>1, NewRow
    <3>4. pay' = pay
      BY <1>4, <2>5
    <3> QED
      BY <2>2, <3>2, <3>3, <3>4
  <2> QED
    BY <1>2, <2>3, <2>4, <2>5
<1>16. Covered(h.c)'
  <2>1. outstanding'[h.c] >= Owed(h.c, inv')
    BY <1>9, <1>10
  <2> QED
    BY <2>1 DEF Covered, Owed
<1> QED
  BY <1>1, <1>2, <1>4, <1>7, <1>8, <1>10, <1>13, <1>14, <1>15, <1>16, WriteKeeps

\* Between its first and its second commit a deletion leaves an invoice of which
\* more is shown as paid than there are payments.
LEMMA DeletePaymentKeeps ==
  ASSUME SerialInv, OneAtATime', NEW r \in Requests, DeletePayment(r)
  PROVE  SerialInv'
<1>1. PICK h \in Hands : h = hand[r]
  BY InFlight DEF DeletePayment, Phase
<1>2. /\ h # NoRequest /\ h.op = "delete" /\ h.phase = "read"
      /\ h.c \in Customers /\ Stands(h, inv, pay, outstanding)
  BY <1>1, InFlight DEF DeletePayment, Phase
<1>3. /\ inv \in [Invoices -> Rows] /\ pay \in [Payments -> PaymentRows]
      /\ outstanding \in [Customers -> Nat]
  BY DEF SerialInv, RowsTyped
<1>4. DeleteStands(h, inv, pay)
  BY <1>2 DEF Stands
<1>5. /\ h.p \in Payments /\ pay[h.p].recorded /\ pay[h.p].inv = h.i /\ pay[h.p].cust = h.c
      /\ h.new = Unpaid
  BY <1>2, <1>4 DEF DeleteStands
<1> DEFINE k == [h EXCEPT !.phase = "deleted"]
<1>6. /\ pay' = [pay EXCEPT ![h.p] = Unpaid]
      /\ hand' = [hand EXCEPT ![r] = k]
      /\ inv' = inv /\ outstanding' = outstanding /\ torn' = torn
  BY <1>1, <1>5 DEF DeletePayment, SerialInv, RowsTyped
<1>7. k \in Hands
  BY DEF Hands, Memories
<1>8. /\ k.op = h.op /\ k.p = h.p /\ k.i = h.i /\ k.c = h.c /\ k.new = h.new /\ k.row = h.row
      /\ k.seen = h.seen /\ k.phase = "deleted"
  BY DEF Hands, Memories
<1> HIDE DEF k
<1>9. pay' \in [Payments -> PaymentRows]
  BY <1>3, <1>6, UnpaidRow
<1>10. /\ \A q \in Payments : q # h.p => pay'[q] = pay[q]
       /\ pay'[h.p] = Unpaid
  BY <1>3, <1>5, <1>6
<1>11. h.i \in Invoices =>
         /\ pay[h.p].amount \in Amounts /\ pay[h.p].amount <= inv[h.i].paid
         /\ h.row = Reduced(inv[h.i], pay[h.p].amount)
         /\ Cardinality(Paid(pay', h.i)) <= h.row.paid
         /\ Cardinality(Paid(pay', h.i)) <= inv[h.i].paid
  <2>1. SUFFICES ASSUME h.i \in Invoices
                 PROVE  /\ pay[h.p].amount \in Amounts /\ pay[h.p].amount <= inv[h.i].paid
                        /\ h.row = Reduced(inv[h.i], pay[h.p].amount)
                        /\ Cardinality(Paid(pay', h.i)) <= h.row.paid
                        /\ Cardinality(Paid(pay', h.i)) <= inv[h.i].paid
    OBVIOUS
  <2>2. /\ pay[h.p].amount \in Amounts /\ pay[h.p].amount <= inv[h.i].paid
        /\ Cardinality(Paid(pay', h.i)) = Cardinality(Paid(pay, h.i)) - pay[h.p].amount
    BY <1>5, <1>6, <2>1, AmountPaid
  <2>3. /\ h.row = Reduced(inv[h.i], pay[h.p].amount)
        /\ inv[h.i].status # "absent" /\ inv[h.i] \in Rows
    BY <1>2, <1>3, <1>4, <2>1, ReceivablesAssumption DEF DeleteStands, Of
  <2>4. h.row.paid = inv[h.i].paid - pay[h.p].amount
    BY <2>2, <2>3, ReducedRow
  <2>5. /\ Cardinality(Paid(pay, h.i)) <= inv[h.i].paid /\ Cardinality(Paid(pay, h.i)) \in Nat
        /\ inv[h.i].paid \in Nat /\ pay[h.p].amount \in Nat
    BY <1>3, <2>1, <2>2, PiecesCounted, ReceivablesAssumption
       DEF SerialInv, AllCounted, Rows, InvoiceRows, Totals, Amounts
  <2> QED
    BY <2>2, <2>3, <2>4, <2>5
<1>12. h.i \in Invoices \cup {NoInvoice}
  BY DEF Hands, Memories
<1>13. Stands(k, inv', pay', outstanding')
  <2>1. DeleteStands(k, inv', pay')
    BY <1>2, <1>4, <1>6, <1>8, <1>11, <1>12 DEF DeleteStands
  <2> QED
    BY <1>2, <1>6, <1>8, <2>1 DEF Stands
<1>14. WritesOwn(h)
  BY <1>2, <1>6, <1>10, UnpaidRow DEF WritesOwn
<1>15. \A q \in Payments : pay'[q] = pay[q] \/ PaymentStands(pay'[q], inv')
  BY <1>10, UnpaidRow DEF PaymentStands
<1>16. \A i \in Invoices : \/ inv'[i] = inv[i] /\ Paid(pay', i) = Paid(pay, i)
                           \/ Cardinality(Paid(pay', i)) <= inv'[i].paid
  <2>1. SUFFICES ASSUME NEW i \in Invoices, i # h.i
                 PROVE  Paid(pay', i) = Paid(pay, i)
    BY <1>6, <1>11
  <2> QED
    BY <1>5, <1>10, <2>1, UnpaidRow, PiecesElsewhere
<1>17. Covered(h.c)'
  <2>1. h.c \in torn \/ outstanding[h.c] >= Owed(h.c, inv)
    BY <1>1, <1>2, CoveredAlone
  <2> QED
    BY <1>6, <2>1 DEF Covered
<1>18. inv' \in [Invoices -> Rows] /\ outstanding' \in [Customers -> Nat]
  BY <1>3, <1>6
<1> QED
  BY <1>1, <1>2, <1>6, <1>7, <1>8, <1>9, <1>13, <1>14, <1>15, <1>16, <1>17, <1>18, WriteKeeps

LEMMA ReduceInvoiceKeeps ==
  ASSUME SerialInv, OneAtATime', NEW r \in Requests, ReduceInvoice(r)
  PROVE  SerialInv'
<1>1. PICK h \in Hands : h = hand[r]
  BY InFlight DEF ReduceInvoice, Phase
<1>2. /\ h # NoRequest /\ h.op = "delete" /\ h.phase = "deleted"
      /\ h.c \in Customers /\ h.row \in Rows
      /\ Stands(h, inv, pay, outstanding) /\ Own(r) = With(h, inv)
  BY <1>1, InFlight DEF ReduceInvoice, Phase
<1>3. /\ inv \in [Invoices -> Rows] /\ pay \in [Payments -> PaymentRows]
      /\ outstanding \in [Customers -> Nat]
  BY DEF SerialInv, RowsTyped
<1>4. DeleteStands(h, inv, pay)
  BY <1>2 DEF Stands
<1> DEFINE k == [h EXCEPT !.phase = "reduced"]
<1>5. /\ inv' = With(h, inv)
      /\ hand' = [hand EXCEPT ![r] = k]
      /\ pay' = pay /\ outstanding' = outstanding /\ torn' = torn
  BY <1>1, <1>2 DEF ReduceInvoice, SerialInv, RowsTyped
<1>6. k \in Hands
  BY DEF Hands, Memories
<1>7. /\ k.op = h.op /\ k.p = h.p /\ k.i = h.i /\ k.c = h.c /\ k.new = h.new /\ k.row = h.row
      /\ k.seen = h.seen /\ k.phase = "reduced"
  BY DEF Hands, Memories
<1> HIDE DEF k
<1>8. inv' \in [Invoices -> Rows]
  BY <1>2, <1>3, <1>5 DEF With
<1>9. /\ \A i \in Invoices : i # h.i => inv'[i] = inv[i]
      /\ h.i \in Invoices => inv'[h.i] = h.row
  BY <1>5 DEF With
<1>10. h.i \in Invoices => Of(h.row, h.c) /\ Cardinality(Paid(pay, h.i)) <= h.row.paid
  <2>1. SUFFICES ASSUME h.i \in Invoices
                 PROVE  Of(h.row, h.c) /\ Cardinality(Paid(pay, h.i)) <= h.row.paid
    OBVIOUS
  <2>2. PICK amount \in Amounts : amount <= inv[h.i].paid /\ h.row = Reduced(inv[h.i], amount)
    BY <1>2, <1>4, <2>1, ReceivablesAssumption DEF DeleteStands
  <2>3. Of(inv[h.i], h.c) /\ inv[h.i] \in Rows /\ Cardinality(Paid(pay, h.i)) <= h.row.paid
    BY <1>2, <1>3, <1>4, <2>1, ReceivablesAssumption DEF DeleteStands
  <2> QED
    BY <2>2, <2>3, ReducedRow DEF Of
<1>11. h.i \in Invoices \cup {NoInvoice}
  BY DEF Hands, Memories
<1>12. Stands(k, inv', pay', outstanding')
  <2>1. DeleteStands(k, inv', pay')
    BY <1>4, <1>7, <1>9, <1>10, <1>11 DEF DeleteStands
  <2> QED
    BY <1>2, <1>5, <1>7, <2>1 DEF Stands
<1>13. WritesOwn(h)
  BY <1>5, <1>9, <1>10 DEF WritesOwn
<1>14. \A i \in Invoices : \/ inv'[i] = inv[i] /\ Paid(pay', i) = Paid(pay, i)
                           \/ Cardinality(Paid(pay', i)) <= inv'[i].paid
  BY <1>5, <1>9, <1>10
<1>15. Covered(h.c)'
  <2>1. hand'[r] = k /\ k # NoRequest
    <3>1. hand'[r] = k
      BY <1>5 DEF SerialInv, RowsTyped
    <3>2. k # NoRequest
      BY <1>6, NoRequestAssumption DEF Hands
    <3> QED
      BY <3>1, <3>2
  <2> QED
    BY <1>2, <1>7, <2>1 DEF Covered, Phase
<1> QED
  BY <1>1, <1>2, <1>3, <1>5, <1>6, <1>7, <1>8, <1>12, <1>13, <1>14, <1>15, WriteKeeps

LEMMA UpdateCustomerKeeps ==
  ASSUME SerialInv, OneAtATime', NEW r \in Requests, UpdateCustomer(r)
  PROVE  SerialInv'
<1>1. PICK h \in Hands : h = hand[r]
  BY InFlight DEF UpdateCustomer, Phase
<1>2. /\ h # NoRequest /\ h.op = "delete" /\ h.phase = "reduced"
      /\ h.c \in Customers /\ h.seen = outstanding[h.c]
  BY <1>1, InFlight DEF UpdateCustomer, Phase, Stands
<1>3. /\ hand' = [hand EXCEPT ![r] = NoRequest]
      /\ inv' = inv /\ pay' = pay /\ torn' = torn \ {h.c}
      /\ outstanding' = [outstanding EXCEPT ![h.c] = IF Owed(h.c, inv) # h.seen THEN Owed(h.c, inv) ELSE @]
  BY <1>1 DEF UpdateCustomer, Done, SaveOutstanding
<1>4. /\ inv \in [Invoices -> Rows] /\ pay \in [Payments -> PaymentRows]
      /\ outstanding \in [Customers -> Nat]
  BY DEF SerialInv, RowsTyped
<1>5. Owed(h.c, inv) \in Nat
  BY PiecesCounted
<1>6. outstanding' \in [Customers -> Nat] /\ outstanding'[h.c] = Owed(h.c, inv)
  BY <1>2, <1>3, <1>4, <1>5
<1>7. WritesOwn(h)
  BY <1>3, <1>4 DEF WritesOwn
<1>8. Covered(h.c)'
  <2>1. outstanding'[h.c] >= Owed(h.c, inv')
    BY <1>3, <1>5, <1>6
  <2> QED
    BY <2>1 DEF Covered, Owed
<1> QED
  BY <1>1, <1>2, <1>3, <1>4, <1>6, <1>7, <1>8, WriteKeeps

LEMMA CommitVoidKeeps ==
  ASSUME SerialInv, OneAtATime', NEW r \in Requests, CommitVoid(r)
  PROVE  SerialInv'
<1>1. PICK h \in Hands : h = hand[r]
  BY InFlight DEF CommitVoid, Phase
<1>2. /\ h # NoRequest /\ h.op = "void" /\ h.phase = "read"
      /\ h.c \in Customers /\ Stands(h, inv, pay, outstanding)
  BY <1>1, InFlight DEF CommitVoid, Phase
<1>3. /\ inv \in [Invoices -> Rows] /\ pay \in [Payments -> PaymentRows]
      /\ outstanding \in [Customers -> Nat]
  BY DEF SerialInv, RowsTyped
<1>4. h.i \in Invoices /\ Of(inv[h.i], h.c) /\ inv[h.i].paid = 0
  BY <1>2 DEF Stands, VoidStands
<1> DEFINE row == [inv[h.i] EXCEPT !.status = "void"]
<1>5. /\ hand' = [hand EXCEPT ![r] = NoRequest]
      /\ inv' = [inv EXCEPT ![h.i] = row]
      /\ pay' = pay /\ outstanding' = outstanding /\ torn' = torn
  BY <1>1 DEF CommitVoid, Done
<1>6. row \in Rows /\ row.status = "void" /\ row.cust = h.c /\ row.paid = 0 /\ ~Counted(row)
  BY <1>3, <1>4, VoidRow DEF Of
<1> HIDE DEF row
<1>7. inv' \in [Invoices -> Rows]
  BY <1>3, <1>5, <1>6
<1>8. \A i \in Invoices : inv'[i] = IF i = h.i THEN row ELSE inv[i]
  BY <1>3, <1>5
<1>9. WritesOwn(h)
  BY <1>4, <1>5, <1>6, <1>8 DEF WritesOwn, Of
<1>10. \A i \in Invoices : \/ inv'[i] = inv[i] /\ Paid(pay', i) = Paid(pay, i)
                           \/ Cardinality(Paid(pay', i)) <= inv'[i].paid
  BY <1>4, <1>5, <1>6, <1>8 DEF SerialInv, AllCounted
<1>11. Covered(h.c)'
  <2>1. h.c \in torn \/ outstanding[h.c] >= Owed(h.c, inv)
    BY <1>1, <1>2, CoveredAlone
  <2>2. Owed(h.c, inv') <= Owed(h.c, inv)
    BY <1>6, <1>8, OwedFalls
  <2>3. Owed(h.c, inv') \in Nat /\ Owed(h.c, inv) \in Nat /\ outstanding[h.c] \in Nat
    BY <1>2, <1>3, PiecesCounted
  <2>4. h.c \in torn' \/ outstanding'[h.c] >= Owed(h.c, inv')
    BY <1>5, <2>1, <2>2, <2>3
  <2> QED
    BY <2>4 DEF Covered, Owed
<1> QED
  BY <1>1, <1>2, <1>3, <1>5, <1>7, <1>9, <1>10, <1>11, WriteKeeps

LEMMA CommitEditKeeps ==
  ASSUME SerialInv, OneAtATime', NEW r \in Requests, CommitEdit(r)
  PROVE  SerialInv'
<1>1. PICK h \in Hands : h = hand[r]
  BY InFlight DEF CommitEdit, Phase
<1>2. /\ h # NoRequest /\ h.phase = "read"
      /\ h.c \in Customers /\ h.seen = outstanding[h.c]
  BY <1>1, InFlight DEF CommitEdit, Phase, Stands
<1>3. /\ inv \in [Invoices -> Rows] /\ pay \in [Payments -> PaymentRows]
      /\ outstanding \in [Customers -> Nat]
  BY DEF SerialInv, RowsTyped
<1>4. /\ hand' = [hand EXCEPT ![r] = NoRequest]
      /\ inv' = inv /\ pay' = pay /\ torn' = torn /\ outstanding' = outstanding
  BY <1>1, <1>2, <1>3 DEF CommitEdit, Done
<1>5. WritesOwn(h)
  BY <1>4 DEF WritesOwn
<1>6. Covered(h.c)'
  <2>1. h.c \in torn \/ outstanding[h.c] >= Owed(h.c, inv)
    BY <1>1, <1>2, CoveredAlone
  <2> QED
    BY <1>4, <2>1 DEF Covered
<1> QED
  BY <1>1, <1>2, <1>3, <1>4, <1>5, <1>6, WriteKeeps

\* A deletion cut off after its second commit leaves its customer torn.
LEMMA CutKeeps ==
  ASSUME SerialInv, OneAtATime', NEW r \in Requests, Cut(r)
  PROVE  SerialInv'
<1>1. PICK h \in Hands : h = hand[r]
  BY InFlight DEF Cut
<1>2. h # NoRequest /\ h.c \in Customers
  BY <1>1, InFlight DEF Cut
<1>3. /\ inv \in [Invoices -> Rows] /\ pay \in [Payments -> PaymentRows]
      /\ outstanding \in [Customers -> Nat]
  BY DEF SerialInv, RowsTyped
<1>4. /\ hand' = [hand EXCEPT ![r] = NoRequest]
      /\ inv' = inv /\ pay' = pay /\ outstanding' = outstanding
      /\ torn' = IF h.op = "delete" /\ h.phase = "reduced" THEN torn \cup {h.c} ELSE torn
  BY <1>1, <1>2 DEF Cut, Done, Phase
<1>5. WritesOwn(h)
  BY <1>4 DEF WritesOwn
<1>6. Covered(h.c)'
  <2>1. CASE h.op = "delete" /\ h.phase = "reduced"
    BY <1>4, <2>1 DEF Covered
  <2>2. CASE ~(h.op = "delete" /\ h.phase = "reduced")
    <3>1. h.phase # "reduced"
      BY <1>1, <1>2, <2>2, InFlight
         DEF Stands, PayStands, SaleStands, VoidStands, Hands, Memories
    <3>2. h.c \in torn \/ outstanding[h.c] >= Owed(h.c, inv)
      BY <1>1, <1>2, <3>1, CoveredAlone
    <3> QED
      BY <1>4, <3>2 DEF Covered
  <2> QED
    BY <2>1, <2>2
<1> QED
  BY <1>1, <1>2, <1>3, <1>4, <1>5, <1>6, WriteKeeps

\* An invoice that is no receivable appears under an id nobody holds.
LEMMA IssueOtherKeeps ==
  ASSUME SerialInv, OneAtATime', NEW j \in Invoices, NEW d \in Customers, NEW total \in Totals,
         IssueOther(j, d, total)
  PROVE  SerialInv'
<1>1. /\ inv \in [Invoices -> Rows] /\ pay \in [Payments -> PaymentRows]
      /\ outstanding \in [Customers -> Nat]
  BY DEF SerialInv, RowsTyped
<1>2. /\ FreshInvoice(j)
      /\ pay' = pay /\ outstanding' = outstanding /\ hand' = hand /\ torn' = torn
  BY DEF IssueOther
<1>3. PICK n \in Rows : inv' = [inv EXCEPT ![j] = n] /\ ~Counted(n) /\ n.paid = 0
  <2>1. PICK n \in {Issued("purchase_order", "issued", d, total), Issued("note", "draft", d, total)} :
          inv' = [inv EXCEPT ![j] = n]
    BY DEF IssueOther
  <2>2. n \in Rows /\ n.paid = 0
    BY <2>1, NewRow
  <2>3. ~Counted(n)
    BY <2>1 DEF Counted, Issued
  <2> QED
    BY <2>1, <2>2, <2>3
<1>4. /\ inv' \in [Invoices -> Rows]
      /\ \A i \in Invoices : inv'[i] = IF i = j THEN n ELSE inv[i]
  BY <1>1, <1>3
<1>5. inv[j].status = "absent" /\ ~Counted(inv[j]) /\ inv[j].paid = 0
  BY <1>1, <1>2, ReceivablesAssumption
     DEF FreshInvoice, Counted, Rows, InvoiceRows, RowTells, Totals
<1>6. RowsTyped'
  BY <1>2, <1>4 DEF SerialInv, RowsTyped
<1>7. \A i \in Invoices : inv'[i] = inv[i] \/ (~Counted(inv'[i]) /\ ~Counted(inv[i]))
  BY <1>3, <1>4, <1>5
<1>8. HandsStand'
  <2>1. SUFFICES ASSUME NEW r \in Requests, hand[r] # NoRequest
                 PROVE  Stands(hand[r], inv', pay, outstanding)
    BY <1>2 DEF HandsStand
  <2>2. /\ hand[r] \in Hands /\ Stands(hand[r], inv, pay, outstanding)
        /\ hand[r].i # j
    BY <1>2, <2>1, InFlight DEF FreshInvoice
  <2>3. PICK g \in Hands : g = hand[r]
    BY <2>2
  <2>4. Stands(g, inv', pay, outstanding)
    BY <1>4, <1>7, <2>2, <2>3, StandsOnOwnRows
  <2> QED
    BY <2>3, <2>4
<1>9. HandsApart'
  BY <1>2 DEF SerialInv, HandsApart
<1>10. PaymentsStand'
  <2>1. \A i \in Invoices, c \in Customers : Of(inv[i], c) => Of(inv'[i], c)
    BY <1>4, <1>5 DEF Of
  <2> QED
    BY <1>1, <1>2, <2>1, StepPayments DEF SerialInv
<1>11. AllCounted'
  BY <1>2, <1>3, <1>4, <1>5 DEF SerialInv, AllCounted
<1>12. OutstandingCovers'
  <2>1. \A c \in Customers : Owed(c, inv') = Owed(c, inv)
    BY <1>7, OwedAgrees
  <2>2. \A r \in Requests : Phase(r, {"delete"}, "reduced") <=> Phase(r, {"delete"}, "reduced")'
    BY <1>2 DEF Phase
  <2>3. SUFFICES ASSUME NEW c \in Customers
                 PROVE  \/ c \in torn'
                        \/ \E r \in Requests : Phase(r, {"delete"}, "reduced")' /\ hand'[r].c = c
                        \/ outstanding'[c] >= Owed(c, inv')
    BY DEF OutstandingCovers
  <2> QED
    BY <1>2, <2>1, <2>2 DEF SerialInv, OutstandingCovers
<1> QED
  BY <1>6, <1>8, <1>9, <1>10, <1>11, <1>12 DEF SerialInv

LEMMA SerialNext == SerialInv /\ [Next /\ OneAtATime']_vars => SerialInv'
<1> SUFFICES ASSUME SerialInv, [Next /\ OneAtATime']_vars
             PROVE  SerialInv'
  OBVIOUS
<1>1. CASE UNCHANGED vars
  BY <1>1 DEF vars, SerialInv, RowsTyped, HandsStand, HandsApart, OneAtATime, PaymentsStand,
              AllCounted, OutstandingCovers, Phase
<1>2. ASSUME NEW r \in Requests, Read(r), OneAtATime'
      PROVE  SerialInv'
  BY <1>2, LoadPaymentKeeps, LoadSaleKeeps, LoadDeleteKeeps, LoadVoidKeeps, LoadEditKeeps DEF Read
<1>3. ASSUME NEW r \in Requests, Write(r), OneAtATime'
      PROVE  SerialInv'
  BY <1>3, SumUpKeeps, CommitKeeps, DeletePaymentKeeps, ReduceInvoiceKeeps, UpdateCustomerKeeps,
     CommitVoidKeeps, CommitEditKeeps, CutKeeps DEF Write
<1>4. ASSUME NEW i \in Invoices, NEW c \in Customers, NEW total \in Totals,
             IssueOther(i, c, total), OneAtATime'
      PROVE  SerialInv'
  BY <1>4, IssueOtherKeeps
<1> QED
  BY <1>1, <1>2, <1>3, <1>4 DEF Next

-----------------------------------------------------------------------------
\* The theorems

\* What each request has read still stands when it writes, one request of a
\* customer at a time.
THEOREM SerialInvCorrect == SerialSpec => []SerialInv
<1> QED
  BY SerialInit, SerialNext, PTL DEF SerialSpec

\* One request of a customer at a time, no recorded payment is lost from its
\* invoice: amount_paid shows at least the payments there are, between and
\* after the three commits of a deletion too, cut off or not.
THEOREM PaymentsCountedCorrect == SerialSpec => []PaymentsCounted
<1>1. SerialInv => PaymentsCounted
  BY DEF SerialInv, AllCounted, PaymentsCounted, PaidPieces, Paid
<1> QED
  BY SerialInvCorrect, <1>1, PTL

\* One request of a customer at a time, an invoice's status tells what is paid.
THEOREM StatusTellsCorrect == SerialSpec => []StatusTells
<1>1. SerialInv => StatusTells
  BY DEF SerialInv, RowsTyped, Rows, RowTells, StatusTells
<1> QED
  BY SerialInvCorrect, <1>1, PTL

\* One request of a customer at a time, the amount the credit check reads covers
\* what the customer owes, but for a deletion between its last two commits or
\* cut off there.
THEOREM OutstandingCoversCorrect == SerialSpec => []OutstandingCovers
<1>1. SerialInv => OutstandingCovers
  BY DEF SerialInv
<1> QED
  BY SerialInvCorrect, <1>1, PTL

===============================================================================
