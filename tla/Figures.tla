-------------------------------- MODULE Figures --------------------------------
(***************************************************************************)
(* The figures that the dashboards, the customer and agent pages and the   *)
(* reports show.  Each page computes its own from the same orders and      *)
(* invoices, with queries written apart from each other (apps/accounts,    *)
(* apps/agents, apps/customers, apps/reports): here every page is an       *)
(* operator over the rows, and the rows change as the handlers change them.*)
(*                                                                         *)
(* A request counts as one step; what handlers do to each other's rows is  *)
(* the matter of DraftFlow, Fulfilment and Receivables.  Amounts are       *)
(* integers, percentages and averages are left out.                        *)
(***************************************************************************)
EXTENDS OrderTotals, Sums, FiniteSetsExt

CONSTANTS
  Agents, Customers,
  HomeOf,       \* the company of each customer
  CreditLimit,  \* credit_limit of each customer and each agent; 0: none
  Terms,        \* payment_terms_days of each customer; 0: invoices are never due
  Members,      \* Members[k]: the agents with an active membership in company k
  Orders, Notes,
  TotalOf,      \* total_amount of each order and each note
  TaxOf,        \* the GST in the total of each order
  Away,         \* the customers in another state than their company
  Days,         \* bound: the days that are looked at
  Written,      \* bound: the statuses that update_status is asked for
  DueDates,     \* the due dates that notes may have
  MaxEvents,    \* bound: orders, notes, and invoices paid or void
  MonthStart(_),  \* the first day of a day's month
  NoAgent, NoRow, NoDate

ASSUME SetsAssumption ==
  /\ IsFiniteSet(Agents) /\ IsFiniteSet(Customers)
  /\ IsFiniteSet(Orders) /\ IsFiniteSet(Notes)
  /\ Orders \cap Notes = {} /\ Agents \cap Customers = {}
ASSUME DaysAssumption ==
  /\ Days \subseteq Nat \ {0} /\ Days # {} /\ IsFiniteSet(Days)
  /\ \A d \in Days : MonthStart(d) \in 1..d
ASSUME DueAssumption ==
  /\ DueDates \subseteq Nat \cup {NoDate} /\ IsFiniteSet(DueDates)
  /\ \A c \in Customers : Terms[c] \in Nat
ASSUME TotalsAssumption == \A x \in Orders \cup Notes : TotalOf[x] \in Nat \ {0}
ASSUME TaxAssumption == \A o \in Orders : TaxOf[o] \in 0..TotalOf[o]

Companies == {HomeOf[c] : c \in Customers}

ASSUME MembersAssumption == \A k \in Companies : Members[k] \subseteq Agents

OrderStatus ==
  {"draft", "submitted", "confirmed", "processing", "packed", "dispatched", "delivered",
   "cancelled"}

ASSUME WrittenAssumption == Written \subseteq OrderStatus

\* Invoices: the two that go with an order, and notes made by hand.
Bills == (Orders \X {"purchase_order", "sales_invoice"}) \cup (Notes \X {"debit_note"})

OrderRow ==
  [customer : Customers, agent : Agents \cup {NoAgent}, status : OrderStatus,
   created : Days, submitted : Days \cup {NoDate}]
BillRow ==
  [customer : Customers, status : {"draft", "issued", "partial", "paid", "void"},
   paid : Nat, due : Nat \cup {NoDate}]

ASSUME NullsAssumption ==
  NoAgent \notin Agents \cup Customers /\ NoDate \notin Nat /\ NoRow \notin OrderRow \cup BillRow

VARIABLES
  order,   \* order[o]: [customer, agent, status, created, submitted], submitted a day
           \* or NoDate
  bill,    \* bill[b]: [customer, status, paid, due], due a day or NoDate
  metric,  \* metric[a]: the columns total_sales and total_orders of the profile
  credit,  \* credit[c]: the columns credit_utilized and total_outstanding
  moved,   \* agents with an order cancelled or revived, customers with an invoice
           \* voided, since their columns were computed (history)
  today

vars == <<order, bill, metric, credit, moved, today>>

Init ==
  /\ order = [o \in Orders |-> NoRow]
  /\ bill = [b \in Bills |-> NoRow]
  /\ metric = [a \in Agents |-> [sales |-> 0, orders |-> 0]]
  /\ credit = [c \in Customers |-> 0]
  /\ moved = {}
  /\ today \in Days

-----------------------------------------------------------------------------
\* Rows and sums

Sum(S, value(_)) == SumOf([x \in S |-> value(x)])

Placed(o)   == order[o] # NoRow
Total(o)    == TotalOf[o]
Sales(S)    == Sum(S, Total)
AmountDue(b) == TotalOf[b[1]] - bill[b].paid
Owed(S)     == Sum(S, AmountDue)

OrdersOf(k)  == {o \in Orders : Placed(o) /\ HomeOf[order[o].customer] = k}
With(S, statuses) == {o \in S : order[o].status \in statuses}
By(S, a)     == {o \in S : order[o].agent = a}
From(S, c)   == {o \in S : order[o].customer = c}
Submitted(S) == {o \in S : order[o].submitted # NoDate}
Since(S, d)  == {o \in Submitted(S) : order[o].submitted >= d}
Until(S, d)  == {o \in Submitted(S) : order[o].submitted <= d}

\* Not CANCELLED and not DRAFT.
Live(S) == With(S, OrderStatus \ {"cancelled", "draft"})

\* UNPAID_STATUSES without purchase orders.
Unpaid(k) ==
  {b \in Bills : /\ bill[b] # NoRow /\ HomeOf[bill[b].customer] = k
                 /\ bill[b].status \in {"issued", "partial"} /\ b[2] # "purchase_order"}

Due(S, from, to) == {b \in S : bill[b].due # NoDate /\ bill[b].due \in from..to}
Billed(S, c)     == {b \in S : bill[b].customer = c}

\* Any day before d; no invoice was due before the company existed.
Before(S, d) == Due(S, 0, d - 1)
Ever == Max(Days \cup (DueDates \ {NoDate})) + Max({Terms[c] : c \in Customers})

\* Faulty variant: the smallest sum comes first.
PlacesAscending(S, a) ==
  LET ranked == {order[o].agent : o \in S} \ {NoAgent}
      sum(x) == Sales(By(S, x))
  IN IF a \in ranked
     THEN (Cardinality({x \in ranked : sum(x) < sum(a)}) + 1)
            ..Cardinality({x \in ranked : sum(x) <= sum(a)})
     ELSE {}

\* The places that agent a may get when rows with a sum per agent are ordered
\* by "-sum": rows of the same sum come in any order, who has no row gets none.
Places(S, a) ==
  LET ranked == {order[o].agent : o \in S} \ {NoAgent}
      sum(x) == Sales(By(S, x))
      better == {x \in ranked : sum(x) > sum(a)}
      even   == {x \in ranked : sum(x) >= sum(a)}
  IN IF a \in ranked THEN (Cardinality(better) + 1)..Cardinality(even) ELSE {}

-----------------------------------------------------------------------------
\* Company pages

\* AdminDashboardViewSet.list
Dashboard(k) ==
  LET base == Live(OrdersOf(k))
      invoices == Unpaid(k)
  IN [sales_total       |-> Sales(base),
      orders_pending    |->
        Cardinality(With(base, {"submitted", "confirmed", "processing", "packed"})),
      outstanding_total |-> Owed(invoices),
      overdue_total     |-> Owed(Before(invoices, today)),
      days_0_30         |-> Owed(Due(invoices, today - 30, today)),
      days_31_60        |-> Owed(Due(invoices, today - 60, today - 31)),
      days_60_plus      |-> Owed(Before(invoices, today - 60))]

\* BusinessStatsViewSet.list
BusinessStats(k) ==
  LET overdue == Before(Unpaid(k), today)
  IN [overdue_customers |-> Cardinality({bill[b].customer : b \in overdue}),
      overdue_invoices  |-> Cardinality(overdue),
      overdue_total     |-> Owed(overdue),
      outstanding_total |-> Owed(Unpaid(k)),
      total_agents      |-> Cardinality(Members[k])]

\* Faulty variant: the last day of a bucket counts in the next one.
AnalyticsShifted(k) ==
  LET invoices == Unpaid(k)
      orders == Submitted(OrdersOf(k))
  IN [current      |-> Owed(Due(invoices, today - 29, Ever)
                             \cup {b \in invoices : bill[b].due = NoDate}),
      days_31_60   |-> Owed(Due(invoices, today - 60, today - 30)),
      days_61_90   |-> Owed(Due(invoices, today - 90, today - 61)),
      days_90_plus |-> Owed(Before(invoices, today - 90)),
      agents       |-> [a \in Agents |-> Sales(By(Since(orders, MonthStart(today)), a))]]

\* AdminAnalyticsViewSet.list: aging and the comparison of agents.
Analytics(k) ==
  LET invoices == Unpaid(k)
      orders == Submitted(OrdersOf(k))
  IN [current      |-> Owed(Due(invoices, today - 30, Ever)
                             \cup {b \in invoices : bill[b].due = NoDate}),
      days_31_60   |-> Owed(Due(invoices, today - 60, today - 31)),
      days_61_90   |-> Owed(Due(invoices, today - 90, today - 61)),
      days_90_plus |-> Owed(Before(invoices, today - 90)),
      agents       |-> [a \in Agents |-> Sales(By(Since(orders, MonthStart(today)), a))]]

\* AdminDashboardViewSet.top_agents: the first two of those who had orders
\* submitted today, whatever became of the orders.
TopAgents(k) ==
  LET day == {o \in Submitted(OrdersOf(k)) : order[o].submitted = today}
  IN {[agent |-> a, orders |-> Cardinality(By(day, a)), payment |-> Sales(By(day, a))] :
        a \in {x \in Agents : Places(day, x) \cap 1..2 # {}}}

\* OrderViewSet.list, by default without drafts, and kanban.
OrderList(k) == With(OrdersOf(k), OrderStatus \ {"draft"})
Kanban(k) ==
  [s \in {"submitted", "confirmed", "processing", "packed"} |-> With(OrdersOf(k), {s})]

\* InvoiceViewSet.list with overdue: what is partly paid is not asked for.
OverdueList(k) ==
  Before({b \in Unpaid(k) : bill[b].status = "issued"}, today)

-----------------------------------------------------------------------------
\* Customer pages

\* CustomerViewSet.list and overview
ComputedOutstanding(c) == Owed(Billed(Unpaid(HomeOf[c]), c))
OverviewOutstanding(k) == Owed(Unpaid(k))

\* _aging_buckets: what has no due date or is not due yet is in no bucket.
AgingBuckets(c) ==
  LET mine == {b \in Billed(Unpaid(HomeOf[c]), c) : bill[b].due # NoDate}
      days(b) == today - bill[b].due
      b0  == {b \in mine : days(b) \in 0..30}
      b31 == {b \in mine : days(b) \in 31..60}
      b61 == {b \in mine : days(b) > 60}
  IN [days_0_30 |-> Owed(b0), days_31_60 |-> Owed(b31), days_60_plus |-> Owed(b61),
      total_outstanding |-> Owed(b0 \cup b31 \cup b61)]

\* customer_summary, whose figures are those of _aging_buckets.
CustomerSummary(c) == [outstanding |-> AgingBuckets(c)]

\* Faulty variant: cancelled orders are counted as open.
CustomerOrdersAll(c) ==
  LET counted == From(With(OrdersOf(HomeOf[c]), OrderStatus \ {"draft"}), c)
  IN [lifetime_value |-> Sales(counted),
      pending_orders |-> Cardinality(counted \ With(counted, {"delivered"}))]

\* customer_orders
CustomerOrders(c) ==
  LET counted == From(Live(OrdersOf(HomeOf[c])), c)
  IN [lifetime_value |-> Sales(counted),
      pending_orders |-> Cardinality(counted \ With(counted, {"delivered"}))]

\* customer_payments: what is outstanding, and the days that the invoice which
\* is due first is overdue (-1 when no invoice has a due date).
CustomerPayments(c) ==
  LET mine == Billed(Unpaid(HomeOf[c]), c)
      dates == {bill[b].due : b \in mine} \ {NoDate}
  IN [outstanding  |-> Owed(mine),
      days_overdue |-> IF dates = {} THEN -1
                       ELSE IF Min(dates) < today THEN today - Min(dates) ELSE 0]

\* customer_outstanding
CriticalInvoices(c) == Before(Billed(Unpaid(HomeOf[c]), c), today)

-----------------------------------------------------------------------------
\* Agent pages

\* AgentViewSet.profile
ProfileSales(a)   == Sales(By(Live({x \in Orders : Placed(x)}), a))
ProfileOrders(a)  == Cardinality(By(Live({x \in Orders : Placed(x)}), a))
ProfileRank(a, k) == Places(Live(OrdersOf(k)), a)

\* compute_agent_credit_utilized: through the order of the invoice.
AgentCredit(a, k) ==
  Owed({b \in Unpaid(k) : b[1] \in Orders /\ Placed(b[1]) /\ order[b[1]].agent = a})

\* agent_overview: what the agent's orders still owe, and the invoices on them
\* that are not settled; nothing is in Tally.
AgentOverview(a, k) ==
  [credit_utilized  |-> AgentCredit(a, k),
   pending_invoices |->
     Cardinality({b \in Bills :
       /\ bill[b] # NoRow /\ b[1] \in Orders /\ bill[b].status \notin {"paid", "void"}
       /\ b[1] \in By(OrdersOf(k), a)})]

\* AgentHomeViewSet._summary_data: orders created today.
HomeSummary(a, k) ==
  LET counted == {o \in By(Live(OrdersOf(k)), a) : order[o].created = today}
  IN [orders_today |-> Cardinality(counted), sales_today |-> Sales(counted)]

\* my_companies, for each company
OrderCount(a, k) == Cardinality(By(Since(OrdersOf(k), MonthStart(today)), a))

\* _compute_performance
Performance(a, k) ==
  LET month == Since(OrdersOf(k), MonthStart(today))
  IN [orders |-> Cardinality(By(month, a)), sales |-> Sales(By(month, a)),
      ranks  |-> Places(month, a)]

\* leaderboard: agents who are not active are skipped after the ranks are given.
Leaderboard(k) ==
  LET month == Since(OrdersOf(k), MonthStart(today))
  IN {[agent |-> a, ranks |-> Places(month, a), sales |-> Sales(By(month, a)),
       orders |-> Cardinality(By(month, a))] :
        a \in {x \in Members[k] : By(month, x) # {}}}

-----------------------------------------------------------------------------
\* Reports

SalesStatuses == {"confirmed", "processing", "packed", "dispatched", "delivered"}

\* SalesReportViewSet._orders; a bound is a day or NoDate, and with a bound an
\* order that was never submitted is not selected.
SalesReport(k, from, to) ==
  LET qs  == With(OrdersOf(k), SalesStatuses)
      low == IF from = NoDate THEN qs ELSE Since(qs, from)
  IN IF to = NoDate THEN low ELSE Until(low, to)

\* OrderReportViewSet.summary, without drafts.
OrderSummary(k) ==
  LET qs == With(OrdersOf(k), OrderStatus \ {"draft"})
  IN [total_orders |-> Cardinality(qs), total_order_value |-> Sales(qs),
      status_breakdown |-> [s \in OrderStatus |-> Cardinality(With(qs, {s}))]]

\* CustomerReportViewSet.list: the subquery of a row is not limited to the
\* row's customer, so each row shows the first group there is.
CustomerRow(k, c) ==
  LET orders == With(OrdersOf(k), SalesStatuses)
      groups == {order[o].customer : o \in orders}
  IN {[sales |-> Sales(From(orders, g)), orders |-> Cardinality(From(orders, g))] :
        g \in groups}
     \cup (IF groups = {} THEN {[sales |-> 0, orders |-> 0]} ELSE {})

\* AgentReportViewSet.list and summary
AgentRow(k, a, from, to) == Sales(By(SalesReport(k, from, to), a))
AgentSummary(k, from, to) ==
  [total_sales |-> Sales(SalesReport(k, from, to)),
   top_agent   |-> {a \in Agents : 1 \in Places(SalesReport(k, from, to), a)}]

\* GSTReportViewSet.  Purchase orders are in it; a note has no tax of its own.
GSTInvoices(k) ==
  {b \in Bills : /\ bill[b] # NoRow /\ HomeOf[bill[b].customer] = k
                 /\ bill[b].status \notin {"draft", "void"}}

GSTRow(b) ==
  LET tax == IF b[1] \in Orders THEN TaxOf[b[1]] ELSE 0
  IN [taxable |-> TotalOf[b[1]] - tax, total |-> TotalOf[b[1]],
      tax |-> TaxShown(Split(tax, bill[b].customer \in Away)),
      is_interstate |-> b[1] \in Orders /\ bill[b].customer \in Away]

GSTSummary(k) ==
  LET S == GSTInvoices(k)
      taxable(b) == GSTRow(b).taxable
      tax(b) == GSTRow(b).tax
      total(b) == GSTRow(b).total
  IN [total_invoices   |-> Cardinality(S), total_amount |-> Sum(S, total),
      total_taxable    |-> Sum(S, taxable), total_tax |-> Sum(S, tax),
      interstate_total |-> Sum({b \in S : GSTRow(b).is_interstate}, taxable),
      intrastate_total |-> Sum({b \in S : ~GSTRow(b).is_interstate}, taxable)]

-----------------------------------------------------------------------------
\* What changes the rows

Events ==
  Cardinality({o \in Orders : Placed(o)})
    + Cardinality({b \in Bills : bill[b] # NoRow
                     /\ (b[1] \in Notes \/ bill[b].status \in {"partial", "paid", "void"})})

DueDate(c) == IF Terms[c] = 0 THEN NoDate ELSE today + Terms[c]

Bill(b, c, status, due) ==
  IF bill[b] # NoRow THEN bill[b]
  ELSE [customer |-> c, status |-> status, paid |-> 0, due |-> due]

OpenDraft(o, c, a) ==
  /\ ~Placed(o) /\ Events < MaxEvents
  /\ order' = [order EXCEPT ![o] = [customer |-> c, agent |-> a, status |-> "draft",
                                    created |-> today, submitted |-> NoDate]]
  /\ UNCHANGED <<bill, metric, credit, moved, today>>

\* _check_credit, in a company that blocks: what the customer's column says is
\* owed, or what the agent's customers owe, and the order stay within the limit.
\* An order that is placed and not invoiced yet does not count.
CreditAllows(o) ==
  LET c == order[o].customer
      a == order[o].agent
      Within(limit, owed) == limit = 0 \/ owed + Total(o) <= limit
  IN /\ Within(CreditLimit[c], credit[c])
     /\ a # NoAgent => Within(CreditLimit[a], AgentCredit(a, HomeOf[c]))

\* Faulty variant: the columns of the agent are left as they are.
SubmitOnly(o, status) ==
  LET c == order[o].customer
      p == <<o, "purchase_order">>
  IN /\ Placed(o) /\ order[o].status = "draft" /\ CreditAllows(o)
     /\ order' = [order EXCEPT ![o].status = status, ![o].submitted = today]
     /\ bill' = [bill EXCEPT ![p] = Bill(p, c, "issued", NoDate)]
     /\ moved' = moved \ {order[o].agent}
     /\ UNCHANGED <<metric, credit, today>>

\* submit_order: the purchase order, and recompute_agent_metrics (whose third
\* column, the rank, is left out).
Submit(o, status) ==
  LET c == order[o].customer
      a == order[o].agent
      p == <<o, "purchase_order">>
  IN /\ Placed(o) /\ order[o].status = "draft" /\ CreditAllows(o)
     /\ order' = [order EXCEPT ![o].status = status, ![o].submitted = today]
     /\ bill' = [bill EXCEPT ![p] = Bill(p, c, "issued", NoDate)]
     /\ metric' = [x \in Agents |->
                     IF x = a THEN [sales |-> ProfileSales(a)', orders |-> ProfileOrders(a)']
                     ELSE metric[x]]
     /\ moved' = moved \ {a}
     /\ UNCHANGED <<credit, today>>

Counts(status) == status \notin {"cancelled", "draft"}

\* update_customer_outstanding: the columns from the invoices as they are now.
Recompute(c) == credit' = [credit EXCEPT ![c] = ComputedOutstanding(c)']

\* update_status writes any status; the narrower handlers of the back office
\* write some of them.  A dispatched order has a sales invoice, a new one counts.
SetStatus(o, status) ==
  LET c == order[o].customer
      b == <<o, "sales_invoice">>
  IN /\ Placed(o) /\ order[o].status # status
     /\ order' = [order EXCEPT ![o].status = status]
     /\ bill' = IF status = "dispatched"
                THEN [bill EXCEPT ![b] = Bill(b, c, "issued", DueDate(c))] ELSE bill
     /\ LET new == status = "dispatched" /\ bill[b] = NoRow
            known == IF new THEN moved \ {c} ELSE moved
        IN /\ IF new THEN Recompute(c) ELSE UNCHANGED credit
           /\ moved' = IF Counts(status) # Counts(order[o].status)
                       THEN known \cup ({order[o].agent} \ {NoAgent}) ELSE known
     /\ UNCHANGED <<metric, today>>

\* InvoiceViewSet.create: a note is a draft, with a due date of its own.
Note(n, c, due) ==
  LET b == <<n, "debit_note">>
  IN /\ bill[b] = NoRow /\ Events < MaxEvents
     /\ bill' = [bill EXCEPT ![b] = Bill(b, c, "draft", due)]
     /\ UNCHANGED <<order, metric, credit, moved, today>>

PaidStatus(b, paid) ==
  IF paid >= TotalOf[b[1]] THEN "paid" ELSE IF paid > 0 THEN "partial" ELSE "issued"

\* Payments come in units of one, are recorded and deleted.
Pay(b) ==
  /\ bill[b] # NoRow /\ AmountDue(b) > 0
  /\ bill[b].paid = 0 => Events < MaxEvents
  /\ bill' = [bill EXCEPT ![b].paid = @ + 1, ![b].status = PaidStatus(b, bill[b].paid + 1)]
  /\ Recompute(bill[b].customer)
  /\ moved' = moved \ {bill[b].customer}
  /\ UNCHANGED <<order, metric, today>>

DeletePayment(b) ==
  /\ bill[b] # NoRow /\ bill[b].paid > 0
  /\ bill' = [bill EXCEPT ![b].paid = @ - 1, ![b].status = PaidStatus(b, bill[b].paid - 1)]
  /\ Recompute(bill[b].customer)
  /\ moved' = moved \ {bill[b].customer}
  /\ UNCHANGED <<order, metric, today>>

\* The customer's columns are left as they are.
Void(b) ==
  /\ bill[b] # NoRow /\ bill[b].status # "void" /\ bill[b].paid = 0 /\ Events < MaxEvents
  /\ bill' = [bill EXCEPT ![b].status = "void"]
  /\ LET c == bill[b].customer
     IN moved' = IF b \in Unpaid(HomeOf[c]) THEN moved \cup {c} ELSE moved
  /\ UNCHANGED <<order, metric, credit, today>>

Midnight ==
  LET later == {d \in Days : d > today}
  IN /\ later # {}
     /\ today' = Min(later)
     /\ UNCHANGED <<order, bill, metric, credit, moved>>

Next ==
  \/ \E o \in Orders, c \in Customers, a \in Agents \cup {NoAgent} : OpenDraft(o, c, a)
  \/ \E o \in Orders, s \in {"submitted", "confirmed"} : Submit(o, s)
  \/ \E o \in Orders, s \in Written : SetStatus(o, s)
  \/ \E n \in Notes, c \in Customers, d \in DueDates : Note(n, c, d)
  \/ \E b \in Bills : Pay(b) \/ DeletePayment(b) \/ Void(b)
  \/ Midnight

Spec == Init /\ [][Next]_vars

-----------------------------------------------------------------------------
\* Properties

OfCustomers(k, value(_)) == Sum({c \in Customers : HomeOf[c] = k}, value)
OfAgents(value(_)) == Sum(Agents \cup {NoAgent}, value)

\* What a company is owed is the same on its dashboard, its business page, its
\* analytics, in its list of customers and on the pages of these customers, and
\* so is each age of it.  The pages of the customers leave out of their total,
\* but not of their sum of outstanding invoices, what is not due yet.  The list
\* of overdue invoices leaves out only what is partly paid; the tax register has
\* every invoice that is owed, and its taxes differ from what the totals contain
\* by at most a paisa an invoice.
DebtsAgree ==
  \A k \in Companies :
    LET d == Dashboard(k)
        an == Analytics(k)
        bucket(f) == OfCustomers(k, LAMBDA c : CustomerSummary(c).outstanding[f])
        outstanding(c) == CustomerPayments(c).outstanding
        critical(c) == Owed(CriticalInvoices(c))
        notDue == Owed(Unpaid(k) \ Due(Unpaid(k), 0, today))
        gst == GSTSummary(k)
    IN /\ d.outstanding_total = BusinessStats(k).outstanding_total
       /\ d.outstanding_total = OverviewOutstanding(k)
       /\ d.outstanding_total = OfCustomers(k, ComputedOutstanding)
       /\ d.outstanding_total = OfCustomers(k, outstanding)
       /\ d.outstanding_total = an.current + an.days_31_60 + an.days_61_90 + an.days_90_plus
       /\ d.outstanding_total = bucket("total_outstanding") + notDue
       /\ d.overdue_total = BusinessStats(k).overdue_total
       /\ d.overdue_total = OfCustomers(k, critical)
       /\ \A f \in {"days_0_30", "days_31_60", "days_60_plus"} : d[f] = bucket(f)
       /\ d.days_31_60 = an.days_31_60
       /\ d.days_60_plus = an.days_61_90 + an.days_90_plus
       /\ BusinessStats(k).overdue_customers =
            Cardinality({c \in Customers : HomeOf[c] = k /\ CustomerPayments(c).days_overdue > 0})
       /\ Sum(Agents, LAMBDA a : AgentCredit(a, k)) <= d.outstanding_total
       /\ \A a \in Agents :
            AgentOverview(a, k).credit_utilized > 0 => AgentOverview(a, k).pending_invoices > 0
       /\ OverdueList(k) \subseteq Before(Unpaid(k), today)
       /\ \A b \in Before(Unpaid(k), today) \ OverdueList(k) : bill[b].paid > 0
       /\ Unpaid(k) \subseteq GSTInvoices(k)
       /\ gst.interstate_total + gst.intrastate_total = gst.total_taxable
       /\ gst.total_taxable + gst.total_tax - gst.total_amount
            \in -gst.total_invoices..gst.total_invoices

\* Orders submitted today that the agent's home page does not count today: drafts
\* of an earlier day, and what is cancelled or a draft again.
CarriedOver(k, a) ==
  {o \in By(Submitted(OrdersOf(k)), a) :
     /\ order[o].submitted = today
     /\ order[o].created # today \/ order[o].status \in {"draft", "cancelled"}}

\* The sales of a company are the same on its dashboard, over the pages of its
\* customers and over the ranking of its agents; the sales report, which leaves
\* out what is only submitted, adds up over agents, and over days except for
\* orders that got their status without ever being submitted; an agent sees at
\* home what the company sees of the day, but for orders carried over.
SalesAgree ==
  \A k \in Companies :
    LET d == Dashboard(k)
        summary == OrderSummary(k)
        kanban == Kanban(k)
        report == SalesReport(k, NoDate, NoDate)
        lifetime(c) == CustomerOrders(c).lifetime_value
        pending(c) == CustomerOrders(c).pending_orders
        ofDay(day) == Sales(SalesReport(k, day, day))
        row(a) == AgentRow(k, a, NoDate, NoDate)
        live(a) == Sales(By(Live(OrdersOf(k)), a))
    IN /\ d.sales_total = OfCustomers(k, lifetime)
       /\ d.sales_total = OfAgents(live)
       /\ d.sales_total = Sales(report) + Sales(With(OrdersOf(k), {"submitted"}))
       /\ d.orders_pending + summary.status_breakdown["dispatched"] = OfCustomers(k, pending)
       /\ d.orders_pending = Sum(DOMAIN kanban, LAMBDA s : Cardinality(kanban[s]))
       /\ summary.total_orders = Sum(OrderStatus, LAMBDA s : summary.status_breakdown[s])
       /\ summary.total_orders = Cardinality(OrderList(k))
       /\ summary.total_order_value = d.sales_total + Sales(With(OrdersOf(k), {"cancelled"}))
       /\ AgentSummary(k, NoDate, NoDate).total_sales = OfAgents(row)
       /\ Sales(report) = Sum(Days, ofDay) + Sales(report \ Submitted(report))
       /\ \A e \in Leaderboard(k) :
            e.sales >= AgentRow(k, e.agent, MonthStart(today), today)
       /\ \A e \in TopAgents(k) : CarriedOver(k, e.agent) = {} =>
            /\ HomeSummary(e.agent, k).sales_today >= e.payment
            /\ HomeSummary(e.agent, k).orders_today >= e.orders

\* Whoever sold more has the better place, on every page that ranks agents, and
\* the leaderboard shows an agent the place of its own performance page.
RanksAgree ==
  \A k \in Companies :
    /\ \A a, b \in Agents :
         LET live(x) == Sales(By(Live(OrdersOf(k)), x))
             month(x) == Performance(x, k).sales
             ranked(ra, rb) == ra # {} /\ rb # {} => Max(ra) < Min(rb)
         IN /\ live(a) > live(b) => ranked(ProfileRank(a, k), ProfileRank(b, k))
            /\ month(a) > month(b) => ranked(Performance(a, k).ranks, Performance(b, k).ranks)
    /\ \A a \in Agents : OrderCount(a, k) = Performance(a, k).orders
    /\ \A e \in TopAgents(k) :
         e.orders <= OrderCount(e.agent, k) /\ e.payment <= Performance(e.agent, k).sales
    /\ \A e \in Leaderboard(k) :
         /\ e.ranks = Performance(e.agent, k).ranks
         /\ e.sales = Analytics(k).agents[e.agent]
    /\ \A e, f \in Leaderboard(k) : e.sales > f.sales => Max(e.ranks) < Min(f.ranks)
    /\ \A a \in AgentSummary(k, NoDate, NoDate).top_agent :
         \A b \in Agents : AgentRow(k, a, NoDate, NoDate) >= AgentRow(k, b, NoDate, NoDate)

\* The stored figures of an agent are those of the profile page unless an order
\* was cancelled, or set back to a counted status, after the agent's last
\* submission: nothing recomputes them then.  What a customer's row says is owed,
\* which the credit check goes by, is what the invoices say, unless one of them
\* was voided after the customer's last invoice or payment.
StoredUnlessMoved ==
  /\ \A a \in Agents \ moved :
       metric[a].sales = ProfileSales(a) /\ metric[a].orders = ProfileOrders(a)
  /\ \A c \in Customers \ moved : credit[c] = ComputedOutstanding(c)

\* "Customers with lifetime order aggregates": a row of the customer report
\* shows the orders of the row's customer.
CustomerRowsOwn ==
  \A c \in Customers :
    LET own == From(With(OrdersOf(HomeOf[c]), SalesStatuses), c)
    IN CustomerRow(HomeOf[c], c) = {[sales |-> Sales(own), orders |-> Cardinality(own)]}

=============================================================================
