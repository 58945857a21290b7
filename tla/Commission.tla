------------------------------ MODULE Commission ------------------------------
(***************************************************************************)
(* Commissions: the entries that orders earn their agents, the endpoints   *)
(* that move their status, and the monthly payouts that are rebuilt from   *)
(* the paid entries (apps/commissions, apps/orders/services.py).           *)
(*                                                                         *)
(* Each request is one transaction and reads what is committed.  A row it  *)
(* has written is locked until it commits, but the entry it computes from  *)
(* was read without a lock, and the sum of a month sees the entries of     *)
(* other requests only when they have committed.                           *)
(***************************************************************************)
EXTENDS Sums

CONSTANTS
  Agents, Categories,
  Entries,     \* one for each order
  Lines,       \* Lines[e]: the line_total of the order's lines in each category
  Taxable,     \* Taxable[e]: the order's taxable_amount
  Explicit,    \* a CategoryCommissionRate of the company, or NoRate
  Rates,       \* bound: the default rates that a category may get
  Asked,       \* bound: the statuses that update_status is asked for
  Months,      \* bound: the months the clock runs through
  Requests,    \* request slots
  NoRow, NoMonth, NoRate, NoRequest

ASSUME SetsAssumption ==
  IsFiniteSet(Agents) /\ IsFiniteSet(Categories) /\ IsFiniteSet(Entries) /\ IsFiniteSet(Months)
ASSUME LinesAssumption ==
  \A e \in Entries : Taxable[e] \in Nat /\ \A g \in Categories : Lines[e][g] \in Nat
ASSUME RatesAssumption ==
  /\ Rates \subseteq Nat /\ Rates # {} /\ NoRate \notin Nat
  /\ \A g \in Categories : Explicit[g] \in Nat \cup {NoRate}
ASSUME MonthsAssumption == Months \subseteq Nat /\ NoMonth \notin Months

EntryStatus == {"pending", "approved", "paid", "disputed", "adjusted"}
ASSUME AskedAssumption == Asked \subseteq EntryStatus

EntryRows ==
  [agent : Agents, amount : Nat, status : EntryStatus, month : Months \cup {NoMonth}]
PayoutRows == [amount : Nat, count : Nat]
ASSUME NoRowAssumption == NoRow \notin EntryRows \cup PayoutRows

\* What a request keeps in memory: the entries it writes, the months that it
\* rebuilds and their payout, what its answer will count, and whether no other
\* request of the agent has overlapped with it.
Memories ==
  [op : {"status", "settle"}, agent : Agents, step : {"loaded", "written", "summed"},
   rows : UNION {[S -> EntryRows] : S \in SUBSET Entries}, months : SUBSET Months,
   count : Nat, total : PayoutRows \cup {NoRow}, alone : BOOLEAN]
ASSUME NoRequestAssumption == NoRequest \notin Memories

VARIABLES
  entry,    \* entry[e]: [agent, amount, status, month], the CommissionEntry row
  payout,   \* payout[a][m]: [amount, count], the CommissionPayout row
  rate,     \* rate[g]: default_commission_pct of the category
  month,    \* the current month
  hand,     \* hand[r]: what the request in slot r keeps in memory
  crossed   \* payouts rebuilt while another request of the agent was under way
            \* and not again since (history)

vars == <<entry, payout, rate, month, hand, crossed>>

Init ==
  /\ entry = [e \in Entries |-> NoRow]
  /\ payout = [a \in Agents |-> [m \in Months |-> NoRow]]
  /\ rate = [g \in Categories |-> CHOOSE pct \in Rates : TRUE]
  /\ month \in Months
  /\ hand = [r \in Requests |-> NoRequest]
  /\ crossed = {}

-----------------------------------------------------------------------------
\* What an order earns

RateOf(g) == IF Explicit[g] # NoRate THEN Explicit[g] ELSE rate[g]

\* compute_commission_for_order: the rates weighted by the lines, applied to
\* what is taxable; in hundredths, nothing is rounded away.
CommissionAmount(e) ==
  LET value    == SumOf([g \in Categories |-> Lines[e][g]])
      weighted == SumOf([g \in Categories |-> Lines[e][g] * RateOf(g)])
  IN IF value = 0 THEN 0 ELSE (Taxable[e] * weighted) \div value

\* Faulty variant: an entry that exists gets today's rates.
BookAgain(e, a) ==
  /\ (entry[e] # NoRow => entry[e].agent = a)
  /\ entry' = [entry EXCEPT ![e] =
       IF entry[e] = NoRow
       THEN [agent |-> a, amount |-> CommissionAmount(e), status |-> "pending",
             month |-> NoMonth]
       ELSE [entry[e] EXCEPT !.amount = CommissionAmount(e)]]
  /\ UNCHANGED <<payout, rate, month, hand, crossed>>

\* create_commission_entry, called when the order is submitted and again when
\* it is dispatched: the first call makes the entry.
Book(e, a) ==
  /\ entry[e] = NoRow
  /\ entry' = [entry EXCEPT ![e] = [agent |-> a, amount |-> CommissionAmount(e),
                                    status |-> "pending", month |-> NoMonth]]
  /\ UNCHANGED <<payout, rate, month, hand, crossed>>

\* An edit of the category; of those whose rate counts (bound).
SetRate(g, pct) ==
  /\ rate[g] # pct /\ Explicit[g] = NoRate
  /\ rate' = [rate EXCEPT ![g] = pct]
  /\ UNCHANGED <<entry, payout, month, hand, crossed>>

NextMonth ==
  /\ month + 1 \in Months
  /\ month' = month + 1
  /\ UNCHANGED <<entry, payout, rate, hand, crossed>>

-----------------------------------------------------------------------------
\* Requests: load, write, rebuild, commit

Busy(r, step) == hand[r] # NoRequest /\ hand[r].step = step

\* Takes a slot; requests of one agent that overlap know of each other.
Take(r, h) ==
  LET same == {q \in Requests : hand[q] # NoRequest /\ hand[q].agent = h.agent}
  IN /\ hand[r] = NoRequest
     /\ hand' = [q \in Requests |->
          IF q = r THEN [h EXCEPT !.alone = (same = {})]
          ELSE IF q \in same THEN [hand[q] EXCEPT !.alone = FALSE]
          ELSE hand[q]]
     /\ UNCHANGED <<entry, payout, rate, month, crossed>>

\* The row that update_status saves: whoever is paid gets the current month
\* unless the entry has one.
Moved(row, status) ==
  [row EXCEPT !.status = status,
              !.month = IF status = "paid" /\ @ = NoMonth THEN month ELSE @]

\* Faulty variant: only the month that is paid now is rebuilt.
AffectedNew(old, new) == IF new.status = "paid" THEN {new.month} ELSE {}

\* affected_months: of what was paid before and of what is paid now.
Affected(old, new) ==
  (IF old.status = "paid" THEN {old.month} ELSE {})
    \cup (IF new.status = "paid" THEN {new.month} ELSE {})

\* rows: the entries it writes; count: what the answer will say.
LoadStatus(r, e, status) ==
  /\ entry[e] # NoRow
  /\ LET new == Moved(entry[e], status)
     IN Take(r, [op |-> "status", agent |-> entry[e].agent, step |-> "loaded",
                 rows |-> [x \in {e} |-> new], months |-> Affected(entry[e], new),
                 count |-> 1, total |-> NoRow, alone |-> TRUE])

Approved(a, m) ==
  {e \in Entries : entry[e] # NoRow /\ entry[e].agent = a
                   /\ entry[e].status = "approved" /\ entry[e].month = m}

\* Faulty variant: counts what the month's payout will count.
CountedPaid(a, m) ==
  Cardinality({e \in Entries : entry[e] # NoRow /\ entry[e].agent = a
                 /\ entry[e].status \in {"approved", "paid"} /\ entry[e].month = m})

Counted(a, m) == Cardinality(Approved(a, m))

NoRows == [e \in {} |-> NoRow]

\* settle: counts the approved entries of the month.
LoadSettle(r, a, m) ==
  /\ Approved(a, m) # {}
  /\ Take(r, [op |-> "settle", agent |-> a, step |-> "loaded", rows |-> NoRows,
              months |-> {m}, count |-> Counted(a, m), total |-> NoRow,
              alone |-> TRUE])

\* The rows that uncommitted requests have written.
Locked ==
  UNION {DOMAIN hand[q].rows :
           q \in {x \in Requests : hand[x] # NoRequest /\ hand[x].step \in {"written", "summed"}}}

\* The UPDATE of settle chooses again.
PaidRows(a, m) == [e \in Approved(a, m) |-> [entry[e] EXCEPT !.status = "paid"]]

Write(r) ==
  LET h == hand[r]
      m == CHOOSE x \in h.months : TRUE
      rows == IF h.op = "settle" THEN PaidRows(h.agent, m) ELSE h.rows
  IN /\ Busy(r, "loaded")
     /\ DOMAIN rows \cap Locked = {}
     /\ hand' = [hand EXCEPT ![r].rows = rows, ![r].step = "written"]
     /\ UNCHANGED <<entry, payout, rate, month, crossed>>

\* The entries as the request's own transaction sees them.
Own(r) ==
  [e \in Entries |-> IF e \in DOMAIN hand[r].rows THEN hand[r].rows[e] ELSE entry[e]]

PaidIn(rows, a, m) ==
  {e \in Entries : rows[e] # NoRow /\ rows[e].agent = a /\ rows[e].status = "paid"
                   /\ rows[e].month = m}

\* The row that upsert_payout leaves: none without paid entries.
Payout(rows, a, m) ==
  LET paid == PaidIn(rows, a, m)
  IN IF paid = {} THEN NoRow
     ELSE [amount |-> SumOf([e \in paid |-> rows[e].amount]),
           count |-> Cardinality(paid)]

\* The sum of upsert_payout.  There is at most one month: an entry keeps the
\* month it was paid in.
Rebuild(r) ==
  /\ Busy(r, "written")
  /\ hand' = [hand EXCEPT ![r].step = "summed",
                          ![r].total = IF hand[r].months = {} THEN NoRow
                                       ELSE Payout(Own(r), hand[r].agent,
                                                   CHOOSE m \in hand[r].months : TRUE)]
  /\ UNCHANGED <<entry, payout, rate, month, crossed>>

\* update_or_create or delete, and the commit.
Commit(r) ==
  LET h == hand[r]
  IN /\ Busy(r, "summed")
     /\ entry' = Own(r)
     /\ payout' = [payout EXCEPT ![h.agent] =
                     [m \in Months |-> IF m \in h.months THEN h.total ELSE payout[h.agent][m]]]
     /\ crossed' = IF h.alone THEN crossed \ ({h.agent} \X h.months)
                   ELSE crossed \cup ({h.agent} \X Months)
     /\ hand' = [hand EXCEPT ![r] = NoRequest]
     /\ UNCHANGED <<rate, month>>

\* The request fails: its transaction is undone.
Abort(r) ==
  /\ hand[r] # NoRequest
  /\ hand' = [hand EXCEPT ![r] = NoRequest]
  /\ UNCHANGED <<entry, payout, rate, month, crossed>>

Next ==
  \/ \E e \in Entries, a \in Agents : Book(e, a)
  \/ \E g \in Categories, pct \in Rates : SetRate(g, pct)
  \/ NextMonth
  \/ \E r \in Requests :
       \/ \E e \in Entries, s \in Asked : LoadStatus(r, e, s)
       \/ \E a \in Agents, m \in Months : LoadSettle(r, a, m)
       \/ Write(r) \/ Rebuild(r) \/ Commit(r) \/ Abort(r)

Spec == Init /\ [][Next]_vars

-----------------------------------------------------------------------------
\* The figures of the agents' pages

Amounts(S) == SumOf([e \in S |-> entry[e].amount])

\* CommissionEntryViewSet.list and agent_commission; NoMonth asks for all.
EntryList(a, statuses, m) ==
  {e \in Entries : /\ entry[e] # NoRow /\ entry[e].agent = a
                   /\ entry[e].status \in statuses
                   /\ m # NoMonth => entry[e].month = m}

\* agent_payouts
PayoutList(a, m) == {x \in Months : payout[a][x] # NoRow /\ (m # NoMonth => x = m)}

\* CommissionEntryViewSet.summary
Summary(a, m) ==
  [pending_amount  |-> Amounts(EntryList(a, {"pending"}, m)),
   approved_amount |-> Amounts(EntryList(a, {"approved"}, m)),
   paid_amount     |-> Amounts(EntryList(a, {"paid"}, m))]

\* AgentMembershipViewSet._agent_stats_annotations: two columns of the list.
AgentStats(a) ==
  [commission_total   |-> Amounts(EntryList(a, EntryStatus, NoMonth)),
   commission_pending |-> Amounts(EntryList(a, {"pending", "approved"}, NoMonth))]

\* AgentMembershipViewSet.overview: what the payouts say has been paid.
PendingAmount == Amounts({e \in Entries : entry[e] # NoRow
                            /\ entry[e].status \in {"pending", "approved"}})
PaidPayout ==
  SumOf([p \in {q \in Agents \X Months : payout[q[1]][q[2]] # NoRow} |->
           payout[p[1]][p[2]].amount])

\* agent_transactions, with no more rows than it shows.
Transactions(a, m) ==
  {[type |-> "payout", id |-> x, amount |-> payout[a][x].amount] : x \in PayoutList(a, m)}
    \cup {[type |-> IF entry[e].status = "adjusted" THEN "adjustment" ELSE "order_commission",
           id |-> e, amount |-> entry[e].amount] : e \in EntryList(a, EntryStatus, m)}

\* agent_adjustments
Adjustments(a) == EntryList(a, {"adjusted"}, NoMonth)

\* _compute_performance: commission_earned
Earned(a) ==
  Amounts({e \in EntryList(a, {"approved", "paid"}, NoMonth) :
             entry[e].month # NoMonth /\ entry[e].month >= month})

-----------------------------------------------------------------------------
\* Properties

\* "Rebuild the monthly CommissionPayout snapshot ... from the PAID commission
\* entries of that month.  Safe to call repeatedly": whatever statuses an entry
\* goes through, a payout is what is paid in its month, unless it was last
\* rebuilt by one of two overlapping requests for the agent; and the next
\* request that runs alone for it repairs it.
PayoutExact ==
  \A a \in Agents, m \in Months :
    <<a, m>> \notin crossed => payout[a][m] = Payout(entry, a, m)

\* What the pages of commissions and agents show of the same entries agrees, as
\* long as no payout is left by overlapping requests: what is pending, in the
\* company's overview and in the rows of the agents; what is paid, in the payouts
\* and in the summary of each month; and the feed of an agent's transactions,
\* which has what is paid twice, once as the entry and once in the payout.
PagesAgree ==
  LET pending(a) == AgentStats(a).commission_pending
      fed(a, m) == SumOf([t \in Transactions(a, m) |-> t.amount])
  IN crossed = {} =>
     /\ PendingAmount = SumOf([a \in Agents |-> pending(a)])
     /\ PaidPayout = SumOf([a \in Agents |-> Summary(a, NoMonth).paid_amount])
     /\ \A a \in Agents :
          LET all == Summary(a, NoMonth)
          IN /\ pending(a) = all.pending_amount + all.approved_amount
             /\ fed(a, NoMonth) = AgentStats(a).commission_total + all.paid_amount
             /\ AgentStats(a).commission_total =
                  pending(a) + all.paid_amount + Amounts(Adjustments(a))
                    + Amounts(EntryList(a, {"disputed"}, NoMonth))
             /\ Earned(a) >= Summary(a, month).paid_amount
             /\ \A m \in Months :
                  /\ (PayoutList(a, m) = {}) = (EntryList(a, {"paid"}, m) = {})
                  /\ m \in PayoutList(a, m) =>
                       payout[a][m].amount = Summary(a, m).paid_amount

\* The payouts, and with them every figure of the pages, are what the paid
\* entries make them, until two requests for one agent cross.
PayoutsAgree == PayoutExact /\ PagesAgree

\* "{count} entries settled": when no other request of the agent overlaps, the
\* answer of settle counts the entries it has made paid.
SettleReportsTruth ==
  [][\A r \in Requests :
       Busy(r, "summed") /\ hand[r].op = "settle" /\ hand[r].alone /\ entry' # entry
         /\ hand'[r] = NoRequest =>
         Cardinality({e \in Entries : entry'[e] # entry[e]}) = hand[r].count]_vars

\* "Idempotent: won't overwrite an existing entry for the order": the amount of
\* an entry stays what the rates were at booking, through later rates, a second
\* call at dispatch and the saves of whole rows.
AmountsKept ==
  [][\A e \in Entries : entry[e] # NoRow =>
       entry'[e].amount = entry[e].amount /\ entry'[e].agent = entry[e].agent]_vars

=============================================================================
