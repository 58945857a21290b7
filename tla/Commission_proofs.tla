--------------------------- MODULE Commission_proofs ---------------------------
(***************************************************************************)
(* Theorems about Commission for every set of agents, categories, entries, *)
(* months and requests: an amount is kept, settle tells the truth when it  *)
(* runs alone, a payout that was last rebuilt by a request that ran alone  *)
(* is exact, and the pages of commissions and agents then agree.           *)
(***************************************************************************)
EXTENDS Commission, Sums_proofs

TypeOK ==
  /\ entry \in [Entries -> EntryRows \cup {NoRow}]
  /\ payout \in [Agents -> [Months -> PayoutRows \cup {NoRow}]]
  /\ rate \in [Categories -> Rates]
  /\ month \in Months
  /\ hand \in [Requests -> Memories \cup {NoRequest}]
  /\ crossed \subseteq Agents \X Months

\* Whoever is paid has a month.
PaidDated == \A e \in Entries : entry[e] # NoRow /\ entry[e].status = "paid" => entry[e].month # NoMonth

\* A request rebuilds one month at most, settle exactly one.
OneMonth(h) ==
  /\ \A m, n \in h.months : m = n
  /\ h.op = "settle" => \E m \in Months : h.months = {m}

\* The rows it writes belong to its agent and keep their amounts; those that it
\* makes paid are paid in its month.
RowsOK(h) ==
  \A e \in DOMAIN h.rows :
    /\ entry[e] # NoRow /\ entry[e].agent = h.agent
    /\ h.rows[e].agent = h.agent /\ h.rows[e].amount = entry[e].amount
    /\ h.rows[e].status = "paid" => h.rows[e].month \in h.months

\* While it runs alone the entries of its agent stay as it has read them.
PaidBefore(h) ==
  \A e \in DOMAIN h.rows : entry[e].status = "paid" => entry[e].month \in h.months

CountHolds(h) ==
  h.op = "settle" =>
    /\ h.step = "loaded" => \A m \in h.months : h.count = Cardinality(Approved(h.agent, m))
    /\ h.step # "loaded" => /\ h.count = Cardinality(DOMAIN h.rows)
                            /\ \A e \in DOMAIN h.rows : entry[e] # h.rows[e]

TotalHolds(r) ==
  hand[r].step = "summed" =>
    \A m \in hand[r].months : hand[r].total = Payout(Own(r), hand[r].agent, m)

HandOK(r) ==
  /\ OneMonth(hand[r]) /\ RowsOK(hand[r])
  /\ hand[r].alone => PaidBefore(hand[r]) /\ CountHolds(hand[r]) /\ TotalHolds(r)

HandsOK == \A r \in Requests : hand[r] # NoRequest => HandOK(r)

LoneApart ==
  \A q, r \in Requests :
    hand[q] # NoRequest /\ hand[r] # NoRequest /\ q # r /\ hand[r].alone =>
      hand[q].agent # hand[r].agent

PayoutInv == TypeOK /\ PaidDated /\ HandsOK /\ LoneApart /\ PayoutExact

-----------------------------------------------------------------------------
\* Types

\* The sum of amounts of finitely many rows is a natural number.
LEMMA FiniteSubset ==
  ASSUME NEW T, IsFiniteSet(T), NEW S \in SUBSET T
  PROVE  IsFiniteSet(S) /\ Cardinality(S) \in Nat
BY FS_Subset, FS_CardinalityType

LEMMA AmountNat ==
  ASSUME TypeOK, NEW e \in Entries
  PROVE  CommissionAmount(e) \in Nat
<1> DEFINE lines == [g \in Categories |-> Lines[e][g]]
           rated == [g \in Categories |-> Lines[e][g] * RateOf(g)]
<1>1. lines \in [Categories -> Nat]
  BY LinesAssumption
<1>2. ASSUME NEW g \in Categories
      PROVE  Lines[e][g] * RateOf(g) \in Nat
  <2>1. RateOf(g) \in Nat
    BY RatesAssumption DEF RateOf, TypeOK
  <2>2. Lines[e][g] \in Nat
    BY LinesAssumption
  <2> QED BY <2>1, <2>2
<1>3. rated \in [Categories -> Nat]
  BY <1>2
<1>4. SumOf(lines) \in Nat /\ SumOf(rated) \in Nat
  BY <1>1, <1>3, SumType, SetsAssumption
<1>5. ASSUME NEW t \in Nat, NEW v \in Nat, NEW w \in Nat, v # 0
      PROVE  (t * w) \div v \in Nat
  <2>1. t * w \in Nat
    OBVIOUS
  <2> QED BY <1>5, <2>1
<1> QED
  BY <1>4, <1>5, LinesAssumption DEF CommissionAmount

\* What a request loads and what an entry is are what the model keeps.
LEMMA RowsType ==
  ASSUME NEW rows
  PROVE  rows \in UNION {[S -> EntryRows] : S \in SUBSET Entries}
           <=> /\ DOMAIN rows \subseteq Entries
               /\ rows \in [DOMAIN rows -> EntryRows]
OBVIOUS

LEMMA MemoryType ==
  ASSUME TypeOK, NEW r \in Requests, hand[r] # NoRequest
  PROVE  /\ hand[r] \in Memories
         /\ DOMAIN hand[r].rows \subseteq Entries
         /\ hand[r].rows \in [DOMAIN hand[r].rows -> EntryRows]
         /\ hand[r].agent \in Agents /\ hand[r].months \subseteq Months
         /\ hand[r].count \in Nat /\ hand[r].alone \in BOOLEAN
         /\ hand[r].total \in PayoutRows \cup {NoRow}
<1>1. hand[r] \in Memories
  BY DEF TypeOK
<1>2. hand[r].rows \in UNION {[S -> EntryRows] : S \in SUBSET Entries}
  BY <1>1 DEF Memories
<1> QED
  BY <1>1, <1>2, RowsType DEF Memories

LEMMA MemoryAlone ==
  ASSUME NEW h \in Memories, NEW b \in BOOLEAN
  PROVE  LET new == [h EXCEPT !.alone = b]
         IN /\ new \in Memories /\ new.alone = b
            /\ new.op = h.op /\ new.agent = h.agent /\ new.step = h.step /\ new.rows = h.rows
            /\ new.months = h.months /\ new.count = h.count /\ new.total = h.total
BY DEF Memories

LEMMA MovedType ==
  ASSUME TypeOK, NEW e \in Entries, entry[e] # NoRow, NEW s \in Asked
  PROVE  /\ Moved(entry[e], s) \in EntryRows
         /\ Moved(entry[e], s).agent = entry[e].agent
         /\ Moved(entry[e], s).amount = entry[e].amount
         /\ Moved(entry[e], s).status = s
         /\ s = "paid" => Moved(entry[e], s).month \in Months
         /\ entry[e].month # NoMonth => Moved(entry[e], s).month = entry[e].month
<1>1. entry[e] \in EntryRows /\ month \in Months
  BY DEF TypeOK
<1> QED
  BY <1>1, AskedAssumption DEF Moved, EntryRows

LEMMA OwnType ==
  ASSUME TypeOK, NEW r \in Requests, hand[r] # NoRequest
  PROVE  Own(r) \in [Entries -> EntryRows \cup {NoRow}]
BY MemoryType DEF Own, TypeOK

LEMMA PayoutType ==
  ASSUME NEW rows \in [Entries -> EntryRows \cup {NoRow}], NEW a, NEW m
  PROVE  /\ Payout(rows, a, m) \in PayoutRows \cup {NoRow}
         /\ PaidIn(rows, a, m) # {} =>
              /\ Payout(rows, a, m) # NoRow
              /\ Payout(rows, a, m).amount = SumOf([e \in PaidIn(rows, a, m) |-> rows[e].amount])
<1> DEFINE paid == PaidIn(rows, a, m)
           amounts == [e \in paid |-> rows[e].amount]
           row == [amount |-> SumOf(amounts), count |-> Cardinality(paid)]
<1>1. paid \subseteq Entries
  BY DEF PaidIn
<1>2. IsFiniteSet(paid) /\ Cardinality(paid) \in Nat
  BY <1>1, FiniteSubset, SetsAssumption
<1>3. amounts \in [paid -> Nat]
  BY DEF PaidIn, EntryRows
<1>4. SumOf(amounts) \in Nat
  BY <1>2, <1>3, SumType
<1>5. row \in PayoutRows
  BY <1>2, <1>4 DEF PayoutRows
<1> HIDE DEF row
<1>6. Payout(rows, a, m) = IF paid = {} THEN NoRow ELSE row
  BY DEF Payout, row
<1>7. row.amount = SumOf(amounts)
  BY DEF row
<1> QED
  BY <1>5, <1>6, <1>7, NoRowAssumption

\* The payouts of two states of the entries agree when what is paid does.
LEMMA SamePayout ==
  ASSUME NEW rows, NEW other, NEW a, NEW m,
         PaidIn(rows, a, m) = PaidIn(other, a, m),
         \A e \in PaidIn(rows, a, m) : rows[e].amount = other[e].amount
  PROVE  Payout(rows, a, m) = Payout(other, a, m)
<1>1. [e \in PaidIn(rows, a, m) |-> rows[e].amount]
        = [e \in PaidIn(other, a, m) |-> other[e].amount]
  OBVIOUS
<1> QED
  BY <1>1 DEF Payout

-----------------------------------------------------------------------------
\* What the other requests do to a request

\* The entries of the agent stay, but for new ones.
Stay(a) ==
  \A e \in Entries :
    /\ entry[e] # NoRow /\ entry[e].agent = a => entry'[e] = entry[e]
    /\ entry'[e] # NoRow /\ entry'[e].agent = a => entry'[e] = entry[e] \/ entry'[e].status = "pending"

\* No entry goes or changes its agent or its amount.
Kept ==
  \A e \in Entries : entry[e] # NoRow =>
    /\ entry'[e] # NoRow
    /\ entry'[e].agent = entry[e].agent /\ entry'[e].amount = entry[e].amount

LEMMA HandKept ==
  ASSUME PayoutInv, NEW r \in Requests, hand[r] # NoRequest,
         hand'[r] = hand[r] \/ hand'[r] = [hand[r] EXCEPT !.alone = FALSE],
         Kept, hand'[r].alone => Stay(hand[r].agent)
  PROVE  HandOK(r)'
<1> DEFINE h == hand[r]
<1>1. HandOK(r) /\ TypeOK
  BY DEF PayoutInv, HandsOK
<1>2. /\ h \in Memories /\ DOMAIN h.rows \subseteq Entries
      /\ h.rows \in [DOMAIN h.rows -> EntryRows]
  BY <1>1, MemoryType
<1>3. /\ hand'[r].op = h.op /\ hand'[r].agent = h.agent /\ hand'[r].step = h.step
      /\ hand'[r].rows = h.rows /\ hand'[r].months = h.months
      /\ hand'[r].count = h.count /\ hand'[r].total = h.total
      /\ hand'[r].alone => h.alone
  BY <1>2 DEF Memories
<1>4. OneMonth(hand[r])'
  BY <1>1, <1>3 DEF HandOK, OneMonth
<1>5. RowsOK(hand[r])'
  BY <1>1, <1>2, <1>3 DEF HandOK, RowsOK, Kept
<1>6. ASSUME hand'[r].alone
      PROVE  PaidBefore(hand[r])' /\ CountHolds(hand[r])' /\ TotalHolds(r)'
  <2>1. Stay(h.agent) /\ PaidBefore(h) /\ CountHolds(h) /\ TotalHolds(r) /\ RowsOK(h)
    BY <1>1, <1>3, <1>6 DEF HandOK
  <2>2. \A e \in DOMAIN h.rows : entry'[e] = entry[e]
    BY <1>2, <2>1 DEF Stay, RowsOK
  <2>3. PaidBefore(hand[r])'
    BY <1>3, <2>1, <2>2 DEF PaidBefore
  <2>4. \A m : Approved(h.agent, m)' = Approved(h.agent, m)
    BY <1>3, <2>1 DEF Approved, Stay
  <2>5. CountHolds(hand[r])'
    BY <1>3, <2>1, <2>2, <2>4 DEF CountHolds, Approved
  <2>6. ASSUME h.step = "summed", NEW m \in h.months
        PROVE  h.total = Payout(Own(r)', h.agent, m)
    <3>1. h.total = Payout(Own(r), h.agent, m)
      BY <2>1, <2>6 DEF TotalHolds
    <3>2. Own(r)' = [e \in Entries |-> IF e \in DOMAIN h.rows THEN h.rows[e] ELSE entry'[e]]
      BY <1>3 DEF Own
    <3>3. Own(r) = [e \in Entries |-> IF e \in DOMAIN h.rows THEN h.rows[e] ELSE entry[e]]
      BY DEF Own
    <3>4. PaidIn(Own(r)', h.agent, m) = PaidIn(Own(r), h.agent, m)
      BY <2>1, <3>2, <3>3 DEF PaidIn, Stay, Kept
    <3>5. \A e \in PaidIn(Own(r), h.agent, m) : Own(r)'[e].amount = Own(r)[e].amount
      BY <2>1, <3>2, <3>3 DEF PaidIn, Stay, Kept
    <3> QED
      BY <3>1, <3>4, <3>5, SamePayout
  <2>7. TotalHolds(r)'
    BY <1>3, <2>6 DEF TotalHolds
  <2> QED
    BY <2>3, <2>5, <2>7
<1> QED
  BY <1>4, <1>5, <1>6 DEF HandOK

\* A step that changes neither entries nor payouts disturbs only the requests
\* that it changes itself.
LEMMA EntriesKept ==
  ASSUME PayoutInv, UNCHANGED <<entry, payout, crossed>>
  PROVE  Kept /\ (\A a : Stay(a)) /\ PaidDated' /\ PayoutExact'
<1>1. Kept /\ (\A a : Stay(a)) /\ PaidDated'
  BY DEF PayoutInv, PaidDated, Kept, Stay
<1>2. PayoutExact'
  BY DEF PayoutInv, PayoutExact, Payout, PaidIn
<1> QED
  BY <1>1, <1>2

\* A request that is done or fails leaves the others as they are.
LEMMA SlotFreed ==
  ASSUME PayoutInv, NEW r \in Requests, hand' = [hand EXCEPT ![r] = NoRequest], Kept,
         \A q \in Requests \ {r} : hand[q] # NoRequest /\ hand[q].alone => Stay(hand[q].agent)
  PROVE  HandsOK' /\ LoneApart'
<1>1. hand \in [Requests -> Memories \cup {NoRequest}]
  BY DEF PayoutInv, TypeOK
<1>2. ASSUME NEW q \in Requests, hand'[q] # NoRequest
      PROVE  q # r /\ hand'[q] = hand[q] /\ HandOK(q)'
  <2>1. q # r /\ hand'[q] = hand[q]
    BY <1>1, <1>2
  <2> QED
    BY <1>2, <2>1, HandKept
<1>3. HandsOK'
  BY <1>2 DEF HandsOK
<1>4. LoneApart'
  BY <1>2 DEF PayoutInv, LoneApart
<1> QED
  BY <1>3, <1>4

-----------------------------------------------------------------------------
\* The steps that load what a request needs

LEMMA InitInv == Init => PayoutInv
<1> SUFFICES ASSUME Init
             PROVE  PayoutInv
  OBVIOUS
<1>1. TypeOK
  BY RatesAssumption DEF Init, TypeOK
<1>2. PaidDated /\ HandsOK /\ LoneApart
  BY DEF Init, PaidDated, HandsOK, LoneApart
<1>3. PayoutExact
  BY DEF Init, PayoutExact, Payout, PaidIn
<1> QED
  BY <1>1, <1>2, <1>3 DEF PayoutInv

LEMMA BookStep ==
  ASSUME PayoutInv, NEW e \in Entries, NEW a \in Agents, Book(e, a)
  PROVE  PayoutInv'
<1> DEFINE new == [agent |-> a, amount |-> CommissionAmount(e), status |-> "pending",
                   month |-> NoMonth]
<1>1. TypeOK /\ entry[e] = NoRow /\ UNCHANGED <<payout, rate, month, hand, crossed>>
  BY DEF PayoutInv, Book
<1>2. new \in EntryRows
  BY <1>1, AmountNat DEF EntryRows, EntryStatus
<1>3. /\ entry'[e] = new /\ new.status = "pending"
      /\ \A d \in Entries \ {e} : entry'[d] = entry[d]
      /\ entry' \in [Entries -> EntryRows \cup {NoRow}]
  BY <1>1, <1>2 DEF Book, TypeOK
<1>4. TypeOK'
  BY <1>1, <1>3 DEF TypeOK
<1>5. PaidDated'
  BY <1>3 DEF PaidDated, PayoutInv
<1>6. Kept /\ \A k : Stay(k)
  <2> HIDE DEF new
  <2> QED
    BY <1>1, <1>3 DEF Kept, Stay
<1>7. HandsOK' /\ LoneApart'
  BY <1>1, <1>6, HandKept DEF HandsOK, LoneApart, PayoutInv
<1>8. ASSUME NEW k \in Agents, NEW m \in Months, <<k, m>> \notin crossed
      PROVE  payout[k][m] = Payout(entry', k, m)
  <2>1. PaidIn(entry, k, m) = PaidIn(entry', k, m)
    <3> HIDE DEF new
    <3> QED
      BY <1>1, <1>3 DEF PaidIn
  <2>2. \A d \in PaidIn(entry, k, m) : entry[d].amount = entry'[d].amount
    BY <1>1, <1>3 DEF PaidIn
  <2>3. payout[k][m] = Payout(entry, k, m)
    BY <1>8 DEF PayoutInv, PayoutExact
  <2> QED
    BY <2>1, <2>2, <2>3, SamePayout
<1>9. PayoutExact'
  BY <1>1, <1>8 DEF PayoutExact
<1> QED
  BY <1>4, <1>5, <1>7, <1>9 DEF PayoutInv

\* A slot is taken: whoever shares the agent is not alone any more.
LEMMA TakeStep ==
  ASSUME PayoutInv, NEW r \in Requests, NEW h \in Memories, Take(r, h),
         OneMonth(h), RowsOK(h), PaidBefore(h), CountHolds(h), h.step = "loaded"
  PROVE  PayoutInv'
<1> DEFINE same == {q \in Requests : hand[q] # NoRequest /\ hand[q].agent = h.agent}
           mine == [h EXCEPT !.alone = (same = {})]
<1>1. hand[r] = NoRequest /\ UNCHANGED <<entry, payout, rate, month, crossed>>
  BY DEF Take
<1>2. /\ hand'[r] = mine
      /\ \A q \in same : hand'[q] = [hand[q] EXCEPT !.alone = FALSE]
      /\ \A q \in Requests \ {r} : q \notin same => hand'[q] = hand[q]
      /\ DOMAIN hand' = Requests /\ hand' = [q \in Requests |-> hand'[q]]
  BY <1>1 DEF Take
<1>3. /\ mine.agent = h.agent /\ mine.op = h.op /\ mine.step = h.step /\ mine.rows = h.rows
      /\ mine.months = h.months /\ mine.count = h.count /\ (mine.alone => same = {})
      /\ mine \in Memories
  <2>1. (same = {}) \in BOOLEAN
    OBVIOUS
  <2> QED
    BY <2>1, MemoryAlone
<1> HIDE DEF mine
<1>4. ASSUME NEW q \in same
      PROVE  /\ hand'[q] \in Memories /\ hand'[q].agent = hand[q].agent /\ ~hand'[q].alone
  <2>1. hand[q] \in Memories
    BY DEF PayoutInv, TypeOK
  <2>2. FALSE \in BOOLEAN /\ hand'[q] = [hand[q] EXCEPT !.alone = FALSE]
    BY <1>2
  <2> QED
    BY <2>1, <2>2, MemoryAlone
<1>5. TypeOK'
  <2>1. \A q \in Requests : hand'[q] \in Memories \cup {NoRequest}
    BY <1>2, <1>3, <1>4 DEF PayoutInv, TypeOK
  <2> QED
    BY <1>1, <1>2, <2>1 DEF PayoutInv, TypeOK
<1>6. Kept /\ (\A a : Stay(a)) /\ PaidDated' /\ PayoutExact'
  BY <1>1, EntriesKept
<1>7. ASSUME NEW q \in Requests, hand'[q] # NoRequest
      PROVE  HandOK(q)'
  <2>1. CASE q = r
    <3>1. OneMonth(hand[q])'
      BY <1>2, <1>3, <2>1 DEF OneMonth
    <3>2. RowsOK(hand[q])' /\ PaidBefore(hand[q])'
      BY <1>1, <1>2, <1>3, <2>1 DEF RowsOK, PaidBefore
    <3>3. CountHolds(hand[q])'
      BY <1>1, <1>2, <1>3, <2>1 DEF CountHolds, Approved
    <3>4. TotalHolds(q)'
      BY <1>2, <1>3, <2>1 DEF TotalHolds
    <3> QED
      BY <3>1, <3>2, <3>3, <3>4 DEF HandOK
  <2>2. CASE q # r
    BY <1>2, <1>6, <1>7, <2>2, HandKept
  <2> QED
    BY <2>1, <2>2
<1>8. HandsOK'
  BY <1>7 DEF HandsOK
<1>9. ASSUME NEW p \in Requests, NEW q \in Requests, p # q,
             hand'[p] # NoRequest, hand'[q] # NoRequest, hand'[q].alone
      PROVE  hand'[p].agent # hand'[q].agent
  <2>1. CASE q = r
    <3>1. p \notin same
      BY <1>2, <1>3, <1>9, <2>1
    <3>2. hand'[p] = hand[p] /\ hand[p] # NoRequest
      BY <1>2, <1>9, <2>1, <3>1
    <3> QED
      BY <1>2, <1>3, <2>1, <3>1, <3>2
  <2>2. CASE p = r
    BY <1>2, <1>3, <1>4, <1>9, <2>2
  <2>3. CASE p # r /\ q # r
    <3>1. q \notin same /\ hand'[q] = hand[q]
      BY <1>2, <1>4, <1>9, <2>3
    <3>2. hand[p] # NoRequest /\ hand'[p].agent = hand[p].agent
      BY <1>2, <1>4, <1>9, <2>3
    <3> QED
      BY <1>9, <3>1, <3>2 DEF PayoutInv, LoneApart
  <2> QED
    BY <2>1, <2>2, <2>3
<1>10. LoneApart'
  BY <1>9 DEF LoneApart
<1> QED
  BY <1>5, <1>6, <1>8, <1>10 DEF PayoutInv

LEMMA LoadStatusStep ==
  ASSUME PayoutInv, NEW r \in Requests, NEW e \in Entries, NEW s \in Asked, LoadStatus(r, e, s)
  PROVE  PayoutInv'
<1> DEFINE new == Moved(entry[e], s)
           rows == [x \in {e} |-> new]
           months == Affected(entry[e], new)
           h == [op |-> "status", agent |-> entry[e].agent, step |-> "loaded", rows |-> rows,
                 months |-> months, count |-> 1, total |-> NoRow, alone |-> TRUE]
<1>1. TypeOK /\ entry[e] # NoRow /\ Take(r, h)
  BY DEF PayoutInv, LoadStatus
<1>2. /\ new \in EntryRows /\ new.agent = entry[e].agent /\ new.amount = entry[e].amount
      /\ new.status = "paid" => new.month \in Months
      /\ entry[e].month # NoMonth => new.month = entry[e].month
  BY <1>1, MovedType
<1>3. entry[e].agent \in Agents /\ (entry[e].status = "paid" => entry[e].month \in Months)
  BY <1>1 DEF TypeOK, PayoutInv, PaidDated, EntryRows
<1>4. /\ \A m, n \in months : m = n
      /\ months \subseteq Months
      /\ new.status = "paid" => new.month \in months
      /\ entry[e].status = "paid" => entry[e].month \in months
  BY <1>2, <1>3, MonthsAssumption DEF Affected
<1>5. rows \in UNION {[S -> EntryRows] : S \in SUBSET Entries}
  <2>1. DOMAIN rows \subseteq Entries /\ rows \in [DOMAIN rows -> EntryRows]
    BY <1>2
  <2> QED
    BY <2>1, RowsType
<1> HIDE DEF new, months
<1>6. h \in Memories
  BY <1>3, <1>4, <1>5 DEF Memories
<1>7. OneMonth(h) /\ RowsOK(h) /\ PaidBefore(h) /\ CountHolds(h) /\ h.step = "loaded"
  BY <1>1, <1>2, <1>4 DEF OneMonth, RowsOK, PaidBefore, CountHolds
<1> QED
  BY <1>1, <1>6, <1>7, TakeStep

LEMMA LoadSettleStep ==
  ASSUME PayoutInv, NEW r \in Requests, NEW a \in Agents, NEW m \in Months, LoadSettle(r, a, m)
  PROVE  PayoutInv'
<1> DEFINE h == [op |-> "settle", agent |-> a, step |-> "loaded", rows |-> NoRows,
                 months |-> {m}, count |-> Counted(a, m), total |-> NoRow, alone |-> TRUE]
<1>1. Take(r, h)
  BY DEF LoadSettle
<1>2. Counted(a, m) \in Nat
  <2>1. Approved(a, m) \subseteq Entries
    BY DEF Approved
  <2> QED
    BY <2>1, FiniteSubset, SetsAssumption DEF Counted
<1>3. NoRows \in UNION {[S -> EntryRows] : S \in SUBSET Entries} /\ DOMAIN NoRows = {}
  <2>1. DOMAIN NoRows \subseteq Entries /\ NoRows \in [DOMAIN NoRows -> EntryRows]
    BY DEF NoRows
  <2> QED
    BY <2>1, RowsType DEF NoRows
<1>4. h \in Memories
  BY <1>2, <1>3 DEF Memories
<1>5. OneMonth(h) /\ RowsOK(h) /\ PaidBefore(h) /\ CountHolds(h) /\ h.step = "loaded"
  BY <1>3 DEF OneMonth, RowsOK, PaidBefore, CountHolds, Counted
<1> QED
  BY <1>1, <1>4, <1>5, TakeStep

-----------------------------------------------------------------------------
\* The steps that write, rebuild and commit

\* A request moves on by itself.
LEMMA SlotMoved ==
  ASSUME PayoutInv, NEW r \in Requests, hand[r] # NoRequest, NEW new \in Memories,
         hand' = [hand EXCEPT ![r] = new], UNCHANGED <<entry, payout, rate, month, crossed>>,
         new.agent = hand[r].agent, new.alone = hand[r].alone, HandOK(r)'
  PROVE  PayoutInv'
<1>1. /\ hand \in [Requests -> Memories \cup {NoRequest}]
      /\ hand'[r] = new /\ \A q \in Requests \ {r} : hand'[q] = hand[q]
  BY DEF PayoutInv, TypeOK
<1>2. TypeOK'
  BY <1>1 DEF PayoutInv, TypeOK
<1>3. Kept /\ (\A a : Stay(a)) /\ PaidDated' /\ PayoutExact'
  BY EntriesKept
<1>4. ASSUME NEW q \in Requests, hand'[q] # NoRequest
      PROVE  HandOK(q)'
  <2>1. CASE q = r
    BY <2>1
  <2>2. CASE q # r
    BY <1>1, <1>3, <1>4, <2>2, HandKept
  <2> QED
    BY <2>1, <2>2
<1>5. HandsOK'
  BY <1>4 DEF HandsOK
<1>6. LoneApart'
  BY <1>1 DEF PayoutInv, LoneApart
<1> QED
  BY <1>2, <1>3, <1>5, <1>6 DEF PayoutInv

LEMMA WriteStep ==
  ASSUME PayoutInv, NEW r \in Requests, Write(r)
  PROVE  PayoutInv'
<1> DEFINE h == hand[r]
           m == CHOOSE x \in h.months : TRUE
           rows == IF h.op = "settle" THEN PaidRows(h.agent, m) ELSE h.rows
           new == [h EXCEPT !.rows = rows, !.step = "written"]
<1>1. /\ h # NoRequest /\ h.step = "loaded"
      /\ UNCHANGED <<entry, payout, rate, month, crossed>>
      /\ TypeOK /\ HandOK(r)
  BY DEF Write, Busy, PayoutInv, HandsOK
<1>2. /\ h \in Memories /\ DOMAIN h.rows \subseteq Entries
      /\ h.rows \in [DOMAIN h.rows -> EntryRows]
  BY <1>1, MemoryType
<1>3. hand' = [hand EXCEPT ![r] = new]
  <2>1. hand' = [hand EXCEPT ![r].rows = rows, ![r].step = "written"]
    BY DEF Write
  <2> HIDE DEF rows
  <2>2. [hand EXCEPT ![r].rows = rows, ![r].step = "written"] = [hand EXCEPT ![r] = new]
    BY <1>1 DEF TypeOK
  <2> QED
    BY <2>1, <2>2
<1>4. h.op = "settle" => m \in Months /\ h.months = {m}
  BY <1>1 DEF HandOK, OneMonth
<1>5. /\ DOMAIN rows \subseteq Entries /\ rows \in [DOMAIN rows -> EntryRows]
      /\ h.op = "settle" => /\ DOMAIN rows = Approved(h.agent, m)
                            /\ \A e \in DOMAIN rows : rows[e] = [entry[e] EXCEPT !.status = "paid"]
  <2>1. CASE h.op = "settle"
    <3>1. \A e \in Approved(h.agent, m) : [entry[e] EXCEPT !.status = "paid"] \in EntryRows
      BY <1>1 DEF TypeOK, Approved, EntryRows, EntryStatus
    <3>2. Approved(h.agent, m) \subseteq Entries
      BY DEF Approved
    <3> QED
      BY <2>1, <3>1, <3>2 DEF PaidRows
  <2>2. CASE h.op # "settle"
    BY <1>2, <2>2
  <2> QED
    BY <2>1, <2>2
<1>6. rows \in UNION {[S -> EntryRows] : S \in SUBSET Entries}
  BY <1>5, RowsType
<1>7. ASSUME h.op = "settle", NEW e \in DOMAIN rows
      PROVE  /\ e \in Entries /\ entry[e] # NoRow /\ entry[e] \in EntryRows
             /\ entry[e].agent = h.agent /\ entry[e].status = "approved"
             /\ entry[e].month = m /\ rows[e].status = "paid"
             /\ rows[e].agent = h.agent /\ rows[e].amount = entry[e].amount
             /\ rows[e].month = m
  <2>1. /\ e \in Entries /\ entry[e] # NoRow /\ entry[e] \in EntryRows
        /\ entry[e].agent = h.agent /\ entry[e].status = "approved" /\ entry[e].month = m
        /\ rows[e] = [entry[e] EXCEPT !.status = "paid"]
    BY <1>1, <1>5, <1>7 DEF Approved, TypeOK
  <2>2. ASSUME NEW x \in EntryRows, NEW y, y = [x EXCEPT !.status = "paid"]
        PROVE  /\ y.status = "paid" /\ y.agent = x.agent /\ y.amount = x.amount
               /\ y.month = x.month
    BY <2>2 DEF EntryRows
  <2> HIDE DEF rows, m
  <2> QED
    BY <2>1, <2>2
<1> HIDE DEF rows
<1>8. /\ new \in Memories /\ new.agent = h.agent /\ new.alone = h.alone /\ new.op = h.op
      /\ new.step = "written" /\ new.rows = rows /\ new.months = h.months /\ new.count = h.count
  BY <1>2, <1>6 DEF Memories
<1> HIDE DEF new, m
<1>9. hand'[r] = new
  BY <1>1, <1>3 DEF TypeOK
<1>10. CASE h.op = "settle"
  <2>1. OneMonth(hand[r])'
    BY <1>1, <1>8, <1>9 DEF HandOK, OneMonth
  <2>2. RowsOK(hand[r])'
    BY <1>1, <1>4, <1>7, <1>8, <1>9, <1>10 DEF RowsOK
  <2>3. PaidBefore(hand[r])'
    BY <1>1, <1>7, <1>8, <1>9, <1>10 DEF PaidBefore
  <2>4. ASSUME h.alone
        PROVE  CountHolds(hand[r])'
    <3>1. h.count = Cardinality(Approved(h.agent, m))
      BY <1>1, <1>4, <1>10, <2>4 DEF HandOK, CountHolds
    <3> QED
      BY <1>1, <1>5, <1>7, <1>8, <1>9, <1>10, <3>1 DEF CountHolds
  <2>5. TotalHolds(r)'
    BY <1>8, <1>9 DEF TotalHolds
  <2>6. HandOK(r)'
    BY <1>8, <1>9, <2>1, <2>2, <2>3, <2>4, <2>5 DEF HandOK
  <2> QED
    BY <1>1, <1>3, <1>8, <2>6, SlotMoved
<1>11. CASE h.op # "settle"
  <2>1. rows = h.rows
    BY <1>11 DEF rows
  <2>2. OneMonth(hand[r])'
    BY <1>1, <1>8, <1>9 DEF HandOK, OneMonth
  <2>3. RowsOK(hand[r])'
    BY <1>1, <1>8, <1>9, <2>1 DEF HandOK, RowsOK
  <2>4. h.alone => PaidBefore(hand[r])'
    BY <1>1, <1>8, <1>9, <2>1 DEF HandOK, PaidBefore
  <2>5. CountHolds(hand[r])' /\ TotalHolds(r)'
    BY <1>8, <1>9, <1>11 DEF CountHolds, TotalHolds
  <2>6. HandOK(r)'
    BY <1>8, <1>9, <2>2, <2>3, <2>4, <2>5 DEF HandOK
  <2> QED
    BY <1>1, <1>3, <1>8, <2>6, SlotMoved
<1> QED
  BY <1>10, <1>11

LEMMA RebuildStep ==
  ASSUME PayoutInv, NEW r \in Requests, Rebuild(r)
  PROVE  PayoutInv'
<1> DEFINE h == hand[r]
           m == CHOOSE x \in h.months : TRUE
           total == IF h.months = {} THEN NoRow ELSE Payout(Own(r), h.agent, m)
           new == [h EXCEPT !.step = "summed", !.total = total]
<1>1. /\ h # NoRequest /\ h.step = "written"
      /\ UNCHANGED <<entry, payout, rate, month, crossed>>
      /\ TypeOK /\ HandOK(r)
  BY DEF Rebuild, Busy, PayoutInv, HandsOK
<1>2. h \in Memories
  BY <1>1, MemoryType
<1>3. hand' = [hand EXCEPT ![r] = new]
  BY <1>1 DEF Rebuild, TypeOK
<1>4. total \in PayoutRows \cup {NoRow}
  BY <1>1, OwnType, PayoutType
<1>5. \A x \in h.months : total = Payout(Own(r), h.agent, x)
  BY <1>1 DEF HandOK, OneMonth
<1> HIDE DEF total
<1>6. /\ new \in Memories /\ new.agent = h.agent /\ new.alone = h.alone /\ new.op = h.op
      /\ new.step = "summed" /\ new.rows = h.rows /\ new.months = h.months
      /\ new.count = h.count /\ new.total = total
  BY <1>2, <1>4 DEF Memories
<1> HIDE DEF new
<1>7. hand'[r] = new
  BY <1>1, <1>3 DEF TypeOK
<1>8. Own(r)' = Own(r)
  BY <1>1, <1>6, <1>7 DEF Own
<1>9. OneMonth(hand[r])' /\ RowsOK(hand[r])'
  BY <1>1, <1>6, <1>7 DEF HandOK, OneMonth, RowsOK
<1>10. h.alone => PaidBefore(hand[r])' /\ CountHolds(hand[r])'
  BY <1>1, <1>6, <1>7 DEF HandOK, PaidBefore, CountHolds, Approved
<1>11. TotalHolds(r)'
  BY <1>5, <1>6, <1>7, <1>8 DEF TotalHolds
<1>12. HandOK(r)'
  BY <1>6, <1>7, <1>9, <1>10, <1>11 DEF HandOK
<1> QED
  BY <1>1, <1>3, <1>6, <1>12, SlotMoved

\* The entries as a commit leaves them.
LEMMA CommitEntries ==
  ASSUME PayoutInv, NEW r \in Requests, Commit(r)
  PROVE  /\ hand[r] # NoRequest /\ hand[r].step = "summed" /\ HandOK(r)
         /\ DOMAIN hand[r].rows \subseteq Entries
         /\ \A e \in DOMAIN hand[r].rows : entry'[e] = hand[r].rows[e] /\ entry'[e] \in EntryRows
         /\ \A e \in Entries : e \notin DOMAIN hand[r].rows => entry'[e] = entry[e]
         /\ entry' \in [Entries -> EntryRows \cup {NoRow}]
         /\ Kept
         /\ \A a : a # hand[r].agent => Stay(a)
<1> DEFINE h == hand[r]
<1>1. h # NoRequest /\ h.step = "summed" /\ HandOK(r) /\ TypeOK /\ entry' = Own(r)
  BY DEF Commit, Busy, PayoutInv, HandsOK
<1>2. DOMAIN h.rows \subseteq Entries /\ h.rows \in [DOMAIN h.rows -> EntryRows]
  BY <1>1, MemoryType
<1>3. /\ \A e \in DOMAIN h.rows : entry'[e] = h.rows[e] /\ entry'[e] \in EntryRows
      /\ \A e \in Entries : e \notin DOMAIN h.rows => entry'[e] = entry[e]
      /\ entry' \in [Entries -> EntryRows \cup {NoRow}]
  BY <1>1, <1>2, OwnType DEF Own
<1>4. RowsOK(h)
  BY <1>1 DEF HandOK
<1>5. Kept
  BY <1>2, <1>3, <1>4, NoRowAssumption DEF Kept, RowsOK
<1>6. ASSUME NEW a, a # h.agent
      PROVE  Stay(a)
  BY <1>3, <1>4, <1>6 DEF Stay, RowsOK
<1> QED
  BY <1>1, <1>2, <1>3, <1>5, <1>6

\* Outside the months that it rebuilds, what a lone request commits is paid
\* neither before nor after.
LEMMA CommitElsewhere ==
  ASSUME PayoutInv, NEW r \in Requests, Commit(r), NEW a \in Agents, NEW m \in Months,
         a = hand[r].agent => hand[r].alone /\ m \notin hand[r].months
  PROVE  Payout(entry', a, m) = Payout(entry, a, m)
<1> DEFINE h == hand[r]
<1>1. /\ HandOK(r) /\ DOMAIN h.rows \subseteq Entries
      /\ \A e \in DOMAIN h.rows : entry'[e] = h.rows[e] /\ entry'[e] \in EntryRows
      /\ \A e \in Entries : e \notin DOMAIN h.rows => entry'[e] = entry[e]
  BY CommitEntries
<1>2. RowsOK(h) /\ (h.alone => PaidBefore(h))
  BY <1>1 DEF HandOK
<1>3. \A e \in DOMAIN h.rows : e \notin PaidIn(entry, a, m) /\ e \notin PaidIn(entry', a, m)
  BY <1>1, <1>2 DEF RowsOK, PaidBefore, PaidIn
<1>4. PaidIn(entry', a, m) = PaidIn(entry, a, m)
  BY <1>1, <1>3 DEF PaidIn
<1>5. \A e \in PaidIn(entry', a, m) : entry'[e].amount = entry[e].amount
  BY <1>1, <1>3 DEF PaidIn
<1> QED
  BY <1>4, <1>5, SamePayout

LEMMA CommitStep ==
  ASSUME PayoutInv, NEW r \in Requests, Commit(r)
  PROVE  PayoutInv'
<1> DEFINE h == hand[r]
<1>1. /\ h # NoRequest /\ h.step = "summed" /\ HandOK(r) /\ Kept
      /\ entry' \in [Entries -> EntryRows \cup {NoRow}]
      /\ \A a : a # h.agent => Stay(a)
      /\ DOMAIN h.rows \subseteq Entries
      /\ \A e \in DOMAIN h.rows : entry'[e] = h.rows[e] /\ entry'[e] \in EntryRows
      /\ \A e \in Entries : e \notin DOMAIN h.rows => entry'[e] = entry[e]
  BY CommitEntries
<1>2. /\ TypeOK /\ hand' = [hand EXCEPT ![r] = NoRequest] /\ UNCHANGED <<rate, month>>
      /\ payout' = [payout EXCEPT ![h.agent] =
                      [m \in Months |-> IF m \in h.months THEN h.total ELSE payout[h.agent][m]]]
      /\ crossed' = IF h.alone THEN crossed \ ({h.agent} \X h.months)
                    ELSE crossed \cup ({h.agent} \X Months)
      /\ entry' = Own(r)
  BY DEF PayoutInv, Commit
<1>3. /\ h.agent \in Agents /\ h.months \subseteq Months
      /\ h.total \in PayoutRows \cup {NoRow} /\ h.alone \in BOOLEAN
  BY <1>1, <1>2, MemoryType
<1>4. /\ \A m \in Months : payout'[h.agent][m] = IF m \in h.months THEN h.total ELSE payout[h.agent][m]
      /\ \A a \in Agents \ {h.agent} : payout'[a] = payout[a]
      /\ payout' \in [Agents -> [Months -> PayoutRows \cup {NoRow}]]
  BY <1>2, <1>3 DEF TypeOK
<1>5. TypeOK'
  <2>1. crossed' \subseteq Agents \X Months
    BY <1>2, <1>3 DEF TypeOK
  <2>2. hand' \in [Requests -> Memories \cup {NoRequest}]
    BY <1>2 DEF TypeOK
  <2> QED
    BY <1>1, <1>2, <1>4, <2>1, <2>2 DEF TypeOK
<1>6. PaidDated'
  <2>1. RowsOK(h)
    BY <1>1 DEF HandOK
  <2>2. ASSUME NEW e \in Entries, entry'[e] # NoRow, entry'[e].status = "paid"
        PROVE  entry'[e].month # NoMonth
    <3>1. CASE e \in DOMAIN h.rows
      BY <1>1, <1>3, <2>1, <2>2, <3>1, MonthsAssumption DEF RowsOK
    <3>2. CASE e \notin DOMAIN h.rows
      BY <1>1, <2>2, <3>2 DEF PayoutInv, PaidDated
    <3> QED
      BY <3>1, <3>2
  <2> QED
    BY <2>2 DEF PaidDated
<1>7. HandsOK' /\ LoneApart'
  <2>1. ASSUME NEW q \in Requests \ {r}, hand[q] # NoRequest, hand[q].alone
        PROVE  Stay(hand[q].agent)
    BY <1>1, <2>1 DEF PayoutInv, LoneApart
  <2> QED
    BY <1>1, <1>2, <2>1, SlotFreed
<1>8. ASSUME NEW a \in Agents, NEW m \in Months, <<a, m>> \notin crossed'
      PROVE  payout'[a][m] = Payout(entry', a, m)
  <2>1. CASE a = h.agent /\ m \in h.months
    <3>1. h.alone
      BY <1>2, <1>8, <2>1
    <3>2. h.total = Payout(Own(r), a, m)
      BY <1>1, <2>1, <3>1 DEF HandOK, TotalHolds
    <3> QED
      BY <1>2, <1>4, <2>1, <3>2
  <2>2. CASE ~(a = h.agent /\ m \in h.months)
    <3>1. a = h.agent => h.alone
      BY <1>2, <1>8
    <3>2. <<a, m>> \notin crossed
      BY <1>2, <1>8, <2>2, <3>1
    <3>3. Payout(entry', a, m) = Payout(entry, a, m)
      BY <2>2, <3>1, CommitElsewhere
    <3>4. payout'[a][m] = payout[a][m]
      BY <1>4, <2>2
    <3> QED
      BY <3>2, <3>3, <3>4 DEF PayoutInv, PayoutExact
  <2> QED
    BY <2>1, <2>2
<1>9. PayoutExact'
  BY <1>8 DEF PayoutExact
<1> QED
  BY <1>5, <1>6, <1>7, <1>9 DEF PayoutInv

LEMMA AbortStep ==
  ASSUME PayoutInv, NEW r \in Requests, Abort(r)
  PROVE  PayoutInv'
<1>1. hand' = [hand EXCEPT ![r] = NoRequest] /\ UNCHANGED <<entry, payout, rate, month, crossed>>
  BY DEF Abort
<1>2. Kept /\ (\A a : Stay(a)) /\ PaidDated' /\ PayoutExact'
  BY <1>1, EntriesKept
<1>3. HandsOK' /\ LoneApart'
  BY <1>1, <1>2, SlotFreed
<1>4. TypeOK'
  BY <1>1 DEF PayoutInv, TypeOK
<1> QED
  BY <1>2, <1>3, <1>4 DEF PayoutInv

-----------------------------------------------------------------------------
\* Every step, and what it means for the properties

LEMMA InvStep == PayoutInv /\ [Next]_vars => PayoutInv'
<1> SUFFICES ASSUME PayoutInv, [Next]_vars
             PROVE  PayoutInv'
  OBVIOUS
<1>1. CASE \E e \in Entries, a \in Agents : Book(e, a)
  BY <1>1, BookStep
<1>2. CASE UNCHANGED <<entry, payout, hand, crossed>> /\ (rate' \in [Categories -> Rates]) /\ (month' \in Months)
  <2>1. Kept /\ (\A a : Stay(a)) /\ PaidDated' /\ PayoutExact'
    BY <1>2, EntriesKept
  <2>2. HandsOK' /\ LoneApart'
    BY <1>2, <2>1, HandKept DEF HandsOK, LoneApart, PayoutInv
  <2>3. TypeOK'
    BY <1>2 DEF PayoutInv, TypeOK
  <2> QED
    BY <2>1, <2>2, <2>3 DEF PayoutInv
<1>3. CASE \E g \in Categories, pct \in Rates : SetRate(g, pct)
  BY <1>2, <1>3 DEF SetRate, PayoutInv, TypeOK
<1>4. CASE NextMonth
  BY <1>2, <1>4 DEF NextMonth, PayoutInv, TypeOK
<1>5. CASE UNCHANGED vars
  BY <1>2, <1>5 DEF vars, PayoutInv, TypeOK
<1>6. ASSUME NEW r \in Requests,
             \/ \E e \in Entries, s \in Asked : LoadStatus(r, e, s)
             \/ \E a \in Agents, m \in Months : LoadSettle(r, a, m)
             \/ Write(r) \/ Rebuild(r) \/ Commit(r) \/ Abort(r)
      PROVE  PayoutInv'
  BY <1>6, LoadStatusStep, LoadSettleStep, WriteStep, RebuildStep, CommitStep, AbortStep
<1> QED
  BY <1>1, <1>3, <1>4, <1>5, <1>6 DEF Next

\* A payout is what is paid in its month, unless it was last rebuilt by one of
\* two overlapping requests for the agent; the next request that runs alone for
\* it repairs it (upsert_payout, update_status, settle).
THEOREM PayoutExactCorrect == Spec => []PayoutExact
<1>1. PayoutInv => PayoutExact
  BY DEF PayoutInv
<1> QED
  BY InitInv, InvStep, <1>1, PTL DEF Spec

THEOREM PayoutInvCorrect == Spec => []PayoutInv
BY InitInv, InvStep, PTL DEF Spec

\* The amount and the agent of an entry are what they were at booking
\* (create_commission_entry; the saves of whole rows).
THEOREM AmountsKeptCorrect == Spec => AmountsKept
<1>1. ASSUME PayoutInv, Next
      PROVE  Kept
  <2>1. CASE \E e \in Entries, a \in Agents : Book(e, a)
    BY <2>1, <1>1 DEF Book, Kept, PayoutInv, TypeOK
  <2>2. CASE UNCHANGED entry
    BY <2>2 DEF Kept
  <2>3. CASE \E r \in Requests : Commit(r)
    BY <1>1, <2>3, CommitEntries
  <2> QED
    BY <1>1, <2>1, <2>2, <2>3
       DEF Next, SetRate, NextMonth, LoadStatus, LoadSettle, Take, Write, Rebuild, Abort
<1>2. PayoutInv /\ [Next]_vars =>
        [\A e \in Entries : entry[e] # NoRow =>
           entry'[e].amount = entry[e].amount /\ entry'[e].agent = entry[e].agent]_vars
  BY <1>1 DEF Kept
<1> QED
  BY PayoutInvCorrect, <1>2, PTL DEF Spec, AmountsKept

\* When no other request of the agent overlaps, the answer of settle counts the
\* entries that it has made paid.
THEOREM SettleReports == Spec => SettleReportsTruth
<1> DEFINE Told ==
      \A r \in Requests :
        Busy(r, "summed") /\ hand[r].op = "settle" /\ hand[r].alone /\ entry' # entry
          /\ hand'[r] = NoRequest =>
          Cardinality({e \in Entries : entry'[e] # entry[e]}) = hand[r].count
<1>1. ASSUME PayoutInv, Next, NEW r \in Requests, Busy(r, "summed"), hand[r].op = "settle",
             hand[r].alone, entry' # entry, hand'[r] = NoRequest
      PROVE  Cardinality({e \in Entries : entry'[e] # entry[e]}) = hand[r].count
  <2>1. hand[r] # NoRequest /\ hand \in [Requests -> Memories \cup {NoRequest}]
    BY <1>1 DEF Busy, PayoutInv, TypeOK
  <2>2. Commit(r)
    <3>1. CASE \E e \in Entries, a \in Agents : Book(e, a)
      BY <1>1, <2>1, <3>1 DEF Book
    <3>2. ASSUME NEW q \in Requests, Commit(q)
          PROVE  q = r
      BY <1>1, <2>1, <3>2 DEF Commit
    <3> QED
      BY <1>1, <3>1, <3>2
         DEF Next, SetRate, NextMonth, LoadStatus, LoadSettle, Take, Write, Rebuild, Abort
  <2>3. /\ HandOK(r) /\ DOMAIN hand[r].rows \subseteq Entries /\ hand[r].step = "summed"
        /\ \A e \in DOMAIN hand[r].rows : entry'[e] = hand[r].rows[e]
        /\ \A e \in Entries : e \notin DOMAIN hand[r].rows => entry'[e] = entry[e]
    BY <1>1, <2>2, CommitEntries
  <2>4. /\ hand[r].count = Cardinality(DOMAIN hand[r].rows)
        /\ \A e \in DOMAIN hand[r].rows : entry[e] # hand[r].rows[e]
    BY <1>1, <2>3 DEF HandOK, CountHolds
  <2>5. {e \in Entries : entry'[e] # entry[e]} = DOMAIN hand[r].rows
    BY <2>3, <2>4
  <2> QED
    BY <2>4, <2>5
<1>2. PayoutInv /\ [Next]_vars => [Told]_vars
  BY <1>1
<1> QED
  BY PayoutInvCorrect, <1>2, PTL DEF Spec, SettleReportsTruth

-----------------------------------------------------------------------------
\* The pages

Booked == {e \in Entries : entry[e] # NoRow}

LEMMA AmountsType ==
  ASSUME TypeOK, NEW S \in SUBSET Booked
  PROVE  /\ IsFiniteSet(S) /\ Amounts(S) \in Nat
         /\ [e \in S |-> entry[e].amount] \in [S -> Nat]
<1>1. IsFiniteSet(S)
  BY FiniteSubset, SetsAssumption DEF Booked
<1>2. [e \in S |-> entry[e].amount] \in [S -> Nat]
  BY DEF TypeOK, EntryRows, Booked
<1> QED
  BY <1>1, <1>2, SumType DEF Amounts

LEMMA AmountsSplit ==
  ASSUME TypeOK, NEW S \in SUBSET Booked, NEW A, NEW B, S = A \cup B, A \cap B = {}
  PROVE  Amounts(S) = Amounts(A) + Amounts(B)
<1> DEFINE f == [e \in S |-> entry[e].amount]
<1>1. IsFiniteSet(S) /\ f \in [S -> Nat]
  BY AmountsType
<1>2. On(f, A) = [e \in A |-> entry[e].amount] /\ On(f, S \ A) = [e \in B |-> entry[e].amount]
  <2>1. S \ A = B /\ A \subseteq S
    OBVIOUS
  <2> QED
    BY <2>1 DEF On
<1>3. A \in SUBSET S
  OBVIOUS
<1> HIDE DEF f
<1>4. SumOf(f) = SumOf(On(f, A)) + SumOf(On(f, S \ A))
  BY <1>1, <1>3, SumSplit
<1> QED
  BY <1>2, <1>4 DEF Amounts, f

LEMMA AmountsGroups ==
  ASSUME TypeOK, NEW S \in SUBSET Booked, NEW K, IsFiniteSet(K), NEW g \in [S -> K],
         NEW n, n = [k \in K |-> Amounts({e \in S : g[e] = k})]
  PROVE  Amounts(S) = SumOf(n)
<1> DEFINE f == [e \in S |-> entry[e].amount]
<1>1. IsFiniteSet(S) /\ f \in [S -> Nat]
  BY AmountsType
<1>2. ASSUME NEW k \in K
      PROVE  On(f, Group(S, g, k)) = [e \in {d \in S : g[d] = k} |-> entry[e].amount]
  BY DEF On, Group
<1>3. n = [k \in K |-> SumOf(On(f, Group(S, g, k)))]
  BY <1>2 DEF Amounts
<1> HIDE DEF f
<1>4. SumOf(f) = SumOf([k \in K |-> SumOf(On(f, Group(S, g, k)))])
  BY <1>1, SumGroups
<1> QED
  BY <1>3, <1>4 DEF Amounts, f

\* The lists of entries are what was booked; without a month they are split by
\* their statuses.
LEMMA ListsBooked ==
  ASSUME NEW a, NEW S, NEW m
  PROVE  EntryList(a, S, m) \subseteq Booked
BY DEF EntryList, Booked

LEMMA ListsSplit ==
  ASSUME TypeOK, NEW a, NEW S, NEW T, S \cap T = {}
  PROVE  Amounts(EntryList(a, S \cup T, NoMonth))
           = Amounts(EntryList(a, S, NoMonth)) + Amounts(EntryList(a, T, NoMonth))
<1> DEFINE X == EntryList(a, S \cup T, NoMonth)
           A == EntryList(a, S, NoMonth)
           B == EntryList(a, T, NoMonth)
<1>1. X = A \cup B /\ A \cap B = {}
  BY DEF EntryList
<1>2. X \in SUBSET Booked
  BY ListsBooked
<1> HIDE DEF X, A, B
<1>3. Amounts(X) = Amounts(A) + Amounts(B)
  BY <1>1, <1>2, AmountsSplit
<1> QED
  BY <1>3 DEF X, A, B

\* A month that is paid has a payout, of the amount that is paid.
LEMMA MonthPaid ==
  ASSUME PayoutInv, crossed = {}, NEW a \in Agents, NEW m \in Months
  PROVE  /\ payout[a][m] # NoRow <=> EntryList(a, {"paid"}, m) # {}
         /\ payout[a][m] # NoRow => payout[a][m].amount = Amounts(EntryList(a, {"paid"}, m))
<1>1. payout[a][m] = Payout(entry, a, m) /\ TypeOK
  BY DEF PayoutInv, PayoutExact
<1>2. EntryList(a, {"paid"}, m) = PaidIn(entry, a, m)
  BY MonthsAssumption DEF EntryList, PaidIn
<1>3. PaidIn(entry, a, m) = {} => Payout(entry, a, m) = NoRow
  BY DEF Payout
<1>4. /\ PaidIn(entry, a, m) # {} =>
           /\ Payout(entry, a, m) # NoRow
           /\ Payout(entry, a, m).amount = SumOf([e \in PaidIn(entry, a, m) |-> entry[e].amount])
  BY <1>1, PayoutType DEF TypeOK
<1> QED
  BY <1>1, <1>2, <1>3, <1>4 DEF Amounts

\* So the payouts of an agent add up to what he is paid.
LEMMA AgentPaid ==
  ASSUME PayoutInv, crossed = {}, NEW a \in Agents
  PROVE  /\ IsFiniteSet(PayoutList(a, NoMonth))
         /\ [x \in PayoutList(a, NoMonth) |-> payout[a][x].amount] \in [PayoutList(a, NoMonth) -> Nat]
         /\ SumOf([x \in PayoutList(a, NoMonth) |-> payout[a][x].amount])
              = Amounts(EntryList(a, {"paid"}, NoMonth))
<1> DEFINE S == EntryList(a, {"paid"}, NoMonth)
           K == PayoutList(a, NoMonth)
           g == [e \in S |-> entry[e].month]
           n == [x \in K |-> payout[a][x].amount]
<1>1. TypeOK /\ PaidDated
  BY DEF PayoutInv
<1>2. K \subseteq Months /\ K = {x \in Months : payout[a][x] # NoRow}
  BY DEF PayoutList
<1>3. IsFiniteSet(K)
  BY <1>2, FiniteSubset, SetsAssumption
<1>4. n \in [K -> Nat]
  BY <1>1, <1>2 DEF TypeOK, PayoutRows
<1>5. ASSUME NEW e \in S
      PROVE  entry[e].month \in K
  <2>1. /\ e \in Entries /\ entry[e] # NoRow /\ entry[e].agent = a /\ entry[e].status = "paid"
        /\ entry[e].month \in Months
    BY <1>1, <1>5 DEF EntryList, PaidDated, TypeOK, EntryRows
  <2>2. e \in EntryList(a, {"paid"}, entry[e].month)
    BY <2>1 DEF EntryList
  <2> QED
    BY <1>2, <2>1, <2>2, MonthPaid
<1>6. g \in [S -> K]
  BY <1>5
<1>7. ASSUME NEW x \in K
      PROVE  payout[a][x].amount = Amounts({e \in S : g[e] = x})
  <2>1. {e \in S : g[e] = x} = EntryList(a, {"paid"}, x)
    BY <1>2, <1>7, MonthsAssumption DEF EntryList
  <2> QED
    BY <1>2, <1>7, <2>1, MonthPaid
<1>8. n = [x \in K |-> Amounts({e \in S : g[e] = x})]
  BY <1>7
<1>9. S \subseteq Booked
  BY ListsBooked
<1> HIDE DEF S, K, g, n
<1>10. Amounts(S) = SumOf(n)
  BY <1>1, <1>3, <1>6, <1>8, <1>9, AmountsGroups
<1> QED
  BY <1>3, <1>4, <1>10 DEF S, K, n

\* The overview of the company adds the pending entries and the payouts of all
\* its agents.
LEMMA OverviewPending ==
  ASSUME TypeOK
  PROVE  PendingAmount = SumOf([a \in Agents |-> AgentStats(a).commission_pending])
<1> DEFINE S == {e \in Entries : entry[e] # NoRow /\ entry[e].status \in {"pending", "approved"}}
           g == [e \in S |-> entry[e].agent]
           n == [a \in Agents |-> AgentStats(a).commission_pending]
<1>1. S \subseteq Booked
  BY DEF Booked
<1>2. g \in [S -> Agents]
  BY DEF TypeOK, EntryRows
<1>3. ASSUME NEW a \in Agents
      PROVE  n[a] = Amounts({e \in S : g[e] = a})
  <2>1. {e \in S : g[e] = a} = EntryList(a, {"pending", "approved"}, NoMonth)
    BY DEF EntryList
  <2> QED
    BY <2>1 DEF AgentStats
<1>4. n = [a \in Agents |-> Amounts({e \in S : g[e] = a})]
  BY <1>3
<1>5. PendingAmount = Amounts(S)
  BY DEF PendingAmount
<1> HIDE DEF S, g, n
<1>6. Amounts(S) = SumOf(n)
  BY <1>1, <1>2, <1>4, SetsAssumption, AmountsGroups
<1> QED
  BY <1>5, <1>6 DEF n

LEMMA OverviewPaid ==
  ASSUME PayoutInv, crossed = {}
  PROVE  PaidPayout = SumOf([a \in Agents |-> Summary(a, NoMonth).paid_amount])
<1> DEFINE P == {q \in Agents \X Months : payout[q[1]][q[2]] # NoRow}
           f == [p \in P |-> payout[p[1]][p[2]].amount]
           g == [p \in P |-> p[1]]
           n == [a \in Agents |-> Summary(a, NoMonth).paid_amount]
<1>1. TypeOK
  BY DEF PayoutInv
<1>2. IsFiniteSet(P)
  <2>1. IsFiniteSet(Agents \X Months)
    BY FS_Product, SetsAssumption
  <2> QED
    BY <2>1, FiniteSubset
<1>3. f \in [P -> Nat]
  BY <1>1 DEF TypeOK, PayoutRows
<1>4. g \in [P -> Agents]
  OBVIOUS
<1>5. ASSUME NEW a \in Agents
      PROVE  n[a] = SumOf(On(f, Group(P, g, a)))
  <2> DEFINE K == PayoutList(a, NoMonth)
             R == Group(P, g, a)
             h == [x \in K |-> payout[a][x].amount]
             b == [x \in K |-> <<a, x>>]
  <2>1. K = {x \in Months : payout[a][x] # NoRow}
    BY DEF PayoutList
  <2>2. R = {p \in P : p[1] = a}
    BY DEF Group
  <2>3. On(f, R) \in [R -> Nat]
    BY <1>3, <2>2 DEF On
  <2>4. b \in Bijection(K, R)
    <3>1. \A x \in K : b[x] \in R
      BY <2>1, <2>2
    <3>2. \A x, y \in K : b[x] = b[y] => x = y
      OBVIOUS
    <3>3. \A p \in R : \E x \in K : b[x] = p
      BY <2>1, <2>2
    <3>4. b \in [K -> R]
      BY <3>1
    <3> HIDE DEF b, K, R
    <3> QED
      BY <3>2, <3>3, <3>4 DEF Bijection, Injection, IsInjective, Surjection
  <2>5. \A x \in K : On(f, R)[b[x]] = h[x]
    BY <2>1, <2>2 DEF On
  <2>6. IsFiniteSet(K) /\ h \in [K -> Nat] /\ SumOf(h) = Amounts(EntryList(a, {"paid"}, NoMonth))
    BY AgentPaid
  <2>7. n[a] = Amounts(EntryList(a, {"paid"}, NoMonth))
    BY DEF Summary
  <2> HIDE DEF K, R, h, b, f, n
  <2>8. SumOf(On(f, R)) = SumOf(h)
    BY <2>3, <2>4, <2>5, <2>6, SumRenamed
  <2> QED
    BY <2>6, <2>7, <2>8 DEF R
<1>6. n = [a \in Agents |-> SumOf(On(f, Group(P, g, a)))]
  BY <1>5
<1>7. PaidPayout = SumOf(f)
  BY DEF PaidPayout
<1> HIDE DEF P, f, g, n
<1>8. SumOf(f) = SumOf(n)
  BY <1>2, <1>3, <1>4, <1>6, SetsAssumption, SumGroups
<1> QED
  BY <1>7, <1>8 DEF n

\* The feed of an agent has a row for each entry and for each payout.
LEMMA FeedAdds ==
  ASSUME PayoutInv, crossed = {}, NEW a \in Agents
  PROVE  SumOf([t \in Transactions(a, NoMonth) |-> t.amount])
           = Amounts(EntryList(a, EntryStatus, NoMonth)) + Amounts(EntryList(a, {"paid"}, NoMonth))
<1> DEFINE T == Transactions(a, NoMonth)
           K == PayoutList(a, NoMonth)
           S == EntryList(a, EntryStatus, NoMonth)
           f == [t \in T |-> t.amount]
           Paid(x) == [type |-> "payout", id |-> x, amount |-> payout[a][x].amount]
           Earns(e) == [type |-> IF entry[e].status = "adjusted" THEN "adjustment"
                                 ELSE "order_commission",
                        id |-> e, amount |-> entry[e].amount]
           A == {Paid(x) : x \in K}
           B == {Earns(e) : e \in S}
           h == [x \in K |-> payout[a][x].amount]
           k == [e \in S |-> entry[e].amount]
           b == [x \in K |-> Paid(x)]
           c == [e \in S |-> Earns(e)]
<1>1. TypeOK /\ S \in SUBSET Booked
  BY ListsBooked DEF PayoutInv
<1>2. T = A \cup B
  BY DEF Transactions
<1>3. A \cap B = {}
  OBVIOUS
<1>4. IsFiniteSet(K) /\ h \in [K -> Nat] /\ SumOf(h) = Amounts(EntryList(a, {"paid"}, NoMonth))
  BY AgentPaid
<1>5. IsFiniteSet(S) /\ k \in [S -> Nat] /\ SumOf(k) = Amounts(S)
  BY <1>1, AmountsType DEF Amounts
<1>6. \A x \in K : Paid(x).amount = h[x] /\ Paid(x).id = x
  OBVIOUS
<1>7. \A e \in S : Earns(e).amount = k[e] /\ Earns(e).id = e
  OBVIOUS
<1> HIDE DEF Paid, Earns
<1>8. f \in [T -> Nat]
  BY <1>2, <1>4, <1>5, <1>6, <1>7
<1>9. b \in Bijection(K, A) /\ \A x \in K : On(f, A)[b[x]] = h[x]
  <2>1. b \in [K -> A] /\ (\A x, y \in K : b[x] = b[y] => x = y) /\ \A t \in A : \E x \in K : b[x] = t
    BY <1>6
  <2>2. \A x \in K : On(f, A)[b[x]] = h[x]
    BY <1>2, <1>6 DEF On
  <2> HIDE DEF b, A, K
  <2> QED
    BY <2>1, <2>2 DEF Bijection, Injection, IsInjective, Surjection
<1>10. c \in Bijection(S, B) /\ \A e \in S : On(f, B)[c[e]] = k[e]
  <2>1. c \in [S -> B] /\ (\A d, e \in S : c[d] = c[e] => d = e) /\ \A t \in B : \E e \in S : c[e] = t
    BY <1>7
  <2>2. \A e \in S : On(f, B)[c[e]] = k[e]
    BY <1>2, <1>7 DEF On
  <2> HIDE DEF c, B, S
  <2> QED
    BY <2>1, <2>2 DEF Bijection, Injection, IsInjective, Surjection
<1> HIDE DEF T, K, S, f, A, B, h, k, b, c
<1>11. IsFiniteSet(A) /\ IsFiniteSet(B)
  BY <1>4, <1>5, <1>9, <1>10, FS_Surjection DEF Bijection
<1>12. IsFiniteSet(T)
  BY <1>2, <1>11, FS_Union
<1>13. On(f, A) \in [A -> Nat] /\ On(f, B) \in [B -> Nat]
  BY <1>2, <1>8 DEF On
<1>14. SumOf(On(f, A)) = SumOf(h)
  BY <1>4, <1>9, <1>13, SumRenamed
<1>15. SumOf(On(f, B)) = SumOf(k)
  BY <1>5, <1>10, <1>13, SumRenamed
<1>16. T \ A = B /\ A \in SUBSET T
  BY <1>2, <1>3
<1>17. SumOf(f) = SumOf(On(f, A)) + SumOf(On(f, B))
  <2>1. SumOf(f) = SumOf(On(f, A)) + SumOf(On(f, T \ A))
    BY <1>12, <1>8, <1>16, SumSplit
  <2> QED
    BY <1>16, <2>1
<1>18. Amounts(S) \in Nat /\ Amounts(EntryList(a, {"paid"}, NoMonth)) \in Nat
  BY <1>1, AmountsType, ListsBooked
<1> QED
  BY <1>4, <1>5, <1>14, <1>15, <1>17, <1>18 DEF T, S, f

\* What the pages of commissions and agents show of the same entries agrees,
\* unless overlapping requests left a payout wrong (the lists, summary and
\* overview of commissions/views.py and agents/views.py).
THEOREM PagesAgreeCorrect == Spec => []PagesAgree
<1>1. ASSUME PayoutInv, crossed = {}, NEW a \in Agents
      PROVE  LET all == Summary(a, NoMonth)
                 pending == AgentStats(a).commission_pending
             IN /\ pending = all.pending_amount + all.approved_amount
                /\ SumOf([t \in Transactions(a, NoMonth) |-> t.amount])
                     = AgentStats(a).commission_total + all.paid_amount
                /\ AgentStats(a).commission_total =
                     pending + all.paid_amount + Amounts(Adjustments(a))
                       + Amounts(EntryList(a, {"disputed"}, NoMonth))
                /\ Earned(a) >= Summary(a, month).paid_amount
                /\ \A m \in Months :
                     /\ (PayoutList(a, m) = {}) = (EntryList(a, {"paid"}, m) = {})
                     /\ m \in PayoutList(a, m) =>
                          payout[a][m].amount = Summary(a, m).paid_amount
  <2> DEFINE Of(S) == Amounts(EntryList(a, S, NoMonth))
  <2>1. TypeOK
    BY <1>1 DEF PayoutInv
  <2>2. \A S : Of(S) \in Nat
    BY <2>1, ListsBooked, AmountsType
  <2>3. /\ Summary(a, NoMonth).pending_amount = Of({"pending"})
        /\ Summary(a, NoMonth).approved_amount = Of({"approved"})
        /\ Summary(a, NoMonth).paid_amount = Of({"paid"})
        /\ AgentStats(a).commission_pending = Of({"pending", "approved"})
        /\ AgentStats(a).commission_total = Of(EntryStatus)
        /\ Amounts(Adjustments(a)) = Of({"adjusted"})
        /\ \A m : Summary(a, m).paid_amount = Amounts(EntryList(a, {"paid"}, m))
    BY DEF Summary, AgentStats, Adjustments
  <2>4. Of({"pending", "approved"}) = Of({"pending"}) + Of({"approved"})
    <3>1. {"pending", "approved"} = {"pending"} \cup {"approved"} /\ {"pending"} \cap {"approved"} = {}
      OBVIOUS
    <3> QED
      BY <2>1, <3>1, ListsSplit
  <2>5. Of(EntryStatus) = Of({"pending", "approved"}) + Of({"paid"}) + Of({"adjusted"}) + Of({"disputed"})
    <3> DEFINE U == {"pending", "approved"}
               V == U \cup {"paid"}
               W == V \cup {"adjusted"}
    <3>1. /\ EntryStatus = W \cup {"disputed"} /\ W \cap {"disputed"} = {}
          /\ V \cap {"adjusted"} = {} /\ U \cap {"paid"} = {}
      BY DEF EntryStatus
    <3>2. Of(W) = Of(V) + Of({"adjusted"}) /\ Of(V) = Of(U) + Of({"paid"})
      BY <2>1, <3>1, ListsSplit
    <3>3. Of(EntryStatus) = Of(W) + Of({"disputed"})
      BY <2>1, <3>1, ListsSplit
    <3> HIDE DEF U, V, W, Of
    <3> QED
      BY <2>2, <3>2, <3>3 DEF U
  <2>6. SumOf([t \in Transactions(a, NoMonth) |-> t.amount]) = Of(EntryStatus) + Of({"paid"})
    BY <1>1, FeedAdds
  <2>7. Earned(a) >= Amounts(EntryList(a, {"paid"}, month))
    <3> DEFINE X == {e \in EntryList(a, {"approved", "paid"}, NoMonth) :
                       entry[e].month # NoMonth /\ entry[e].month >= month}
               Y == EntryList(a, {"paid"}, month)
    <3>1. month \in Nat /\ month # NoMonth
      BY <2>1, MonthsAssumption DEF TypeOK
    <3>2. Y \subseteq X /\ X \subseteq Booked
      BY <3>1 DEF EntryList, Booked
    <3>3. /\ IsFiniteSet(X)
          /\ [e \in X |-> entry[e].amount] \in [X -> Nat]
          /\ [e \in Y |-> entry[e].amount] \in [Y -> Nat]
          /\ \A e \in Y : [d \in Y |-> entry[d].amount][e] <= [d \in X |-> entry[d].amount][e]
      <4>1. X \in SUBSET Booked /\ Y \in SUBSET Booked
        BY <3>2
      <4>2. /\ IsFiniteSet(X) /\ [e \in X |-> entry[e].amount] \in [X -> Nat]
            /\ [e \in Y |-> entry[e].amount] \in [Y -> Nat]
        BY <2>1, <4>1, AmountsType
      <4> HIDE DEF X, Y
      <4>3. \A e \in Y : entry[e].amount \in Nat /\ e \in X
        BY <3>2, <4>2
      <4> QED
        BY <4>2, <4>3
    <3>4. Earned(a) = Amounts(X)
      BY DEF Earned
    <3> HIDE DEF X, Y
    <3>5. Amounts(Y) <= Amounts(X)
      BY <3>2, <3>3, SumMonotone DEF Amounts
    <3>6. Amounts(X) \in Nat /\ Amounts(Y) \in Nat
      BY <2>1, <3>2, AmountsType
    <3> QED
      BY <3>4, <3>5, <3>6 DEF Y
  <2>8. ASSUME NEW m \in Months
        PROVE  /\ (PayoutList(a, m) = {}) = (EntryList(a, {"paid"}, m) = {})
               /\ m \in PayoutList(a, m) => payout[a][m].amount = Amounts(EntryList(a, {"paid"}, m))
    <3>1. m \in PayoutList(a, m) <=> payout[a][m] # NoRow
      BY DEF PayoutList
    <3>2. PayoutList(a, m) \subseteq {m}
      BY MonthsAssumption DEF PayoutList
    <3>3. (PayoutList(a, m) = {}) <=> payout[a][m] = NoRow
      BY <3>1, <3>2
    <3> QED
      BY <1>1, <3>1, <3>3, MonthPaid
  <2>9. Amounts(EntryList(a, {"disputed"}, NoMonth)) = Of({"disputed"})
    OBVIOUS
  <2> HIDE DEF Of
  <2>10. AgentStats(a).commission_pending
           = Summary(a, NoMonth).pending_amount + Summary(a, NoMonth).approved_amount
    BY <2>3, <2>4
  <2>11. SumOf([t \in Transactions(a, NoMonth) |-> t.amount])
           = AgentStats(a).commission_total + Summary(a, NoMonth).paid_amount
    BY <2>3, <2>6
  <2>12. AgentStats(a).commission_total
           = AgentStats(a).commission_pending + Summary(a, NoMonth).paid_amount
               + Amounts(Adjustments(a)) + Amounts(EntryList(a, {"disputed"}, NoMonth))
    BY <2>3, <2>5, <2>9
  <2>13. Earned(a) >= Summary(a, month).paid_amount
    BY <2>3, <2>7
  <2>14. \A m \in Months : m \in PayoutList(a, m) => payout[a][m].amount = Summary(a, m).paid_amount
    BY <2>3, <2>8
  <2> QED
    BY <2>8, <2>10, <2>11, <2>12, <2>13, <2>14
<1>2. PayoutInv => PagesAgree
  <2>1. ASSUME PayoutInv, crossed = {}
        PROVE  /\ PendingAmount = SumOf([a \in Agents |-> AgentStats(a).commission_pending])
               /\ PaidPayout = SumOf([a \in Agents |-> Summary(a, NoMonth).paid_amount])
    BY <2>1, OverviewPending, OverviewPaid DEF PayoutInv
  <2> QED
    BY <1>1, <2>1 DEF PagesAgree
<1> QED
  BY PayoutInvCorrect, <1>2, PTL

\* Both at once: the payouts and the figures of the pages are what the paid
\* entries make them, until two requests for one agent cross.
THEOREM PayoutsAgreeCorrect == Spec => []PayoutsAgree
<1> QED
  BY PayoutExactCorrect, PagesAgreeCorrect, PTL DEF PayoutsAgree

================================================================================
