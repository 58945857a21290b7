------------------------- MODULE Subscription_proofs -------------------------
(***************************************************************************)
(* Proofs about Subscription for any number of subscriptions, payments and *)
(* requests in flight, and any lengths of trial, cycle and grace.          *)
(*                                                                         *)
(* UsableRunsOut is not inductive: handlers write what they computed from  *)
(* a row they read some time ago.  It becomes so once the rows they keep   *)
(* in memory are known to be rows that were once in the database.          *)
(*                                                                         *)
(* With one request of a subscription at a time (SerialSpec) the row in    *)
(* memory differs from the table only by what the task did in between.     *)
(***************************************************************************)
EXTENDS Subscription, TLAPS

\* What a handler keeps in memory runs out, and extend read a subscription.
HandSound(h) ==
  h # NoRequest => RunsOut(h.row) /\ (h.op = "extend" => h.row.status # "absent")

\* The payment a handler keeps was recorded.
HandPaid(h) ==
  h # NoRequest /\ h.op \in {"confirm", "refund"} => pay[h.p].status # "absent"

\* A step deletes no payment.
PayKept == \A p \in Payments : pay[p].status # "absent" => pay'[p].status # "absent"

\* A payment that was recorded belongs to a subscription.
PaymentSound(p) == p.status # "absent" => p.sub \in Subs

DayInv     == today \in Days
RowInv     == row \in [Subs -> Rows] /\ UsableRunsOut
CompanyInv == company \in [Subs -> Companies]
PaymentInv == pay \in [Payments -> PaymentRows] /\ \A p \in Payments : PaymentSound(pay[p])
HandInv    == /\ hand \in [Requests -> Hands \cup {NoRequest}]
              /\ \A r \in Requests : HandSound(hand[r]) /\ HandPaid(hand[r])
TaskInv    == /\ task \in [loop : {"idle", "grace", "expire"}, day : Nat, ids : SUBSET Subs]
              /\ task.day <= today

IInv == DayInv /\ RowInv /\ CompanyInv /\ PaymentInv /\ HandInv /\ TaskInv

\* The strings and sets of the model, opened together.
USE DEF NoDate, Days

-----------------------------------------------------------------------------
\* The functions on rows

\* set_subscription_status gives a row of the wanted status that runs out.
LEMMA MovedSound ==
  ASSUME NEW m \in Rows, NEW st \in SubscriptionStatus \ {"absent"},
         NEW reset \in BOOLEAN, today \in Days, DaysAssumption
  PROVE  LET new == Moved(m, st, reset)
         IN new \in Rows /\ new.status = st /\ new.plan = m.plan /\ RunsOut(new)
<1>1. /\ m.plan \in Plans \cup {NoPlan} /\ m.trialEnd \in Nat /\ m.end \in Nat
      /\ TrialDays \in Nat /\ CycleDays \in Nat /\ GraceDays \in Nat
  BY DEF Rows, DaysAssumption
<1>2. CASE st = "trial"
  BY <1>1, <1>2 DEF Moved, Row, Rows, RunsOut, Usable
<1>3. CASE st = "active"
  BY <1>1, <1>3 DEF Moved, Row, Rows, RunsOut, Usable
<1>4. CASE st = "grace"
  BY <1>1, <1>4 DEF Moved, Row, Rows, RunsOut, Usable
<1>5. CASE st \notin {"trial", "active", "grace"}
  BY <1>1, <1>5 DEF Moved, Row, Rows, RunsOut, Usable
<1> QED BY <1>2, <1>3, <1>4, <1>5

\* So does setup_periods.
LEMMA SetUpSound ==
  ASSUME NEW m \in Rows, NEW st \in SubscriptionStatus \ {"absent"},
         today \in Days, DaysAssumption
  PROVE  LET new == SetUp(m, st)
         IN new \in Rows /\ new.status = st /\ new.plan = m.plan /\ RunsOut(new)
<1>1. /\ m.plan \in Plans \cup {NoPlan} /\ today \in Nat \ {0}
      /\ TrialDays \in Nat /\ CycleDays \in Nat /\ GraceDays \in Nat
  BY DEF Rows, Days, NoDate, DaysAssumption
<1>2. CASE st = "trial"
  BY <1>1, <1>2 DEF SetUp, Row, Rows, RunsOut, Usable, NoDate
<1>3. CASE st = "active"
  BY <1>1, <1>3 DEF SetUp, Row, Rows, RunsOut, Usable, NoDate
<1>4. CASE st = "grace"
  BY <1>1, <1>4 DEF SetUp, Row, Rows, RunsOut, Usable, NoDate
<1>5. CASE st \notin {"trial", "active", "grace"}
  BY <1>1, <1>5 DEF SetUp, Row, Rows, RunsOut, Usable, NoDate
<1> QED BY <1>2, <1>3, <1>4, <1>5

LEMMA NotBeforeDay ==
  ASSUME NEW end \in Nat, today \in Days
  PROVE  NotBefore(end) \in Days
BY DEF NotBefore

\* A renewal gives an active row that runs out.
LEMMA RenewedSound ==
  ASSUME NEW m \in Rows, today \in Days, DaysAssumption
  PROVE  Renewed(m) \in Rows /\ Renewed(m).status = "active" /\ RunsOut(Renewed(m))
<1>1. NotBefore(m.end) + CycleDays \in Nat \ {0}
  BY NotBeforeDay DEF Rows, DaysAssumption
<1> QED BY <1>1 DEF Renewed, Row, Rows, RunsOut, Usable, SubscriptionStatus

\* So does an extension, of a row that did.
LEMMA ExtendedSound ==
  ASSUME NEW m \in Rows, m.status # "absent", RunsOut(m), NEW d \in ExtendBy,
         today \in Days, DaysAssumption
  PROVE  Extended(m, d) \in Rows /\ Extended(m, d).status # "absent"
         /\ RunsOut(Extended(m, d))
<1>1. NotBefore(m.end) + d \in Nat \ {0}
  BY NotBeforeDay DEF Rows, DaysAssumption
<1> QED BY <1>1 DEF Extended, Row, Rows, RunsOut, Usable, SubscriptionStatus

-----------------------------------------------------------------------------
\* Writing rows, companies and hands

LEMMA SaveSound ==
  ASSUME RowInv, NEW s \in Subs, NEW new \in Rows, RunsOut(new),
         Save(s, new) \/ SavePeriod(s, new)
  PROVE  RowInv'
<1>1. row \in [Subs -> Rows] /\ row[s].plan \in Plans \cup {NoPlan}
  BY DEF RowInv, Rows
<1>2. PICK saved \in Rows : RunsOut(saved) /\ row' = [row EXCEPT ![s] = saved]
  <2>1. CASE Save(s, new)
    BY <2>1 DEF Save
  <2>2. CASE SavePeriod(s, new)
    <3>1. [new EXCEPT !.plan = row[s].plan] \in Rows
      BY <1>1 DEF Rows
    <3>2. RunsOut([new EXCEPT !.plan = row[s].plan])
      BY DEF Rows, RunsOut
    <3> QED BY <2>2, <3>1, <3>2 DEF SavePeriod
  <2> QED BY <2>1, <2>2
<1>3. row' \in [Subs -> Rows]
  BY <1>1, <1>2
<1>4. ASSUME NEW x \in Subs PROVE RunsOut(row'[x])
  <2>1. CASE x = s
    BY <1>1, <1>2, <2>1
  <2>2. CASE x # s
    <3>1. row'[x] = row[x]
      BY <1>1, <1>2, <2>2
    <3> QED BY <3>1 DEF RowInv, UsableRunsOut
  <2> QED BY <2>1, <2>2
<1> QED BY <1>3, <1>4 DEF RowInv, UsableRunsOut

LEMMA SyncSound ==
  ASSUME CompanyInv, NEW s \in Subs, NEW new \in Rows, new.status # "absent",
         Sync(s, new)
  PROVE  CompanyInv'
<1>1. CompanyStatusOf(new.status) \in CompanyStatus /\ new.plan \in Plans \cup {NoPlan}
  BY DEF CompanyStatusOf, CompanyStatus, Rows, SubscriptionStatus
<1>2. company[s] \in Companies /\ company \in [Subs -> Companies]
  BY DEF CompanyInv
<1>3. [company[s] EXCEPT !.status = CompanyStatusOf(new.status), !.plan = new.plan]
        \in Companies
  BY <1>1, <1>2 DEF Companies
<1>4. company' = [company EXCEPT ![s] =
        [company[s] EXCEPT !.status = CompanyStatusOf(new.status), !.plan = new.plan]]
  BY <1>2 DEF Sync, CompanyInv, Companies
<1> QED BY <1>2, <1>3, <1>4 DEF CompanyInv

LEMMA SetCompanySound ==
  ASSUME CompanyInv, NEW s \in Subs, NEW st \in CompanyStatus, SetCompany(s, st)
  PROVE  CompanyInv'
<1>1. [company[s] EXCEPT !.status = st] \in Companies
  BY DEF CompanyInv, Companies
<1> QED BY <1>1 DEF CompanyInv, SetCompany

LEMMA DoneSound ==
  ASSUME HandInv, NEW r \in Requests, Done(r), PayKept
  PROVE  HandInv'
<1>1. hand' \in [Requests -> Hands \cup {NoRequest}]
  BY DEF HandInv, Done
<1>2. ASSUME NEW x \in Requests PROVE HandSound(hand'[x])
  BY DEF HandInv, Done, HandSound
<1>3. ASSUME NEW x \in Requests PROVE HandPaid(hand[x])'
  <2>1. CASE x = r
    BY <1>1, <2>1 DEF HandInv, Done, HandPaid
  <2>2. CASE x # r
    <3>1. hand'[x] = hand[x] /\ HandPaid(hand[x])
      BY <2>2 DEF HandInv, Done
    <3>2. hand[x] # NoRequest /\ hand[x].op \in {"confirm", "refund"} => hand[x].p \in Payments
      BY DEF HandInv, Hands
    <3> QED BY <3>1, <3>2 DEF HandPaid, PayKept
  <2> QED BY <2>1, <2>2
<1> QED BY <1>1, <1>2, <1>3 DEF HandInv

\* What a handler in flight has at hand.
LEMMA Memory ==
  ASSUME HandInv, NEW r \in Requests, hand[r] # NoRequest
  PROVE  /\ hand[r].s \in Subs
         /\ hand[r].row \in Rows
         /\ RunsOut(hand[r].row)
         /\ hand[r].op = "extend" => hand[r].row.status # "absent"
         /\ hand[r].op \in {"confirm", "refund"} =>
              hand[r].p \in Payments /\ pay[hand[r].p].status # "absent"
BY DEF HandInv, HandSound, HandPaid, Hands

\* The parts of the invariant an unchanged variable leaves alone.
LEMMA Untouched ==
  ASSUME IInv
  PROVE  /\ UNCHANGED today => DayInv'
         /\ UNCHANGED row => RowInv'
         /\ UNCHANGED company => CompanyInv'
         /\ UNCHANGED pay => PaymentInv'
         /\ UNCHANGED <<pay, hand>> => HandInv'
         /\ UNCHANGED <<today, task>> => TaskInv'
BY DEF IInv, DayInv, RowInv, UsableRunsOut, CompanyInv, PaymentInv, HandInv, HandPaid, TaskInv

\* A handler that writes a sound row, tells the company and is done.
LEMMA WriteSound ==
  ASSUME IInv, NEW r \in Requests, hand[r] # NoRequest,
         NEW new \in Rows, new.status # "absent", RunsOut(new),
         Save(hand[r].s, new) \/ SavePeriod(hand[r].s, new),
         Sync(hand[r].s, new), Done(r), PayKept
  PROVE  RowInv' /\ CompanyInv' /\ HandInv'
<1>1. hand[r].s \in Subs /\ RowInv /\ CompanyInv /\ HandInv
  BY Memory DEF IInv
<1>2. RowInv'
  BY <1>1, SaveSound
<1>3. CompanyInv'
  BY <1>1, SyncSound
<1>4. HandInv'
  BY <1>1, DoneSound
<1> QED BY <1>2, <1>3, <1>4

-----------------------------------------------------------------------------
\* The steps of the handlers

LEMMA LoadStep ==
  ASSUME IInv, NEW r \in Requests, NEW op \in Ops, NEW s \in Subs, Load(r, op, s)
  PROVE  IInv'
<1>1. op \notin {"confirm", "refund"}
  BY DEF Load, Accepts
<1>2. row[s] \in Rows /\ RunsOut(row[s])
  BY DEF IInv, RowInv, UsableRunsOut
<1>3. op = "extend" => row[s].status # "absent"
  BY DEF Load, Accepts
<1> DEFINE h == [op |-> op, s |-> s, row |-> row[s]]
<1>4. h \in Hands
  BY <1>1, <1>2 DEF Hands
<1>5. HandSound(h) /\ HandPaid(h)
  BY <1>1, <1>2, <1>3 DEF HandSound, HandPaid
<1>6. hand' = [hand EXCEPT ![r] = h] /\ UNCHANGED pay
  BY DEF Load
<1> HIDE DEF h
<1>7. HandInv'
  BY <1>4, <1>5, <1>6 DEF IInv, HandInv, HandPaid
<1> QED BY <1>7, Untouched DEF Load, IInv

LEMMA LoadPaymentStep ==
  ASSUME IInv, NEW r \in Requests, NEW op \in Ops, NEW p \in Payments,
         LoadPayment(r, op, p)
  PROVE  IInv'
<1>1. op \in {"confirm", "refund"} /\ pay[p].status # "absent"
  BY DEF LoadPayment
<1>2. pay[p].sub \in Subs
  BY <1>1 DEF IInv, PaymentInv, PaymentSound
<1>3. row[pay[p].sub] \in Rows /\ RunsOut(row[pay[p].sub])
  BY <1>2 DEF IInv, RowInv, UsableRunsOut
<1> DEFINE h == [op |-> op, s |-> pay[p].sub, row |-> row[pay[p].sub], p |-> p]
<1>4. h \in Hands
  BY <1>1, <1>2, <1>3 DEF Hands
<1>5. HandSound(h) /\ HandPaid(h)
  BY <1>1, <1>3 DEF HandSound, HandPaid
<1>6. hand' = [hand EXCEPT ![r] = h] /\ UNCHANGED pay
  BY DEF LoadPayment
<1> HIDE DEF h
<1>7. HandInv'
  BY <1>4, <1>5, <1>6 DEF IInv, HandInv, HandPaid
<1> QED BY <1>7, Untouched DEF LoadPayment, IInv

LEMMA AbandonStep ==
  ASSUME IInv, NEW r \in Requests, Abandon(r)
  PROVE  IInv'
<1>1. HandInv'
  BY DoneSound DEF IInv, Abandon, PayKept
<1> QED BY <1>1, Untouched DEF Abandon, IInv

LEMMA CreateStep ==
  ASSUME IInv, DaysAssumption, NEW r \in Requests, Create(r)
  PROVE  IInv'
<1>1. hand[r] # NoRequest /\ Done(r) /\ PayKept /\ today \in Days
  BY DEF Create, Writing, IInv, DayInv, PayKept
<1>2. PICK plan \in Plans, status \in {"trial", "active"} :
        LET new == SetUp([NoRow EXCEPT !.plan = plan], status)
        IN Save(hand[r].s, new) /\ Sync(hand[r].s, new)
  BY DEF Create
<1>3. [NoRow EXCEPT !.plan = plan] \in Rows
  BY DEF NoRow, Row, Rows, SubscriptionStatus
<1>4. status \in SubscriptionStatus \ {"absent"}
  BY DEF SubscriptionStatus
<1> DEFINE new == SetUp([NoRow EXCEPT !.plan = plan], status)
<1>5. new \in Rows /\ new.status # "absent" /\ RunsOut(new)
  BY <1>1, <1>3, <1>4, SetUpSound
<1>6. Save(hand[r].s, new) /\ Sync(hand[r].s, new)
  BY <1>2
<1> HIDE DEF new
<1>7. RowInv' /\ CompanyInv' /\ HandInv'
  BY <1>1, <1>5, <1>6, WriteSound
<1> QED BY <1>7, Untouched DEF Create, IInv

LEMMA UpgradeStep ==
  ASSUME IInv, DaysAssumption, NEW r \in Requests, Upgrade(r)
  PROVE  IInv'
<1>1. hand[r] # NoRequest /\ Done(r) /\ PayKept /\ today \in Days
  BY DEF Upgrade, Writing, IInv, DayInv, PayKept
<1>2. PICK plan \in Plans :
        LET new == SetUp([hand[r].row EXCEPT !.plan = plan], "active")
        IN Save(hand[r].s, new) /\ Sync(hand[r].s, new)
  BY DEF Upgrade
<1>3. [hand[r].row EXCEPT !.plan = plan] \in Rows
  BY <1>1, Memory DEF Rows, IInv
<1>4. "active" \in SubscriptionStatus \ {"absent"}
  BY DEF SubscriptionStatus
<1> DEFINE new == SetUp([hand[r].row EXCEPT !.plan = plan], "active")
<1>5. new \in Rows /\ new.status # "absent" /\ RunsOut(new)
  BY <1>1, <1>3, <1>4, SetUpSound
<1>6. Save(hand[r].s, new) /\ Sync(hand[r].s, new)
  BY <1>2
<1> HIDE DEF new
<1>7. RowInv' /\ CompanyInv' /\ HandInv'
  BY <1>1, <1>5, <1>6, WriteSound
<1> QED BY <1>7, Untouched DEF Upgrade, IInv

LEMMA ExtendStep ==
  ASSUME IInv, DaysAssumption, NEW r \in Requests, Extend(r)
  PROVE  IInv'
<1>1. hand[r] # NoRequest /\ hand[r].op = "extend" /\ Done(r) /\ PayKept /\ today \in Days
  BY DEF Extend, Writing, IInv, DayInv, PayKept
<1>2. PICK d \in ExtendBy :
        /\ SavePeriod(hand[r].s, Extended(hand[r].row, d))
        /\ Sync(hand[r].s, Extended(hand[r].row, d))
  BY DEF Extend
<1>3. hand[r].row \in Rows /\ hand[r].row.status # "absent" /\ RunsOut(hand[r].row)
  BY <1>1, Memory DEF IInv
<1>4. Extended(hand[r].row, d) \in Rows /\ Extended(hand[r].row, d).status # "absent"
      /\ RunsOut(Extended(hand[r].row, d))
  BY <1>1, <1>3, ExtendedSound
<1>5. RowInv' /\ CompanyInv' /\ HandInv'
  BY <1>1, <1>2, <1>4, WriteSound
<1> QED BY <1>5, Untouched DEF Extend, IInv

\* What the company's own endpoints do when there is a subscription.
LEMMA MoveStep ==
  ASSUME IInv, DaysAssumption, NEW r \in Requests, hand[r] # NoRequest,
         NEW st \in SubscriptionStatus \ {"absent"}, NEW reset \in BOOLEAN,
         LET new == Moved(hand[r].row, st, reset)
         IN (Save(hand[r].s, new) \/ SavePeriod(hand[r].s, new)) /\ Sync(hand[r].s, new),
         Done(r), PayKept
  PROVE  RowInv' /\ CompanyInv' /\ HandInv'
<1> DEFINE new == Moved(hand[r].row, st, reset)
<1>1. hand[r].row \in Rows /\ today \in Days
  BY Memory DEF IInv, DayInv
<1>2. new \in Rows /\ new.status # "absent" /\ RunsOut(new)
  BY <1>1, MovedSound
<1>3. (Save(hand[r].s, new) \/ SavePeriod(hand[r].s, new)) /\ Sync(hand[r].s, new)
  OBVIOUS
<1> HIDE DEF new
<1> QED BY <1>2, <1>3, WriteSound

\* cancel and reactivate.
LEMMA FreshStep ==
  ASSUME IInv, DaysAssumption, NEW r \in Requests, hand[r] # NoRequest,
         NEW st \in SubscriptionStatus \ {"absent"},
         LET new == SetUp(hand[r].row, st) IN SavePeriod(hand[r].s, new) /\ Sync(hand[r].s, new),
         Done(r), PayKept
  PROVE  RowInv' /\ CompanyInv' /\ HandInv'
<1> DEFINE new == SetUp(hand[r].row, st)
<1>1. hand[r].row \in Rows /\ today \in Days
  BY Memory DEF IInv, DayInv
<1>2. new \in Rows /\ new.status # "absent" /\ RunsOut(new)
  BY <1>1, SetUpSound
<1>3. SavePeriod(hand[r].s, new) /\ Sync(hand[r].s, new)
  OBVIOUS
<1> HIDE DEF new
<1> QED BY <1>2, <1>3, WriteSound

LEMMA CancelStep ==
  ASSUME IInv, DaysAssumption, NEW r \in Requests, Cancel(r)
  PROVE  IInv'
<1>1. RowInv' /\ CompanyInv' /\ HandInv'
  BY FreshStep DEF Cancel, Writing, SubscriptionStatus, PayKept
<1> QED BY <1>1, Untouched DEF Cancel, IInv

LEMMA ReactivateStep ==
  ASSUME IInv, DaysAssumption, NEW r \in Requests, Reactivate(r)
  PROVE  IInv'
<1>1. RowInv' /\ CompanyInv' /\ HandInv'
  BY FreshStep DEF Reactivate, Writing, SubscriptionStatus, PayKept
<1> QED BY <1>1, Untouched DEF Reactivate, IInv

LEMMA MoveCompanyStep ==
  ASSUME IInv, DaysAssumption, NEW r \in Requests, hand[r] # NoRequest,
         NEW st \in CompanyStatus \ {"pending"}, NEW reset \in BOOLEAN,
         MoveCompany(r, st, reset)
  PROVE  IInv'
<1>1. Done(r) /\ PayKept /\ UNCHANGED <<today, pay, task>>
  BY DEF MoveCompany, PayKept
<1>2. RowInv' /\ CompanyInv' /\ HandInv'
  <2>1. CASE hand[r].row.status = "absent"
    <3>1. SetCompany(hand[r].s, st) /\ UNCHANGED row
      BY <2>1 DEF MoveCompany
    <3>2. CompanyInv'
      BY <3>1, Memory, SetCompanySound DEF IInv
    <3>3. HandInv'
      BY <1>1, DoneSound DEF IInv
    <3> QED BY <3>1, <3>2, <3>3, Untouched
  <2>2. CASE hand[r].row.status # "absent"
    <3>1. st \in SubscriptionStatus \ {"absent"}
      BY DEF CompanyStatus, SubscriptionStatus
    <3>2. Save(hand[r].s, Moved(hand[r].row, st, reset))
          /\ Sync(hand[r].s, Moved(hand[r].row, st, reset))
      BY <2>2 DEF MoveCompany
    <3> QED BY <1>1, <3>1, <3>2, MoveStep
  <2> QED BY <2>1, <2>2
<1> QED BY <1>1, <1>2, Untouched DEF IInv

LEMMA UpdateStatusStep ==
  ASSUME IInv, DaysAssumption, NEW r \in Requests, UpdateStatus(r)
  PROVE  IInv'
<1>1. hand[r] # NoRequest
  BY DEF UpdateStatus, Writing
<1>2. CASE \E st \in CompanyStatus \ {"pending"} : MoveCompany(r, st, st = "active")
  <2>1. PICK st \in CompanyStatus \ {"pending"} : MoveCompany(r, st, st = "active")
    BY <1>2
  <2>2. (st = "active") \in BOOLEAN
    OBVIOUS
  <2> QED BY <1>1, <2>1, <2>2, MoveCompanyStep
<1>3. CASE SetCompany(hand[r].s, "pending") /\ Done(r) /\ UNCHANGED <<today, row, pay, task>>
  <2>1. CompanyInv'
    BY <1>1, <1>3, Memory, SetCompanySound DEF IInv, CompanyStatus
  <2>2. HandInv'
    BY <1>3, DoneSound DEF IInv, PayKept
  <2> QED BY <1>3, <2>1, <2>2, Untouched DEF IInv
<1> QED BY <1>2, <1>3 DEF UpdateStatus

LEMMA SuspendStep ==
  ASSUME IInv, DaysAssumption, NEW r \in Requests, Suspend(r)
  PROVE  IInv'
BY MoveCompanyStep DEF Suspend, Writing, CompanyStatus

LEMMA ActivateStep ==
  ASSUME IInv, DaysAssumption, NEW r \in Requests, Activate(r)
  PROVE  IInv'
BY MoveCompanyStep DEF Activate, Writing, CompanyStatus

\* Whatever status the row has by now, the two dates are days.
LEMMA ExtendTrialStep ==
  ASSUME IInv, DaysAssumption, NEW r \in Requests, ExtendTrial(r)
  PROVE  IInv'
<1>1. hand[r] # NoRequest /\ Done(r) /\ PayKept /\ today \in Days
      /\ UNCHANGED <<today, company, pay, task>>
  BY DEF ExtendTrial, Writing, IInv, DayInv, PayKept
<1>2. hand[r].s \in Subs /\ hand[r].row.trialEnd \in Nat
  BY <1>1, Memory DEF IInv, Rows
<1>3. PICK end \in Nat \ {0} :
        row' = [row EXCEPT ![hand[r].s].trialEnd = end, ![hand[r].s].end = end]
  <2>1. PICK d \in ExtendBy :
          row' = [row EXCEPT
            ![hand[r].s].trialEnd =
              (IF hand[r].row.trialEnd = NoDate THEN today ELSE hand[r].row.trialEnd) + d,
            ![hand[r].s].end =
              (IF hand[r].row.trialEnd = NoDate THEN today ELSE hand[r].row.trialEnd) + d]
    BY DEF ExtendTrial
  <2>2. (IF hand[r].row.trialEnd = NoDate THEN today ELSE hand[r].row.trialEnd) + d
          \in Nat \ {0}
    BY <1>1, <1>2 DEF DaysAssumption
  <2> QED BY <2>1, <2>2
<1>4. row \in [Subs -> Rows] /\ row[hand[r].s] \in Rows /\ RunsOut(row[hand[r].s])
  BY <1>2 DEF IInv, RowInv, UsableRunsOut
<1> DEFINE new == [row[hand[r].s] EXCEPT !.trialEnd = end, !.end = end]
<1>5. new \in Rows /\ RunsOut(new)
  BY <1>4 DEF Rows, RunsOut
<1>6. row' = [row EXCEPT ![hand[r].s] = new]
  BY <1>2, <1>3, <1>4 DEF Rows
<1> HIDE DEF new
<1>7. RowInv'
  BY <1>2, <1>5, <1>6, SaveSound DEF Save, IInv
<1>8. HandInv'
  BY <1>1, DoneSound DEF IInv
<1> QED BY <1>1, <1>7, <1>8, Untouched DEF IInv

LEMMA DestroyStep ==
  ASSUME IInv, NEW r \in Requests, Destroy(r)
  PROVE  IInv'
<1>1. hand[r] # NoRequest /\ Done(r) /\ PayKept /\ UNCHANGED <<today, row, pay, task>>
  BY DEF Destroy, Writing, PayKept
<1>2. hand[r].s \in Subs
  BY <1>1, Memory DEF IInv
<1>3. company \in [Subs -> Companies] /\ company[hand[r].s] \in Companies
  BY <1>2 DEF IInv, CompanyInv
<1> DEFINE new == [company[hand[r].s] EXCEPT !.status = "expired", !.deleted = TRUE]
<1>4. new \in Companies
  BY <1>3 DEF Companies, CompanyStatus
<1>5. company' = [company EXCEPT ![hand[r].s] = new]
  BY <1>2, <1>3 DEF Destroy, Companies
<1>6. CompanyInv'
  BY <1>3, <1>4, <1>5 DEF CompanyInv
<1>7. HandInv'
  BY <1>1, DoneSound DEF IInv
<1> QED BY <1>1, <1>6, <1>7, Untouched DEF IInv

-----------------------------------------------------------------------------
\* The steps about payments

LEMMA CreatePaymentStep ==
  ASSUME IInv, NEW p \in Payments, NEW s \in Subs, CreatePayment(p, s)
  PROVE  IInv'
<1> DEFINE new == [status |-> "pending", sub |-> s]
<1>1. pay \in [Payments -> PaymentRows] /\ new \in PaymentRows
  BY DEF IInv, PaymentInv, PaymentRows, PaymentStatus
<1>2. pay' = [pay EXCEPT ![p] = new]
  BY DEF CreatePayment
<1>3. ASSUME NEW x \in Payments PROVE PaymentSound(pay'[x])
  BY <1>1, <1>2 DEF IInv, PaymentInv, PaymentSound
<1>4. PaymentInv'
  BY <1>1, <1>2, <1>3 DEF PaymentInv
<1>5. HandInv'
  <2>1. ASSUME NEW x \in Requests PROVE HandPaid(hand[x])'
    <3>1. HandPaid(hand[x]) /\ UNCHANGED hand
      BY DEF IInv, HandInv, CreatePayment
    <3>2. hand[x] # NoRequest /\ hand[x].op \in {"confirm", "refund"} => hand[x].p \in Payments
      BY DEF IInv, HandInv, Hands
    <3> QED BY <1>1, <1>2, <3>1, <3>2 DEF HandPaid
  <2> QED BY <2>1 DEF IInv, HandInv, CreatePayment
<1> QED BY <1>4, <1>5, Untouched DEF CreatePayment, IInv

\* A payment's status changes, its subscription does not.
LEMMA PayStatusSound ==
  ASSUME PaymentInv, NEW p \in Payments, NEW st \in PaymentStatus \ {"absent"},
         pay[p].status # "absent",
         pay' = [pay EXCEPT ![p].status = st]
  PROVE  PaymentInv' /\ PayKept
<1> DEFINE new == [pay[p] EXCEPT !.status = st]
<1>1. pay \in [Payments -> PaymentRows] /\ new \in PaymentRows
  BY DEF PaymentInv, PaymentRows
<1>2. pay' = [pay EXCEPT ![p] = new] /\ new.sub = pay[p].sub
  BY DEF PaymentInv, PaymentRows
<1>3. ASSUME NEW x \in Payments PROVE PaymentSound(pay'[x])
  <2>1. CASE x = p
    BY <1>1, <1>2, <2>1 DEF PaymentInv, PaymentSound
  <2>2. CASE x # p
    BY <1>1, <1>2, <2>2 DEF PaymentInv, PaymentSound
  <2> QED BY <2>1, <2>2
<1>4. PayKept
  BY <1>1, <1>2 DEF PayKept
<1> QED BY <1>1, <1>2, <1>3, <1>4 DEF PaymentInv

LEMMA ConfirmStep ==
  ASSUME IInv, DaysAssumption, NEW r \in Requests, Confirm(r)
  PROVE  IInv'
<1>1. /\ hand[r] # NoRequest /\ hand[r].op = "confirm"
      /\ SavePeriod(hand[r].s, Renewed(hand[r].row))
      /\ Sync(hand[r].s, Renewed(hand[r].row))
      /\ pay' = [pay EXCEPT ![hand[r].p].status = "succeeded"]
      /\ Done(r) /\ UNCHANGED <<today, task>>
  BY DEF Confirm, Writing
<1>2. hand[r].row \in Rows /\ hand[r].p \in Payments /\ pay[hand[r].p].status # "absent"
  BY <1>1, Memory DEF IInv
<1>3. Renewed(hand[r].row) \in Rows /\ Renewed(hand[r].row).status # "absent"
      /\ RunsOut(Renewed(hand[r].row))
  BY <1>2, RenewedSound DEF IInv, DayInv
<1>4. PaymentInv' /\ PayKept
  <2>1. "succeeded" \in PaymentStatus \ {"absent"} /\ PaymentInv
    BY DEF IInv, PaymentStatus
  <2> QED BY <1>1, <1>2, <2>1, PayStatusSound
<1>5. RowInv' /\ CompanyInv' /\ HandInv'
  BY <1>1, <1>3, <1>4, WriteSound
<1> QED BY <1>1, <1>4, <1>5, Untouched DEF IInv

LEMMA RefundStep ==
  ASSUME IInv, NEW r \in Requests, Refund(r)
  PROVE  IInv'
<1>1. /\ hand[r] # NoRequest /\ hand[r].op = "refund" /\ Done(r)
      /\ pay' = [pay EXCEPT ![hand[r].p].status = "refunded"]
      /\ UNCHANGED <<today, row, company, task>>
  BY DEF Refund, Writing
<1>2. hand[r].p \in Payments /\ pay[hand[r].p].status # "absent"
  BY <1>1, Memory DEF IInv
<1>3. PaymentInv' /\ PayKept
  <2>1. "refunded" \in PaymentStatus \ {"absent"} /\ PaymentInv
    BY DEF IInv, PaymentStatus
  <2> QED BY <1>1, <1>2, <2>1, PayStatusSound
<1>4. HandInv'
  BY <1>1, <1>3, DoneSound DEF IInv
<1> QED BY <1>1, <1>3, <1>4, Untouched DEF IInv

-----------------------------------------------------------------------------
\* The steps of the task and of the calendar

LEMMA TaskStartStep ==
  ASSUME IInv, TaskStart
  PROVE  IInv'
<1>1. {s \in Subs : Elapsed(s, today)} \in SUBSET Subs /\ today \in Days
  BY DEF IInv, DayInv
<1>2. task' = [loop |-> "grace", day |-> today, ids |-> {s \in Subs : Elapsed(s, today)}]
      /\ UNCHANGED today
  BY DEF TaskStart
<1> DEFINE I == {s \in Subs : Elapsed(s, today)}
<1>3. task' = [loop |-> "grace", day |-> today, ids |-> I] /\ I \in SUBSET Subs
  BY <1>1, <1>2
<1> HIDE DEF I
<1>4. TaskInv'
  BY <1>1, <1>2, <1>3 DEF TaskInv
<1> QED BY <1>4, Untouched DEF TaskStart, IInv

\* The task goes on with other ids.
LEMMA TaskGoesOn ==
  ASSUME TaskInv, UNCHANGED today, NEW loop \in {"grace", "expire"}, NEW ids \in SUBSET Subs,
         task' = [task EXCEPT !.loop = loop, !.ids = ids]
  PROVE  TaskInv'
BY DEF TaskInv

LEMMA TaskNextLoopStep ==
  ASSUME IInv, TaskNextLoop
  PROVE  IInv'
<1> DEFINE I == {s \in Subs : GraceOver(s, task.day)}
<1>1. I \in SUBSET Subs /\ task' = [task EXCEPT !.loop = "expire", !.ids = I]
      /\ UNCHANGED today
  BY DEF TaskNextLoop
<1> HIDE DEF I
<1>2. TaskInv'
  BY <1>1, TaskGoesOn DEF IInv
<1> QED BY <1>2, Untouched DEF TaskNextLoop, IInv

LEMMA TaskIdle ==
  ASSUME IInv, task' = Idle, UNCHANGED <<today, row, company, pay, hand>>
  PROVE  IInv'
<1>1. today \in Days
  BY DEF IInv, DayInv
<1>2. TaskInv'
  BY <1>1 DEF TaskInv, Idle
<1> QED BY <1>2, Untouched DEF IInv

LEMMA TaskMoveSound ==
  ASSUME IInv, DaysAssumption, NEW s \in Subs, NEW st \in SubscriptionStatus \ {"absent"},
         TaskMove(s, st)
  PROVE  RowInv' /\ CompanyInv'
<1> DEFINE new == Moved(row[s], st, FALSE)
<1>1. row[s] \in Rows /\ today \in Days
  BY DEF IInv, RowInv, DayInv
<1>2. new \in Rows /\ new.status # "absent" /\ RunsOut(new)
  BY <1>1, MovedSound
<1>3. Save(s, new) /\ Sync(s, new)
  BY DEF TaskMove
<1> HIDE DEF new
<1>4. RowInv'
  BY <1>2, <1>3, SaveSound DEF IInv
<1>5. CompanyInv'
  BY <1>2, <1>3, SyncSound DEF IInv
<1> QED BY <1>4, <1>5

LEMMA TaskGraceStep ==
  ASSUME IInv, DaysAssumption, NEW s \in Subs, TaskGrace(s)
  PROVE  IInv'
<1>1. RowInv' /\ CompanyInv'
  <2>1. CASE Elapsed(s, task.day)
    BY <2>1, TaskMoveSound DEF TaskGrace, SubscriptionStatus
  <2>2. CASE ~Elapsed(s, task.day)
    BY <2>2, Untouched DEF TaskGrace
  <2> QED BY <2>1, <2>2
<1>2. TaskInv'
  BY DEF IInv, TaskInv, TaskGrace
<1> QED BY <1>1, <1>2, Untouched DEF TaskGrace, IInv

LEMMA TaskExpireStep ==
  ASSUME IInv, DaysAssumption, NEW s \in Subs, TaskExpire(s)
  PROVE  IInv'
<1>1. RowInv' /\ CompanyInv'
  <2>1. CASE GraceOver(s, task.day)
    BY <2>1, TaskMoveSound DEF TaskExpire, SubscriptionStatus
  <2>2. CASE ~GraceOver(s, task.day)
    BY <2>2, Untouched DEF TaskExpire
  <2> QED BY <2>1, <2>2
<1>2. TaskInv'
  BY DEF IInv, TaskInv, TaskExpire
<1> QED BY <1>1, <1>2, Untouched DEF TaskExpire, IInv

LEMMA TickStep ==
  ASSUME IInv, Tick
  PROVE  IInv'
<1>1. DayInv' /\ TaskInv'
  BY DEF IInv, DayInv, TaskInv, Tick
<1> QED BY <1>1, Untouched DEF Tick, IInv

-----------------------------------------------------------------------------
\* The invariant

LEMMA InitInv ==
  ASSUME DaysAssumption, Init
  PROVE  IInv
<1>1. NoRow \in Rows /\ RunsOut(NoRow)
  BY DEF NoRow, Row, Rows, RunsOut, SubscriptionStatus, Usable
<1>2. RowInv
  BY <1>1 DEF Init, RowInv, UsableRunsOut
<1>3. CompanyInv
  BY DEF Init, CompanyInv, Companies, CompanyStatus
<1>4. PaymentInv
  BY DEF Init, PaymentInv, PaymentSound, PaymentRows, PaymentStatus
<1>5. HandInv
  BY DEF Init, HandInv, HandSound, HandPaid
<1>6. DayInv /\ TaskInv
  BY DEF Init, DayInv, TaskInv, Idle
<1> QED BY <1>2, <1>3, <1>4, <1>5, <1>6 DEF IInv

LEMMA HandleStep ==
  ASSUME IInv, DaysAssumption, NEW r \in Requests, Handle(r)
  PROVE  IInv'
BY LoadStep, LoadPaymentStep, AbandonStep, CreateStep, UpgradeStep, ExtendStep,
   CancelStep, ReactivateStep, UpdateStatusStep, SuspendStep, ActivateStep,
   ExtendTrialStep, DestroyStep, ConfirmStep, RefundStep DEF Handle

LEMMA TaskStep ==
  ASSUME IInv, DaysAssumption, Task
  PROVE  IInv'
<1>1. CASE TaskEnd \/ TaskAbort
  BY <1>1, TaskIdle DEF TaskEnd, TaskAbort
<1> QED BY <1>1, TaskStartStep, TaskNextLoopStep, TaskGraceStep, TaskExpireStep DEF Task

LEMMA InvariantStep ==
  ASSUME IInv, DaysAssumption, [Next]_vars
  PROVE  IInv'
<1>1. CASE UNCHANGED vars
  BY <1>1, Untouched DEF vars, IInv
<1> QED BY <1>1, HandleStep, CreatePaymentStep, TaskStep, TickStep DEF Next

LEMMA Invariance == Spec => []IInv
<1>1. Init => IInv
  BY InitInv, DaysAssumption
<1>2. IInv /\ [Next]_vars => IInv'
  BY InvariantStep, DaysAssumption
<1> QED BY <1>1, <1>2, PTL DEF Spec

\* Every reachable state is well typed, whatever requests are in flight.
THEOREM TypeCorrect == Spec => []TypeOK
<1>1. IInv => TypeOK
  BY DEF IInv, DayInv, RowInv, CompanyInv, PaymentInv, HandInv, TaskInv, TypeOK
<1> QED BY <1>1, Invariance, PTL

\* A subscription that can be used runs out, with any number of endpoints and
\* a task in flight that overwrite each other's rows.
THEOREM UsableCorrect == Spec => []UsableRunsOut
<1>1. IInv => UsableRunsOut
  BY DEF IInv, RowInv
<1> QED BY <1>1, Invariance, PTL

\* The task writes only rows that have elapsed by today, by the query of its
\* loop evaluated again under the lock.
LEMMA TaskSpares ==
  ASSUME IInv, Next, task' # task, NEW s \in Subs,
         ~Elapsed(s, today), ~GraceOver(s, today)
  PROVE  row'[s] = row[s]
<1>1. row \in [Subs -> Rows] /\ today \in Nat /\ task.day \in Nat /\ task.day <= today
  BY DEF IInv, RowInv, TaskInv, DayInv
<1>2. ASSUME NEW x \in Subs, TaskGrace(x) PROVE row'[s] = row[s]
  <2>1. CASE x = s
    <3>1. ~Elapsed(s, task.day)
      BY <1>1 DEF Elapsed, Lapsed, Rows
    <3> QED BY <1>2, <2>1, <3>1 DEF TaskGrace
  <2>2. CASE x # s
    BY <1>1, <1>2, <2>2 DEF TaskGrace, TaskMove, Save
  <2> QED BY <2>1, <2>2
<1>3. ASSUME NEW x \in Subs, TaskExpire(x) PROVE row'[s] = row[s]
  <2>1. CASE x = s
    <3>1. ~GraceOver(s, task.day)
      BY <1>1 DEF GraceOver, Lapsed, Rows
    <3> QED BY <1>3, <2>1, <3>1 DEF TaskExpire
  <2>2. CASE x # s
    BY <1>1, <1>3, <2>2 DEF TaskExpire, TaskMove, Save
  <2> QED BY <2>1, <2>2
<1>4. ASSUME NEW r \in Requests, Handle(r) PROVE UNCHANGED task
  BY <1>4 DEF Handle, Load, LoadPayment, Abandon, Create, Upgrade, Extend, Cancel,
     Reactivate, UpdateStatus, Suspend, Activate, MoveCompany, ExtendTrial, Destroy,
     Confirm, Refund
<1>5. CASE Task
  BY <1>2, <1>3, <1>5 DEF Task, TaskStart, TaskNextLoop, TaskEnd, TaskAbort
<1> QED BY <1>4, <1>5 DEF Next, CreatePayment, Tick

\* The task leaves alone what was renewed, extended or cancelled after it
\* collected its ids.
THEOREM TaskSpareCorrect == Spec => TaskSparesRenewed
<1>1. IInv /\ [Next]_vars =>
        [\A s \in Subs :
           ~Elapsed(s, today) /\ ~GraceOver(s, today) /\ task' # task => row'[s] = row[s]]_vars
  BY TaskSpares
<1> QED BY <1>1, Invariance, PTL DEF Spec, TaskSparesRenewed


-----------------------------------------------------------------------------
\* One request at a time for a subscription, with the task between its read and
\* its write.

\* What a request of the subscription has read is still its plan, and its end
\* unless the task has ended the period.
ReadNow(r) ==
  hand[r] # NoRequest =>
    /\ hand[r].row.plan = row[hand[r].s].plan
    /\ hand[r].row.status = "absent" <=> row[hand[r].s].status = "absent"
    /\ row[hand[r].s].end \in {NoDate, hand[r].row.end}
    /\ hand[r].op \in {"confirm", "refund"} => pay[hand[r].p].sub = hand[r].s

Follows(s) ==
  row[s].status # "absent" =>
    /\ company[s].plan = row[s].plan
    /\ \/ company[s].deleted \/ company[s].status = "pending"
       \/ company[s].status = CompanyStatusOf(row[s].status)

SerialInv ==
  /\ IInv /\ OneAtATime
  /\ \A s \in Subs : Follows(s)
  /\ \A r \in Requests : ReadNow(r)

\* No step moves a recorded payment to another subscription.
SubKept == \A p \in Payments : pay[p].status # "absent" => pay'[p].sub = pay[p].sub

\* What a request has read stays what it was while others do something else.
LEMMA ReadStays ==
  ASSUME SerialInv, NEW r \in Requests, hand'[r] = hand[r], SubKept,
         hand[r] # NoRequest => row'[hand[r].s] = row[hand[r].s]
  PROVE  ReadNow(r)'
<1>1. ReadNow(r) /\ HandInv
  BY DEF SerialInv, IInv
<1>2. hand[r] # NoRequest /\ hand[r].op \in {"confirm", "refund"} =>
        hand[r].p \in Payments /\ pay[hand[r].p].status # "absent"
  BY <1>1, Memory
<1> QED BY <1>1, <1>2 DEF ReadNow, SubKept

\* A request that is done, having touched its own subscription at most.
LEMMA OthersRead ==
  ASSUME SerialInv, NEW r \in Requests, hand[r] # NoRequest, Done(r), SubKept,
         \A s \in Subs : s # hand[r].s => row'[s] = row[s]
  PROVE  \A q \in Requests : ReadNow(q)'
<1> SUFFICES ASSUME NEW q \in Requests PROVE ReadNow(q)'
  OBVIOUS
<1>1. HandInv /\ OneAtATime
  BY DEF SerialInv, IInv
<1>2. hand \in [Requests -> Hands \cup {NoRequest}]
  BY <1>1 DEF HandInv
<1>3. CASE q = r
  BY <1>2, <1>3 DEF Done, ReadNow
<1>4. CASE q # r
  <2>1. hand'[q] = hand[q]
    BY <1>2, <1>4 DEF Done
  <2>2. hand[q] # NoRequest => hand[q].s \in Subs /\ hand[q].s # hand[r].s
    BY <1>1, <1>4, Memory DEF OneAtATime
  <2> QED BY <2>1, <2>2, ReadStays
<1> QED BY <1>3, <1>4

\* It saves a row with the plan it read, or all columns, and tells the company.
LEMMA WriteFollows ==
  ASSUME SerialInv, NEW r \in Requests, hand[r] # NoRequest, Done(r), SubKept,
         NEW new \in Rows,
         \/ Save(hand[r].s, new)
         \/ SavePeriod(hand[r].s, new) /\ new.plan = hand[r].row.plan,
         Sync(hand[r].s, new)
  PROVE  (\A s \in Subs : Follows(s)') /\ \A q \in Requests : ReadNow(q)'
<1>0. PICK x \in Subs : x = hand[r].s
  BY Memory DEF SerialInv, IInv
<1>1. /\ row \in [Subs -> Rows] /\ company \in [Subs -> Companies]
      /\ hand[r].row.plan = row[x].plan
  BY <1>0 DEF SerialInv, IInv, RowInv, CompanyInv, ReadNow
<1>2. \A s \in Subs : s # x => row'[s] = row[s] /\ company'[s] = company[s]
  BY <1>0, <1>1 DEF Save, SavePeriod, Sync
<1>3. row'[x].status = new.status /\ row'[x].plan = new.plan
  <2>1. CASE Save(hand[r].s, new)
    BY <1>0, <1>1, <2>1 DEF Save
  <2>2. CASE SavePeriod(hand[r].s, new) /\ new.plan = hand[r].row.plan
    <3>1. row' = [row EXCEPT ![x] = [new EXCEPT !.plan = row[x].plan]]
      BY <1>0, <2>2 DEF SavePeriod
    <3>2. /\ [new EXCEPT !.plan = row[x].plan].status = new.status
          /\ [new EXCEPT !.plan = row[x].plan].plan = row[x].plan
      BY DEF Rows
    <3>3. row'[x] = [new EXCEPT !.plan = row[x].plan]
      BY <1>1, <3>1
    <3> QED BY <1>1, <2>2, <3>2, <3>3
  <2> QED BY <2>1, <2>2
<1>4. company'[x].status = CompanyStatusOf(new.status) /\ company'[x].plan = new.plan
  <2>1. company[x] \in Companies
    BY <1>1
  <2>2. company' = [company EXCEPT ![x] =
          [company[x] EXCEPT !.status = CompanyStatusOf(new.status), !.plan = new.plan]]
    BY <1>0, <2>1 DEF Sync, Companies
  <2>3. /\ [company[x] EXCEPT !.status = CompanyStatusOf(new.status), !.plan = new.plan].status
             = CompanyStatusOf(new.status)
        /\ [company[x] EXCEPT !.status = CompanyStatusOf(new.status), !.plan = new.plan].plan
             = new.plan
    BY <2>1 DEF Companies
  <2> QED BY <1>1, <2>2, <2>3
<1>5. ASSUME NEW s \in Subs PROVE Follows(s)'
  <2>1. CASE s = x
    BY <1>3, <1>4, <2>1 DEF Follows
  <2>2. CASE s # x
    BY <1>2, <2>2 DEF Follows, SerialInv
  <2> QED BY <2>1, <2>2
<1>6. \A q \in Requests : ReadNow(q)'
  BY <1>0, <1>2, OthersRead
<1> QED BY <1>5, <1>6

\* The same for a company's own endpoints.
LEMMA MoveFollows ==
  ASSUME SerialInv, DaysAssumption, NEW r \in Requests, hand[r] # NoRequest,
         NEW st \in CompanyStatus \ {"pending"}, NEW reset \in BOOLEAN,
         MoveCompany(r, st, reset)
  PROVE  (\A s \in Subs : Follows(s)') /\ \A q \in Requests : ReadNow(q)'
<1>1. Done(r) /\ SubKept
  BY DEF MoveCompany, SubKept
<1>2. hand[r].s \in Subs /\ hand[r].row \in Rows /\ today \in Days
  BY Memory DEF SerialInv, IInv, DayInv
<1>3. CASE hand[r].row.status = "absent"
  <2>1. SetCompany(hand[r].s, st) /\ UNCHANGED row
    BY <1>3 DEF MoveCompany
  <2>2. row[hand[r].s].status = "absent" /\ company \in [Subs -> Companies]
    BY <1>2, <1>3 DEF SerialInv, ReadNow, IInv, CompanyInv
  <2>3. ASSUME NEW s \in Subs PROVE Follows(s)'
    <3>1. CASE s = hand[r].s
      BY <2>1, <2>2, <3>1 DEF Follows
    <3>2. CASE s # hand[r].s
      <4>1. company'[s] = company[s]
        BY <2>1, <2>2, <3>2 DEF SetCompany
      <4> QED BY <2>1, <4>1 DEF Follows, SerialInv
    <3> QED BY <3>1, <3>2
  <2> QED BY <1>1, <2>1, <2>3, OthersRead
<1>4. CASE hand[r].row.status # "absent"
  <2>1. st \in SubscriptionStatus \ {"absent"}
    BY DEF CompanyStatus, SubscriptionStatus
  <2> DEFINE new == Moved(hand[r].row, st, reset)
  <2>2. new \in Rows
    BY <1>2, <2>1, MovedSound
  <2>3. Save(hand[r].s, new) /\ Sync(hand[r].s, new)
    BY <1>4 DEF MoveCompany
  <2> HIDE DEF new
  <2> QED BY <1>1, <2>2, <2>3, WriteFollows
<1> QED BY <1>3, <1>4


LEMMA ReadFollows ==
  ASSUME SerialInv, NEW r \in Requests,
         \/ \E op \in Ops, s \in Subs : Load(r, op, s)
         \/ \E op \in Ops, p \in Payments : LoadPayment(r, op, p)
         \/ Abandon(r)
  PROVE  (\A s \in Subs : Follows(s)') /\ \A q \in Requests : ReadNow(q)'
<1>1. UNCHANGED <<row, company, pay>> /\ SubKept
  BY DEF Load, LoadPayment, Abandon, SubKept
<1>2. hand \in [Requests -> Hands \cup {NoRequest}]
  BY DEF SerialInv, IInv, HandInv
<1>3. \A s \in Subs : Follows(s)'
  BY <1>1 DEF SerialInv, Follows
<1>4. \A q \in Requests : q # r => hand'[q] = hand[q]
  BY <1>2 DEF Load, LoadPayment, Abandon, Done
<1>5. \A q \in Requests : q # r => ReadNow(q)'
  BY <1>1, <1>4, ReadStays
<1>6. ReadNow(r)'
  <2>1. ASSUME NEW op \in Ops, NEW s \in Subs, Load(r, op, s) PROVE ReadNow(r)'
    <3>1. hand'[r] = [op |-> op, s |-> s, row |-> row[s]]
      BY <1>2, <2>1 DEF Load
    <3>2. op \notin {"confirm", "refund"}
      BY <2>1 DEF Load, Accepts
    <3> QED BY <1>1, <3>1, <3>2 DEF ReadNow
  <2>2. ASSUME NEW op \in Ops, NEW p \in Payments, LoadPayment(r, op, p) PROVE ReadNow(r)'
    <3>1. hand'[r] = [op |-> op, s |-> pay[p].sub, row |-> row[pay[p].sub], p |-> p]
      BY <1>2, <2>2 DEF LoadPayment
    <3> QED BY <1>1, <3>1 DEF ReadNow
  <2>3. CASE Abandon(r)
    BY <1>2, <2>3 DEF Abandon, Done, ReadNow
  <2> QED BY <2>1, <2>2, <2>3
<1> QED BY <1>3, <1>5, <1>6

LEMMA EndpointFollows ==
  ASSUME SerialInv, DaysAssumption, NEW r \in Requests,
         \/ Create(r) \/ Upgrade(r) \/ Extend(r) \/ Cancel(r) \/ Reactivate(r) \/ Confirm(r)
  PROVE  (\A s \in Subs : Follows(s)') /\ \A q \in Requests : ReadNow(q)'
<1>1. hand[r] # NoRequest /\ Done(r)
  BY DEF Create, Upgrade, Extend, Cancel, Reactivate, Confirm, Writing
<1>2. /\ hand[r].row \in Rows /\ RunsOut(hand[r].row) /\ today \in Days
      /\ hand[r].op = "extend" => hand[r].row.status # "absent"
      /\ hand[r].op = "confirm" => hand[r].p \in Payments
  BY <1>1, Memory DEF SerialInv, IInv, DayInv
<1>3. SubKept
  <2>1. CASE UNCHANGED pay
    BY <2>1 DEF SubKept
  <2>2. CASE Confirm(r)
    <3>1. pay \in [Payments -> PaymentRows] /\ hand[r].p \in Payments
      BY <1>2, <2>2 DEF Confirm, Writing, SerialInv, IInv, PaymentInv
    <3>2. [pay[hand[r].p] EXCEPT !.status = "succeeded"].sub = pay[hand[r].p].sub
      BY <3>1 DEF PaymentRows
    <3>3. pay' = [pay EXCEPT ![hand[r].p] = [pay[hand[r].p] EXCEPT !.status = "succeeded"]]
      BY <2>2 DEF Confirm
    <3> QED BY <3>1, <3>2, <3>3 DEF SubKept
  <2> QED BY <2>1, <2>2 DEF Create, Upgrade, Extend, Cancel, Reactivate
<1>4. PICK new \in Rows :
        /\ \/ Save(hand[r].s, new)
           \/ SavePeriod(hand[r].s, new) /\ new.plan = hand[r].row.plan
        /\ Sync(hand[r].s, new)
  <2>0. {"active", "trial", "cancelled"} \subseteq SubscriptionStatus \ {"absent"}
    BY DEF SubscriptionStatus
  <2>1. CASE Create(r)
    <3>1. PICK plan \in Plans, status \in {"trial", "active"} :
            LET new == SetUp([NoRow EXCEPT !.plan = plan], status)
            IN Save(hand[r].s, new) /\ Sync(hand[r].s, new)
      BY <2>1 DEF Create
    <3>2. [NoRow EXCEPT !.plan = plan] \in Rows
      BY DEF NoRow, Row, Rows, SubscriptionStatus
    <3>3. SetUp([NoRow EXCEPT !.plan = plan], status) \in Rows
      BY <1>2, <2>0, <3>2, SetUpSound
    <3> QED BY <3>1, <3>3
  <2>2. CASE Upgrade(r)
    <3>1. PICK plan \in Plans :
            LET new == SetUp([hand[r].row EXCEPT !.plan = plan], "active")
            IN Save(hand[r].s, new) /\ Sync(hand[r].s, new)
      BY <2>2 DEF Upgrade
    <3>2. [hand[r].row EXCEPT !.plan = plan] \in Rows
      BY <1>2 DEF Rows
    <3>3. SetUp([hand[r].row EXCEPT !.plan = plan], "active") \in Rows
      BY <1>2, <2>0, <3>2, SetUpSound
    <3> QED BY <3>1, <3>3
  <2>3. CASE Extend(r)
    <3>1. PICK d \in ExtendBy :
            /\ SavePeriod(hand[r].s, Extended(hand[r].row, d))
            /\ Sync(hand[r].s, Extended(hand[r].row, d))
      BY <2>3 DEF Extend
    <3>2. Extended(hand[r].row, d) \in Rows
      BY <1>2, <2>3, ExtendedSound DEF Extend, Writing
    <3>3. Extended(hand[r].row, d).plan = hand[r].row.plan
      BY DEF Extended, Row
    <3> QED BY <3>1, <3>2, <3>3
  <2>4. CASE Cancel(r) \/ Reactivate(r)
    <3>1. PICK st \in {"active", "cancelled"} :
            LET new == SetUp(hand[r].row, st)
            IN SavePeriod(hand[r].s, new) /\ Sync(hand[r].s, new)
      BY <2>4 DEF Cancel, Reactivate
    <3>2. SetUp(hand[r].row, st) \in Rows /\ SetUp(hand[r].row, st).plan = hand[r].row.plan
      BY <1>2, <2>0, SetUpSound
    <3> QED BY <3>1, <3>2
  <2>5. CASE Confirm(r)
    <3>1. SavePeriod(hand[r].s, Renewed(hand[r].row)) /\ Sync(hand[r].s, Renewed(hand[r].row))
      BY <2>5 DEF Confirm
    <3>2. Renewed(hand[r].row) \in Rows
      BY <1>2, RenewedSound
    <3>3. Renewed(hand[r].row).plan = hand[r].row.plan
      BY DEF Renewed, Row
    <3> QED BY <3>1, <3>2, <3>3
  <2> QED BY <2>1, <2>2, <2>3, <2>4, <2>5
<1> QED BY <1>1, <1>3, <1>4, WriteFollows

LEMMA StatusFollows ==
  ASSUME SerialInv, DaysAssumption, NEW r \in Requests,
         UpdateStatus(r) \/ Suspend(r) \/ Activate(r)
  PROVE  (\A s \in Subs : Follows(s)') /\ \A q \in Requests : ReadNow(q)'
<1>1. hand[r] # NoRequest
  BY DEF UpdateStatus, Suspend, Activate, Writing
<1>2. CASE SetCompany(hand[r].s, "pending") /\ Done(r) /\ UNCHANGED <<today, row, pay, task>>
  <2>1. company \in [Subs -> Companies] /\ SubKept
    BY <1>2 DEF SerialInv, IInv, CompanyInv, SubKept
  <2>2. ASSUME NEW s \in Subs PROVE Follows(s)'
    <3>1. [company[s] EXCEPT !.status = "pending"].status = "pending"
          /\ [company[s] EXCEPT !.status = "pending"].plan = company[s].plan
      BY <2>1 DEF Companies
    <3>2. Follows(s)
      BY DEF SerialInv
    <3>3. CASE s = hand[r].s
      <4>1. company' = [company EXCEPT ![s] = [company[s] EXCEPT !.status = "pending"]]
        BY <1>2, <3>3 DEF SetCompany
      <4>2. company'[s].status = "pending" /\ company'[s].plan = company[s].plan
        BY <2>1, <3>1, <4>1
      <4> QED BY <1>2, <3>2, <4>2 DEF Follows
    <3>4. CASE s # hand[r].s
      <4>1. company'[s] = company[s]
        BY <1>2, <2>1, <3>4 DEF SetCompany
      <4> QED BY <1>2, <3>2, <4>1 DEF Follows
    <3> QED BY <3>3, <3>4
  <2> QED BY <1>1, <1>2, <2>1, <2>2, OthersRead
<1>3. CASE \E st \in CompanyStatus \ {"pending"}, reset \in BOOLEAN : MoveCompany(r, st, reset)
  BY <1>1, <1>3, MoveFollows
<1>4. \/ SetCompany(hand[r].s, "pending") /\ Done(r) /\ UNCHANGED <<today, row, pay, task>>
      \/ \E st \in CompanyStatus \ {"pending"}, reset \in BOOLEAN : MoveCompany(r, st, reset)
  BY DEF UpdateStatus, Suspend, Activate, CompanyStatus
<1> QED BY <1>2, <1>3, <1>4

LEMMA TailFollows ==
  ASSUME SerialInv, NEW r \in Requests, ExtendTrial(r) \/ Destroy(r) \/ Refund(r)
  PROVE  (\A s \in Subs : Follows(s)') /\ \A q \in Requests : ReadNow(q)'
<1>1. hand[r] # NoRequest /\ Done(r)
  BY DEF ExtendTrial, Destroy, Refund, Writing
<1>2. PICK x \in Subs : x = hand[r].s
  BY <1>1, Memory DEF SerialInv, IInv
<1>3. row \in [Subs -> Rows] /\ company \in [Subs -> Companies] /\ pay \in [Payments -> PaymentRows]
  BY DEF SerialInv, IInv, RowInv, CompanyInv, PaymentInv
<1>4. SubKept
  <2>1. CASE UNCHANGED pay
    BY <2>1 DEF SubKept
  <2>2. CASE Refund(r)
    <3>1. hand[r].p \in Payments
      BY <1>1, <2>2, Memory DEF Refund, Writing, SerialInv, IInv
    <3>2. [pay[hand[r].p] EXCEPT !.status = "refunded"].sub = pay[hand[r].p].sub
      BY <1>3, <3>1 DEF PaymentRows
    <3>3. pay' = [pay EXCEPT ![hand[r].p] = [pay[hand[r].p] EXCEPT !.status = "refunded"]]
      BY <2>2 DEF Refund
    <3> QED BY <1>3, <3>1, <3>2, <3>3 DEF SubKept
  <2> QED BY <2>1, <2>2 DEF ExtendTrial, Destroy
<1>5. \A s \in Subs : s # x => row'[s] = row[s] /\ company'[s] = company[s]
  BY <1>2, <1>3 DEF ExtendTrial, Destroy, Refund
<1>6. Follows(x)'
  <2>1. row'[x].status = row[x].status /\ row'[x].plan = row[x].plan
    <3>1. CASE ExtendTrial(r)
      <4>1. PICK end : row' = [row EXCEPT ![x] = [row[x] EXCEPT !.trialEnd = end, !.end = end]]
        BY <1>2, <1>3, <3>1 DEF ExtendTrial, Rows
      <4>2. /\ [row[x] EXCEPT !.trialEnd = end, !.end = end].status = row[x].status
            /\ [row[x] EXCEPT !.trialEnd = end, !.end = end].plan = row[x].plan
        BY <1>3 DEF Rows
      <4> QED BY <1>3, <4>1, <4>2
    <3> QED BY <3>1 DEF Destroy, Refund
  <2>2. company'[x].plan = company[x].plan
        /\ (company'[x].deleted \/ (company'[x].status = company[x].status
                                    /\ company'[x].deleted = company[x].deleted))
    <3>1. CASE Destroy(r)
      <4>1. company' = [company EXCEPT ![x] =
              [company[x] EXCEPT !.status = "expired", !.deleted = TRUE]]
        BY <1>2, <1>3, <3>1 DEF Destroy, Companies
      <4>2. /\ [company[x] EXCEPT !.status = "expired", !.deleted = TRUE].plan = company[x].plan
            /\ [company[x] EXCEPT !.status = "expired", !.deleted = TRUE].deleted
        BY <1>3 DEF Companies
      <4> QED BY <1>3, <4>1, <4>2
    <3> QED BY <3>1 DEF ExtendTrial, Refund
  <2> QED BY <2>1, <2>2 DEF Follows, SerialInv
<1>7. \A s \in Subs : Follows(s)'
  BY <1>5, <1>6 DEF Follows, SerialInv
<1> QED BY <1>1, <1>2, <1>4, <1>5, <1>7, OthersRead

\* The task moves a row that ran out: its plan stays, and its end stays or is
\* taken away; what a request has read of it is still true.
LEMMA TaskMoveFollows ==
  ASSUME SerialInv, DaysAssumption, NEW x \in Subs, NEW st \in {"grace", "expired"},
         TaskMove(x, st), row[x].status # "absent", row[x].end # NoDate,
         UNCHANGED <<pay, hand>>
  PROVE  (\A s \in Subs : Follows(s)') /\ \A q \in Requests : ReadNow(q)'
<1> DEFINE new == Moved(row[x], st, FALSE)
<1>1. /\ row \in [Subs -> Rows] /\ company \in [Subs -> Companies]
      /\ today \in Days /\ st \in SubscriptionStatus \ {"absent"}
  BY DEF SerialInv, IInv, RowInv, CompanyInv, DayInv, SubscriptionStatus
<1>2. new \in Rows /\ new.status = st /\ new.plan = row[x].plan
  BY <1>1, MovedSound
<1>3. new.end \in {NoDate, row[x].end}
  BY DEF Moved, Row
<1>4. Save(x, new) /\ Sync(x, new)
  BY DEF TaskMove
<1> HIDE DEF new
<1>5. row'[x] = new /\ \A s \in Subs : s # x => row'[s] = row[s]
  BY <1>1, <1>4 DEF Save
<1>6. /\ company'[x].plan = new.plan /\ company'[x].status = CompanyStatusOf(new.status)
      /\ \A s \in Subs : s # x => company'[s] = company[s]
  <2>1. company' = [company EXCEPT ![x] =
          [company[x] EXCEPT !.status = CompanyStatusOf(new.status), !.plan = new.plan]]
    BY <1>1, <1>4 DEF Sync, Companies
  <2>2. /\ [company[x] EXCEPT !.status = CompanyStatusOf(new.status), !.plan = new.plan].status
             = CompanyStatusOf(new.status)
        /\ [company[x] EXCEPT !.status = CompanyStatusOf(new.status), !.plan = new.plan].plan
             = new.plan
    BY <1>1 DEF Companies
  <2> QED BY <1>1, <2>1, <2>2
<1>7. \A s \in Subs : Follows(s)'
  BY <1>5, <1>6 DEF SerialInv, Follows
<1>8. ASSUME NEW q \in Requests PROVE ReadNow(q)'
  <2>1. CASE hand[q] # NoRequest /\ hand[q].s = x
    <3>1. ReadNow(q)
      BY DEF SerialInv
    <3>2. new.status # "absent"
      BY <1>2
    <3> QED BY <1>2, <1>3, <1>5, <2>1, <3>1, <3>2 DEF ReadNow
  <2>2. CASE ~(hand[q] # NoRequest /\ hand[q].s = x)
    <3>1. hand[q] # NoRequest => row'[hand[q].s] = row[hand[q].s]
      BY <1>5, <2>2, Memory DEF SerialInv, IInv
    <3> QED BY <3>1, ReadStays DEF SubKept
  <2> QED BY <2>1, <2>2
<1> QED BY <1>7, <1>8

LEMMA TaskFollows ==
  ASSUME SerialInv, DaysAssumption, Task
  PROVE  (\A s \in Subs : Follows(s)') /\ \A q \in Requests : ReadNow(q)'
<1>1. CASE UNCHANGED <<row, company, pay, hand>>
  <2>1. \A q \in Requests : ReadNow(q)'
    BY <1>1, ReadStays DEF SubKept
  <2> QED BY <1>1, <2>1 DEF SerialInv, Follows
<1>2. ASSUME NEW x \in Subs, TaskGrace(x), Elapsed(x, task.day)
      PROVE  (\A s \in Subs : Follows(s)') /\ \A q \in Requests : ReadNow(q)'
  <2>1. TaskMove(x, "grace") /\ UNCHANGED <<pay, hand>>
    BY <1>2 DEF TaskGrace
  <2>2. row[x].status # "absent" /\ row[x].end # NoDate
    BY <1>2 DEF Elapsed, Lapsed
  <2> QED BY <2>1, <2>2, TaskMoveFollows
<1>3. ASSUME NEW x \in Subs, TaskExpire(x), GraceOver(x, task.day)
      PROVE  (\A s \in Subs : Follows(s)') /\ \A q \in Requests : ReadNow(q)'
  <2>1. TaskMove(x, "expired") /\ UNCHANGED <<pay, hand>>
    BY <1>3 DEF TaskExpire
  <2>2. row[x].status = "grace"
    BY <1>3 DEF GraceOver
  <2>3. row[x].end # NoDate
    BY <2>2 DEF SerialInv, IInv, RowInv, UsableRunsOut, RunsOut, Usable
  <2> QED BY <2>1, <2>2, <2>3, TaskMoveFollows
<1>4. \/ UNCHANGED <<row, company, pay, hand>>
      \/ \E x \in Subs : TaskGrace(x) /\ Elapsed(x, task.day)
      \/ \E x \in Subs : TaskExpire(x) /\ GraceOver(x, task.day)
  BY DEF Task, TaskStart, TaskNextLoop, TaskEnd, TaskAbort, TaskGrace, TaskExpire
<1> QED BY <1>1, <1>2, <1>3, <1>4

LEMMA SerialStep ==
  ASSUME SerialInv, DaysAssumption, [Next /\ OneAtATime']_vars
  PROVE  SerialInv'
<1>1. IInv'
  BY InvariantStep DEF SerialInv
<1>2. OneAtATime'
  BY DEF OneAtATime, SerialInv, vars
<1>3. (\A s \in Subs : Follows(s)') /\ \A q \in Requests : ReadNow(q)'
  <2>1. CASE UNCHANGED vars \/ Tick
    <3>1. UNCHANGED <<row, company, pay, hand>>
      BY <2>1 DEF vars, Tick
    <3>2. \A q \in Requests : ReadNow(q)'
      BY <3>1, ReadStays DEF SubKept
    <3> QED BY <3>1, <3>2 DEF SerialInv, Follows
  <2>2. ASSUME NEW r \in Requests, Handle(r)
        PROVE  (\A s \in Subs : Follows(s)') /\ \A q \in Requests : ReadNow(q)'
    BY <2>2, ReadFollows, EndpointFollows, StatusFollows, TailFollows DEF Handle
  <2>3. ASSUME NEW p \in Payments, NEW s \in Subs, CreatePayment(p, s)
        PROVE  (\A x \in Subs : Follows(x)') /\ \A q \in Requests : ReadNow(q)'
    <3>1. UNCHANGED <<row, company, hand>> /\ SubKept
      BY <2>3 DEF CreatePayment, SubKept
    <3>2. \A q \in Requests : ReadNow(q)'
      BY <3>1, ReadStays
    <3> QED BY <3>1, <3>2 DEF SerialInv, Follows
  <2> QED BY <2>1, <2>2, <2>3, TaskFollows DEF Next
<1> QED BY <1>1, <1>2, <1>3 DEF SerialInv

LEMMA SerialInvariance == SerialSpec => []SerialInv
<1>1. Init => SerialInv
  <2> SUFFICES ASSUME Init PROVE SerialInv
    OBVIOUS
  <2>1. IInv
    BY InitInv, DaysAssumption
  <2> QED BY <2>1 DEF Init, SerialInv, OneAtATime, Follows, ReadNow, NoRow, Row
<1>2. SerialInv /\ [Next /\ OneAtATime']_vars => SerialInv'
  BY SerialStep, DaysAssumption
<1> QED BY <1>1, <1>2, PTL DEF SerialSpec

\* With one request at a time for a subscription, the company has the plan and
\* the status of its subscription, whatever the task does between a request's
\* read and its write.
THEOREM CompanyFollowsCorrect == SerialSpec => []CompanyFollows
<1>1. SerialInv => CompanyFollows
  BY DEF SerialInv, Follows, CompanyFollows
<1> QED BY <1>1, SerialInvariance, PTL

\* A payment that is confirmed buys a cycle after what is left of the period.
LEMMA PaymentBuys ==
  ASSUME SerialInv, DaysAssumption, Next, NEW p \in Payments,
         pay[p].status = "pending", pay'[p].status = "succeeded"
  PROVE  LET s == pay[p].sub IN row'[s].end >= NotBefore(row[s].end) + CycleDays
<1>1. PICK r \in Requests : Confirm(r) /\ hand[r].p = p
  <2>1. pay \in [Payments -> PaymentRows]
    BY DEF SerialInv, IInv, PaymentInv
  <2>2. pay' # pay
    OBVIOUS
  <2>3. ASSUME NEW r \in Requests, Handle(r) PROVE Confirm(r) \/ Refund(r)
    BY <2>2, <2>3 DEF Handle, Load, LoadPayment, Abandon, Create, Upgrade, Extend, Cancel,
       Reactivate, UpdateStatus, Suspend, Activate, MoveCompany, ExtendTrial, Destroy
  <2>4. ASSUME NEW r \in Requests, Refund(r) PROVE FALSE
    <3>1. hand[r].p \in Payments
      BY <2>4, Memory DEF Refund, Writing, SerialInv, IInv
    <3>2. pay'[hand[r].p].status = "refunded" /\ \A x \in Payments : x # hand[r].p => pay'[x] = pay[x]
      <4>1. [pay[hand[r].p] EXCEPT !.status = "refunded"].status = "refunded"
        BY <2>1, <3>1 DEF PaymentRows
      <4>2. pay' = [pay EXCEPT ![hand[r].p] = [pay[hand[r].p] EXCEPT !.status = "refunded"]]
        BY <2>4 DEF Refund
      <4> QED BY <2>1, <3>1, <4>1, <4>2
    <3> QED BY <3>2
  <2>5. ASSUME NEW x \in Payments, NEW s \in Subs, CreatePayment(x, s) PROVE FALSE
    BY <2>1, <2>5 DEF CreatePayment
  <2>6. ASSUME NEW r \in Requests, Confirm(r) PROVE hand[r].p = p
    BY <2>1, <2>6 DEF Confirm
  <2>7. ~Task /\ ~Tick
    BY <2>2 DEF Task, TaskStart, TaskNextLoop, TaskEnd, TaskAbort, TaskGrace, TaskExpire, Tick
  <2> QED BY <2>3, <2>4, <2>5, <2>6, <2>7 DEF Next
<1>2. hand[r] # NoRequest /\ hand[r].op = "confirm" /\ SavePeriod(hand[r].s, Renewed(hand[r].row))
  BY <1>1 DEF Confirm, Writing
<1>3. PICK s \in Subs : s = hand[r].s /\ hand[r].row \in Rows
  BY <1>2, Memory DEF SerialInv, IInv
<1>4. pay[p].sub = s /\ row[s].end \in {NoDate, hand[r].row.end}
  BY <1>1, <1>2, <1>3 DEF SerialInv, ReadNow
<1>5. row'[s].end = NotBefore(hand[r].row.end) + CycleDays
  <2>1. row \in [Subs -> Rows] /\ today \in Days
    BY DEF SerialInv, IInv, RowInv, DayInv
  <2> DEFINE new == Renewed(hand[r].row)
  <2>2. new \in Rows /\ new.end = NotBefore(hand[r].row.end) + CycleDays
    BY <1>3, <2>1, RenewedSound DEF Renewed, Row
  <2>3. row' = [row EXCEPT ![s] = [new EXCEPT !.plan = row[s].plan]]
    BY <1>2, <1>3 DEF SavePeriod
  <2> HIDE DEF new
  <2>4. [new EXCEPT !.plan = row[s].plan].end = new.end
    BY <2>2 DEF Rows
  <2> QED BY <2>1, <2>2, <2>3, <2>4
<1>6. NotBefore(hand[r].row.end) >= NotBefore(row[s].end)
  <2>1. today \in Nat /\ hand[r].row.end \in Nat
    BY <1>3 DEF SerialInv, IInv, DayInv, Rows
  <2> QED BY <1>4, <2>1 DEF NotBefore
<1> QED
  <2>1. NotBefore(hand[r].row.end) \in Nat /\ NotBefore(row[s].end) \in Nat /\ CycleDays \in Nat
    BY <1>3, NotBeforeDay DEF SerialInv, IInv, DayInv, RowInv, Rows, DaysAssumption
  <2> QED BY <1>4, <1>5, <1>6, <2>1

\* With one request at a time for a subscription, a payment that succeeds buys a
\* whole cycle on top of what is left, or of today, although the task may take
\* the end away after the request has read it.
THEOREM PaymentBuysCorrect == SerialSpec => PaymentBuysPeriod
<1>1. SerialInv /\ [Next /\ OneAtATime']_vars =>
        [\A p \in Payments :
           pay[p].status = "pending" /\ pay'[p].status = "succeeded" =>
             LET s == pay[p].sub
             IN row'[s].end >= NotBefore(row[s].end) + CycleDays]_vars
  BY PaymentBuys, DaysAssumption
<1> QED BY <1>1, SerialInvariance, PTL DEF SerialSpec, PaymentBuysPeriod

================================================================================
