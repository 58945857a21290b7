----------------------------- MODULE Subscription -----------------------------
(***************************************************************************)
(* Subscriptions: the endpoints of apps/subscriptions/views.py, those of   *)
(* apps/companies/views.py that change a subscription, and the hourly task *)
(* of apps/subscriptions/tasks.py.                                         *)
(*                                                                         *)
(* A subscription belongs to one company, which carries a copy of its      *)
(* status and of its plan's entitlements.  The endpoints take no lock:     *)
(* Load copies the row a handler reads, and a second action computes from  *)
(* that copy and writes.  The task collects ids, then locks each row and   *)
(* looks at it again.  Dates are day numbers; NoDate stands for NULL.      *)
(***************************************************************************)
EXTENDS Integers, FiniteSets

CONSTANTS
  Subs,            \* subscription ids, each with its company
  Plans,
  Payments,        \* SubscriptionPayment ids
  Requests,        \* request slots: how many handlers may be in flight at once
  Ops,             \* the endpoints clients use
  TrialDays,       \* Plan.trial_days
  CycleDays,       \* cycle_days
  GraceDays,       \* the 7 days of set_subscription_status
  ExtendBy,        \* what extend_days may be
  LastDay,         \* bound: the calendar stops here
  MaxDate,         \* bound: no period is extended beyond
  OuterJoinLocks,  \* does the database lock rows of an outer join?
  NoPlan, NoSub, NoRequest

ASSUME PlansAssumption == NoPlan \notin Plans

ASSUME DaysAssumption ==
  /\ TrialDays \in Nat
  /\ CycleDays \in Nat \ {0}
  /\ GraceDays \in Nat
  /\ ExtendBy \subseteq Nat \ {0}
  /\ LastDay \in Nat
  /\ MaxDate \in Nat

VARIABLES
  today,    \* now().date()
  row,      \* row[s]: the Subscription row
  company,  \* company[s]: status, entitlements (a plan), is_deleted
  pay,      \* pay[p]: the SubscriptionPayment row
  hand,     \* hand[r]: what the handler in slot r keeps in memory
  task      \* transition_expired_subscriptions: which loop, its today, its ids

vars == <<today, row, company, pay, hand, task>>

NoDate == 0
Days   == Nat \ {NoDate}
Lapsed(date, day) == date # NoDate /\ date < day

SubscriptionStatus ==
  {"absent", "trial", "active", "grace", "expired", "cancelled", "suspended"}
CompanyStatus == {"pending", "trial", "active", "suspended", "expired", "grace"}
PaymentStatus == {"absent", "pending", "succeeded", "failed", "refunded"}
Usable == {"trial", "active", "grace"}

Rows == [status : SubscriptionStatus, plan : Plans \cup {NoPlan},
         trialEnd : Nat, end : Nat, graceEnd : Nat]

Row(status, plan, trialEnd, end, graceEnd) ==
  [status |-> status, plan |-> plan, trialEnd |-> trialEnd, end |-> end,
   graceEnd |-> graceEnd]

NoRow == Row("absent", NoPlan, NoDate, NoDate, NoDate)

Idle == [loop |-> "idle", day |-> NoDate, ids |-> {}]

Init ==
  /\ today = 1
  /\ row = [s \in Subs |-> NoRow]
  /\ company = [s \in Subs |-> [status |-> "pending", plan |-> NoPlan, deleted |-> FALSE]]
  /\ pay = [p \in Payments |-> [status |-> "absent", sub |-> NoSub]]
  /\ hand = [r \in Requests |-> NoRequest]
  /\ task = Idle

-----------------------------------------------------------------------------
\* Reading and computing

\* setup_periods of row m, which is to have the status: a fresh start today.
SetUp(m, status) ==
  LET paidEnd == today + CycleDays
  IN CASE status = "trial"  -> Row(status, m.plan, today + TrialDays, today + TrialDays, NoDate)
       [] status = "active" -> Row(status, m.plan, NoDate, paidEnd, NoDate)
       [] status = "grace"  -> Row(status, m.plan, NoDate, paidEnd, paidEnd + GraceDays)
       [] OTHER             -> Row(status, m.plan, NoDate, NoDate, NoDate)

\* set_subscription_status on row m.
Moved(m, status, reset) ==
  LET Kept(date, new) == IF reset \/ date = NoDate THEN new ELSE date
      trialEnd == Kept(m.trialEnd, today + TrialDays)
      paidEnd  == Kept(m.end, today + CycleDays)
      end      == IF m.end = NoDate THEN today ELSE m.end
  IN CASE status = "trial"  -> Row(status, m.plan, trialEnd, trialEnd, NoDate)
       [] status = "active" -> Row(status, m.plan, NoDate, paidEnd, NoDate)
       [] status = "grace"  -> Row(status, m.plan, NoDate, end, end + GraceDays)
       [] OTHER             -> Row(status, m.plan, NoDate, NoDate, NoDate)

\* max(end or today, today).
NotBefore(end) == IF end = NoDate \/ end < today THEN today ELSE end

\* Faulty variant: the days that are left are not counted.
RenewedFromToday(m) == Row("active", m.plan, NoDate, today + CycleDays, NoDate)

\* renew_from_payment: one more cycle after what is paid already.
Renewed(m) == Row("active", m.plan, NoDate, NotBefore(m.end) + CycleDays, NoDate)

\* extend by d days: a trial stays a trial, and only what has run out or was
\* suspended is made active again.
Extended(m, d) ==
  LET end == NotBefore(m.end) + d
  IN IF m.status = "trial" THEN Row("trial", m.plan, end, end, m.graceEnd)
     ELSE IF m.status \in {"expired", "grace", "suspended"}
       THEN Row("active", m.plan, m.trialEnd, end, NoDate)
     ELSE Row(m.status, m.plan, m.trialEnd, end, m.graceEnd)

\* COMPANY_STATUS_BY_SUBSCRIPTION.
CompanyStatusOf(status) == IF status = "cancelled" THEN "expired" ELSE status

\* What each endpoint checks on what it read.
Accepts(op, s) ==
  CASE op = "create" -> row[s].status = "absent"
    [] op \in {"upgrade", "extend"} -> row[s].status # "absent"
    [] op = "cancel" -> row[s].status \notin {"absent", "cancelled"}
    [] op = "reactivate" -> row[s].status \in {"cancelled", "expired", "suspended", "grace"}
    [] op = "suspend" -> company[s].status # "suspended"
    [] op = "activate" -> company[s].status = "suspended"
    [] op = "extend_trial" -> row[s].status = "trial"
    [] op = "destroy" -> company[s].status # "active"
    [] op = "status" -> TRUE
    [] OTHER -> FALSE

Load(r, op, s) ==
  /\ hand[r] = NoRequest
  /\ op \in Ops
  /\ Accepts(op, s)
  /\ hand' = [hand EXCEPT ![r] = [op |-> op, s |-> s, row |-> row[s]]]
  /\ UNCHANGED <<today, row, company, pay, task>>

\* Confirm reads a pending payment, refund a succeeded one, and the
\* subscription with it.
LoadPayment(r, op, p) ==
  /\ hand[r] = NoRequest
  /\ op \in Ops
  /\ \/ op = "confirm" /\ pay[p].status = "pending"
     \/ op = "refund" /\ pay[p].status = "succeeded"
  /\ hand' = [hand EXCEPT ![r] =
                [op |-> op, s |-> pay[p].sub, row |-> row[pay[p].sub], p |-> p]]
  /\ UNCHANGED <<today, row, company, pay, task>>

-----------------------------------------------------------------------------
\* Writing

Writing(r, op) == hand[r] # NoRequest /\ hand[r].op = op
Done(r) == hand' = [hand EXCEPT ![r] = NoRequest]

\* save() writes every column; the update_fields of the others leave plan out.
Save(s, new) == row' = [row EXCEPT ![s] = new]
SavePeriod(s, new) == row' = [row EXCEPT ![s] = [new EXCEPT !.plan = row[s].plan]]

\* sync_company_from_subscription and apply_plan_to_company, which work on
\* the row in memory.
Sync(s, new) ==
  company' = [company EXCEPT ![s].status = CompanyStatusOf(new.status),
                             ![s].plan = new.plan]

SetCompany(s, status) == company' = [company EXCEPT ![s].status = status]

\* The request is refused late, fails or is cut off: the transaction is gone.
Abandon(r) ==
  /\ hand[r] # NoRequest
  /\ Done(r)
  /\ UNCHANGED <<today, row, company, pay, task>>

\* SubscriptionViewSet.create: looks again under the lock of the company row.
Create(r) ==
  /\ Writing(r, "create")
  /\ LET s == hand[r].s IN
       /\ row[s].status = "absent"
       /\ \E plan \in Plans, status \in {"trial", "active"} :
            LET new == SetUp([NoRow EXCEPT !.plan = plan], status)
            IN /\ status = "trial" => TrialDays > 0
               /\ Save(s, new)
               /\ Sync(s, new)
  /\ Done(r)
  /\ UNCHANGED <<today, pay, task>>

\* upgrade (or downgrade): a fresh period on another plan.
Upgrade(r) ==
  /\ Writing(r, "upgrade")
  /\ \E plan \in Plans :
       LET new == SetUp([hand[r].row EXCEPT !.plan = plan], "active")
       IN Save(hand[r].s, new) /\ Sync(hand[r].s, new)
  /\ Done(r)
  /\ UNCHANGED <<today, pay, task>>

\* extend.
Extend(r) ==
  /\ Writing(r, "extend")
  /\ \E d \in ExtendBy :
       LET new == Extended(hand[r].row, d)
       IN /\ new.end <= MaxDate
          /\ SavePeriod(hand[r].s, new)
          /\ Sync(hand[r].s, new)
  /\ Done(r)
  /\ UNCHANGED <<today, pay, task>>

\* Faulty variant: the company is not told.
CancelUnsynced(r) ==
  /\ Writing(r, "cancel")
  /\ SavePeriod(hand[r].s, SetUp(hand[r].row, "cancelled"))
  /\ Done(r)
  /\ UNCHANGED <<today, company, pay, task>>

\* cancel.
Cancel(r) ==
  /\ Writing(r, "cancel")
  /\ LET new == SetUp(hand[r].row, "cancelled")
     IN SavePeriod(hand[r].s, new) /\ Sync(hand[r].s, new)
  /\ Done(r)
  /\ UNCHANGED <<today, pay, task>>

\* Faulty variant: the status comes back without a period.
ReactivateBare(r) ==
  /\ Writing(r, "reactivate")
  /\ LET new == [hand[r].row EXCEPT !.status = "active"]
     IN SavePeriod(hand[r].s, new) /\ Sync(hand[r].s, new)
  /\ Done(r)
  /\ UNCHANGED <<today, pay, task>>

\* reactivate.
Reactivate(r) ==
  /\ Writing(r, "reactivate")
  /\ LET new == SetUp(hand[r].row, "active")
     IN SavePeriod(hand[r].s, new) /\ Sync(hand[r].s, new)
  /\ Done(r)
  /\ UNCHANGED <<today, pay, task>>

\* A company's own endpoints move the subscription when there is one, and
\* set the company's status alone when there is none.
MoveCompany(r, status, reset) ==
  /\ IF hand[r].row.status = "absent"
     THEN SetCompany(hand[r].s, status) /\ UNCHANGED row
     ELSE LET new == Moved(hand[r].row, status, reset)
          IN Save(hand[r].s, new) /\ Sync(hand[r].s, new)
  /\ Done(r)
  /\ UNCHANGED <<today, pay, task>>

\* SuperAdminCompanyViewSet.update_status; "pending" has no counterpart.
UpdateStatus(r) ==
  /\ Writing(r, "status")
  /\ \/ \E status \in CompanyStatus \ {"pending"} :
          MoveCompany(r, status, status = "active")
     \/ /\ SetCompany(hand[r].s, "pending")
        /\ Done(r)
        /\ UNCHANGED <<today, row, pay, task>>

Suspend(r) == Writing(r, "suspend") /\ MoveCompany(r, "suspended", FALSE)

Activate(r) == Writing(r, "activate") /\ MoveCompany(r, "active", TRUE)

\* extend_trial: the two dates, from memory; the status is not written.
ExtendTrial(r) ==
  /\ Writing(r, "extend_trial")
  /\ \E d \in ExtendBy :
       LET m == hand[r].row
           end == (IF m.trialEnd = NoDate THEN today ELSE m.trialEnd) + d
       IN /\ end <= MaxDate
          /\ row' = [row EXCEPT ![hand[r].s].trialEnd = end, ![hand[r].s].end = end]
  /\ Done(r)
  /\ UNCHANGED <<today, company, pay, task>>

\* destroy, a soft delete: the subscription stays.
Destroy(r) ==
  /\ Writing(r, "destroy")
  /\ company' = [company EXCEPT ![hand[r].s].status = "expired",
                                ![hand[r].s].deleted = TRUE]
  /\ Done(r)
  /\ UNCHANGED <<today, row, pay, task>>

\* SubscriptionPaymentViewSet.create.
CreatePayment(p, s) ==
  /\ pay[p].status = "absent"
  /\ row[s].status \notin {"absent", "cancelled"}
  /\ pay' = [pay EXCEPT ![p] = [status |-> "pending", sub |-> s]]
  /\ UNCHANGED <<today, row, company, hand, task>>

\* confirm: the payment, one more period, the company.
Confirm(r) ==
  /\ Writing(r, "confirm")
  /\ LET new == Renewed(hand[r].row)
     IN /\ new.end <= MaxDate
        /\ SavePeriod(hand[r].s, new)
        /\ Sync(hand[r].s, new)
  /\ pay' = [pay EXCEPT ![hand[r].p].status = "succeeded"]
  /\ Done(r)
  /\ UNCHANGED <<today, task>>

\* refund: the period that was bought stays.  fail changes nothing: it
\* refuses every pending payment, and what it would write to a succeeded one
\* does not fit the column.
Refund(r) ==
  /\ Writing(r, "refund")
  /\ pay' = [pay EXCEPT ![hand[r].p].status = "refunded"]
  /\ Done(r)
  /\ UNCHANGED <<today, row, company, task>>

-----------------------------------------------------------------------------
\* transition_expired_subscriptions

Elapsed(s, day) ==
  row[s].status \in {"trial", "active"} /\ Lapsed(row[s].end, day)
GraceOver(s, day) ==
  row[s].status = "grace" /\ Lapsed(row[s].graceEnd, day)

\* Faulty variant: paid subscriptions are forgotten.
TaskStartTrials ==
  /\ task = Idle
  /\ task' = [loop |-> "grace", day |-> today,
              ids |-> {s \in Subs : row[s].status = "trial" /\ Elapsed(s, today)}]
  /\ UNCHANGED <<today, row, company, pay, hand>>

\* today = localdate(), and the ids of the first loop.
TaskStart ==
  /\ task = Idle
  /\ task' = [loop |-> "grace", day |-> today, ids |-> {s \in Subs : Elapsed(s, today)}]
  /\ UNCHANGED <<today, row, company, pay, hand>>

\* The ids of the second loop.
TaskNextLoop ==
  /\ task.loop = "grace"
  /\ task.ids = {}
  /\ task' = [task EXCEPT !.loop = "expire", !.ids = {s \in Subs : GraceOver(s, task.day)}]
  /\ UNCHANGED <<today, row, company, pay, hand>>

TaskEnd ==
  /\ task.loop = "expire"
  /\ task.ids = {}
  /\ task' = Idle
  /\ UNCHANGED <<today, row, company, pay, hand>>

\* set_subscription_status of the row under its lock.
TaskMove(s, status) ==
  LET new == Moved(row[s], status, FALSE) IN Save(s, new) /\ Sync(s, new)

\* Faulty variant: what the query saw is good enough.
TaskGraceUnchecked(s) ==
  /\ task.loop = "grace"
  /\ s \in task.ids
  /\ OuterJoinLocks
  /\ task' = [task EXCEPT !.ids = @ \ {s}]
  /\ TaskMove(s, "grace")
  /\ UNCHANGED <<today, pay, hand>>

\* One id of the first loop: lock, look again, grace.  The lock is taken on
\* the subscription joined to its company, an outer join.
TaskGrace(s) ==
  /\ task.loop = "grace"
  /\ s \in task.ids
  /\ OuterJoinLocks
  /\ task' = [task EXCEPT !.ids = @ \ {s}]
  /\ IF Elapsed(s, task.day) THEN TaskMove(s, "grace") ELSE UNCHANGED <<row, company>>
  /\ UNCHANGED <<today, pay, hand>>

\* One id of the second loop: lock, look again, expired.
TaskExpire(s) ==
  /\ task.loop = "expire"
  /\ s \in task.ids
  /\ OuterJoinLocks
  /\ task' = [task EXCEPT !.ids = @ \ {s}]
  /\ IF GraceOver(s, task.day) THEN TaskMove(s, "expired") ELSE UNCHANGED <<row, company>>
  /\ UNCHANGED <<today, pay, hand>>

\* An exception or a killed worker ends the task.
TaskAbort ==
  /\ task # Idle
  /\ task' = Idle
  /\ UNCHANGED <<today, row, company, pay, hand>>

\* Midnight.
Tick ==
  /\ today < LastDay
  /\ today' = today + 1
  /\ UNCHANGED <<row, company, pay, hand, task>>

Handle(r) ==
  \/ \E op \in Ops, s \in Subs : Load(r, op, s)
  \/ \E op \in Ops, p \in Payments : LoadPayment(r, op, p)
  \/ Abandon(r)
  \/ Create(r) \/ Upgrade(r) \/ Extend(r) \/ Cancel(r) \/ Reactivate(r)
  \/ UpdateStatus(r) \/ Suspend(r) \/ Activate(r) \/ ExtendTrial(r) \/ Destroy(r)
  \/ Confirm(r) \/ Refund(r)

Task ==
  \/ TaskStart \/ TaskNextLoop \/ TaskEnd \/ TaskAbort
  \/ \E s \in Subs : TaskGrace(s) \/ TaskExpire(s)

Next ==
  \/ \E r \in Requests : Handle(r)
  \/ \E p \in Payments, s \in Subs : CreatePayment(p, s)
  \/ Task
  \/ Tick

Spec == Init /\ [][Next]_vars

\* The beat schedule starts the task every hour; started over and over it gets
\* through its loops some time.  What cannot go on raises an exception.
Fairness ==
  /\ WF_vars(TaskStart)
  /\ SF_vars(TaskNextLoop)
  /\ SF_vars(TaskEnd)
  /\ \A s \in Subs : SF_vars(TaskGrace(s)) /\ SF_vars(TaskExpire(s))
  /\ WF_vars(~OuterJoinLocks /\ TaskAbort)

FairSpec == Spec /\ Fairness

\* Requests that do not overlap on a subscription; the task still comes between
\* what a request reads and what it writes.
OneAtATime ==
  \A q, r \in Requests :
    hand[q] # NoRequest /\ hand[r] # NoRequest /\ hand[q].s = hand[r].s => q = r

SerialSpec == Init /\ [][Next /\ OneAtATime']_vars

-----------------------------------------------------------------------------
\* Properties

Companies   == [status : CompanyStatus, plan : Plans \cup {NoPlan}, deleted : BOOLEAN]
PaymentRows == [status : PaymentStatus, sub : Subs \cup {NoSub}]

\* What a handler keeps: the payment endpoints a payment as well.
Hands ==
  [op : Ops \ {"confirm", "refund"}, s : Subs, row : Rows]
    \cup [op : {"confirm", "refund"}, s : Subs, row : Rows, p : Payments]

\* The variables have their types.
TypeOK ==
  /\ today \in Days
  /\ row \in [Subs -> Rows]
  /\ company \in [Subs -> Companies]
  /\ pay \in [Payments -> PaymentRows]
  /\ hand \in [Requests -> Hands \cup {NoRequest}]
  /\ task \in [loop : {"idle", "grace", "expire"}, day : Nat, ids : SUBSET Subs]

RunsOut(m) ==
  /\ m.status \in Usable => m.end # NoDate
  /\ (m.status = "grace") <=> (m.graceEnd # NoDate)

\* A subscription that can be used runs out some day, and its grace ends
\* exactly while it is in grace: nothing ever sets a status without the date
\* by which the task finds the row again ("current_period_end__lt" never
\* matches NULL), whatever handlers and the task overwrite of each other.
UsableRunsOut == \A s \in Subs : RunsOut(row[s])

\* "Keep the company lifecycle and plan entitlements aligned with its
\* subscription": one request at a time beside the task, the company can use what
\* the plan includes and has the status of its subscription, unless it waits for
\* approval or was deleted.
CompanyFollows ==
  \A s \in Subs : row[s].status # "absent" =>
    /\ company[s].plan = row[s].plan
    /\ \/ company[s].deleted \/ company[s].status = "pending"
       \/ company[s].status = CompanyStatusOf(row[s].status)

\* "Grant one billing period after a successful subscription payment": when a
\* payment succeeds, the period ends one cycle later than it did, or than today.
PaymentBuysPeriod ==
  [][\A p \in Payments :
       pay[p].status = "pending" /\ pay'[p].status = "succeeded" =>
         LET s == pay[p].sub
         IN row'[s].end >= NotBefore(row[s].end) + CycleDays]_vars

\* The task leaves a subscription alone that was renewed, extended or
\* cancelled after the task collected its id.
TaskSparesRenewed ==
  [][\A s \in Subs :
       ~Elapsed(s, today) /\ ~GraceOver(s, today) /\ task' # task => row'[s] = row[s]]_vars

\* "Move elapsed subscriptions through grace and expiry": none stays usable
\* for ever after its period and its grace ended.
ElapsedMovesOn ==
  \A s \in Subs :
    /\ Elapsed(s, today) ~> ~Elapsed(s, today)
    /\ GraceOver(s, today) ~> ~GraceOver(s, today)
============================================================================
