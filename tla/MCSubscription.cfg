SPECIFICATION FairSpec
CONSTANTS
  Subs = {s1}
  Plans = {p1, p2}
  Payments = {m1}
  Requests = {r1}
  Ops <- AllOps
  TrialDays = 1
  CycleDays = 2
  GraceDays = 1
  ExtendBy = {1}
  LastDay = 4
  MaxDate = 6
  OuterJoinLocks = TRUE
  NoPlan = NoPlan
  NoSub = NoSub
  NoRequest = NoRequest
INVARIANTS UsableRunsOut 
PROPERTIES PaymentBuysPeriod TaskSparesRenewed 
CHECK_DEADLOCK FALSE
