SPECIFICATION Spec
CONSTANTS
  a1 = a1
  a2 = a2
  c1 = c1
  c2 = c2
  k1 = k1
  o1 = o1
  o2 = o2
  n1 = n1
  Agents = {a1, a2}
  Customers = {c1, c2}
  HomeOf <- CHome
  CreditLimit <- CLimits
  Terms <- CTerms
  Members <- CMembers
  Orders = {o1, o2}
  Notes = {n1}
  TotalOf <- CTotals
  TaxOf <- CTaxes
  Away <- CAway
  Days <- CDays
  Written = {"draft", "confirmed", "dispatched", "delivered", "cancelled"}
  DueDates <- CDueDates
  MaxEvents = 2
  MonthStart <- CMonthStart
  NoAgent = NoAgent
  NoRow = NoRow
  NoDate = NoDate
INVARIANTS  SalesAgree  
CHECK_DEADLOCK FALSE
