SPECIFICATION Spec
CONSTANTS
  e1 = e1
  e2 = e2
  g1 = g1
  g2 = g2
  Agents = {a1}
  Categories = {g1, g2}
  Entries = {e1, e2}
  Lines <- CLines
  Taxable <- CTaxable
  Explicit <- CExplicit
  Rates = {2, 3}
  Asked = {"approved", "paid", "adjusted"}
  Months = {1, 2}
  Requests = {r1, r2}
  NoRow = NoRow
  NoMonth = NoMonth
  NoRate = NoRate
  NoRequest = NoRequest
SYMMETRY Symmetry
INVARIANTS PayoutsAgree
PROPERTIES SettleReportsTruth AmountsKept
CHECK_DEADLOCK FALSE
