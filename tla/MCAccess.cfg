SPECIFICATION ASpec
CONSTANTS
  k1 = k1
  a1 = a1
  g1 = g1
  p1 = p1
  p2 = p2
  t1 = t1
  t2 = t2
  r1 = r1
  r2 = r2
  m1 = m1
  m2 = m2
  Modules = {m1, m2}
  Rights = {"view"}
  Permissions = {p1, p2}
  Templates = {t1, t2}
  SubAdmins = {u1}
  Companies = {k1}
  StaffOf <- CStaff
  CategoriesOf <- CCategories
  Thresholds = {}
  Slots = {r1, r2}
  NoRow = NoRow
  NoCompany = NoCompany
  NoTemplate = NoTemplate
  NoThreshold = NoThreshold
  NoCall = NoCall
SYMMETRY Symmetry
INVARIANTS GrantsAgree OneDefault
CHECK_DEADLOCK FALSE
