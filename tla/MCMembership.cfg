SPECIFICATION Spec
CONSTANTS
  Agents = {a1}
  Companies = {c1, c2}
  Invites = {i1}
  MaxUses = {1}
  Front = {f1, f2}
  Office = {o1, o2}
  Staffed = {c1}
  MaxJoins = 3
  NoCompany = NoCompany
  NoRequest = NoRequest
SYMMETRY Symmetry
INVARIANTS UsesBounded ActiveWasApproved
CHECK_DEADLOCK FALSE
