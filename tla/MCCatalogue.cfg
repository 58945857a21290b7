SPECIFICATION Spec
CONSTANTS
  p1 = p1
  v1 = v1
  v2 = v2
  s1 = s1
  s2 = s2
  Products = {p1}
  Variants = {v1, v2}
  Sizes = {s1, s2}
  ProductOf <- CProductOf
  VariantOf <- CVariantOf
  Reorder <- CReorder
  MaxStock = 2
  Requests = {r1, r2}
  NoStock = NoStock
  NoRequest = NoRequest
SYMMETRY Symmetry
INVARIANTS  PagesAgree LedgerTells
CHECK_DEADLOCK FALSE
