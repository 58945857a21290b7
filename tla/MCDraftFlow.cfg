SPECIFICATION Spec
CONSTANTS
  Orders = {o1, o2}
  Groups = {g1, g2, g3}
  Variants = {v1, v2}
  Ranges <- AllRanges
  Refs = {r1}
  Sweepers = {beat, request}
  MaxQty = 2
  MaxStock = 3
  BatchSize = 1
  NoOrder = NoOrder
  NoRef = NoRef
SYMMETRY DataSymmetry
INVARIANTS ReservationExact NoOversell OrdersAndItemsAgree GroupUniform ClientRefOnce
PROPERTIES PlacedKeepsItems SweepSparesRefreshed ExpiredIsFrozen LedgerSpec
CHECK_DEADLOCK FALSE
