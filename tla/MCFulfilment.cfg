SPECIFICATION SerialSpec
CONSTANTS
  Orders = {o1, o2}
  Groups = {g1, g2}
  Variants = {v1}
  Ranges <- AllRanges
  Refs = {}
  Sweepers = {beat}
  MaxQty = 2
  MaxStock = 3
  BatchSize = 1
  NoOrder = NoOrder
  NoRef = NoRef
  NoRequest = NoRequest
  Requests = {r1, r2}
  Ops <- GuardedOps
  PackIn <- WarehouseStatuses
SYMMETRY IdSymmetry
INVARIANTS HeldExact ShelfCoversHeld  ShippedIsPacked
CHECK_DEADLOCK FALSE
