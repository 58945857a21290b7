SPECIFICATION FSpec
CONSTANTS
  Orders = {o1}
  Groups = {g1}
  Variants = {v1}
  Ranges <- AllRanges
  Refs = {}
  Sweepers = {}
  MaxQty = 1
  MaxStock = 1
  BatchSize = 1
  NoOrder = NoOrder
  NoRef = NoRef
  NoRequest = NoRequest
  Requests = {r1, r2}
  Ops = {"status", "approve", "pack", "dispatch", "cancel", "edit", "deliver", "track"}
  PackIn <- WarehouseStatuses
SYMMETRY IdSymmetry
PROPERTIES ShippedOnce StockOnlyShipped
CHECK_DEADLOCK FALSE
