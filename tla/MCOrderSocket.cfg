SPECIFICATION FairOSpec
CONSTANTS
  Orders = {o1}
  Groups = {g1}
  Variants = {v1}
  Ranges <- AllRanges
  Refs = {}
  Sweepers = {beat, request}
  Beat = beat
  MaxQty = 1
  MaxStock = 1
  BatchSize = 1
  Clients = {c1}
  MaxInbox = 3
  NoOrder = NoOrder
  NoRef = NoRef
  NoTask = NoTask
INVARIANTS LastWordTrue
PROPERTIES GhostsLeave ExpiredStockFreed
CHECK_DEADLOCK FALSE
