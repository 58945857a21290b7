SPECIFICATION SerialSpec
CONSTANTS
  Invoices = {i1, i2}
  Payments = {p1, p2}
  Customers = {c1, c2}
  Requests = {r1, r2}
  MaxAmount = 2
  NoInvoice = NoInvoice
  NoPayment = NoPayment
  NoCustomer = NoCustomer
  NoRequest = NoRequest
SYMMETRY RowSymmetry
INVARIANTS PaymentsCounted StatusTells OutstandingCovers
CHECK_DEADLOCK FALSE
