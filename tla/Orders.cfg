SPECIFICATION Spec
CONSTANTS
  h1 = h1
  h2 = h2
  b1 = b1
  b2 = b2
  p1 = p1
  p2 = p2
  p3 = p3
  k1 = k1
  k2 = k2
  None = None
  Handler = {h1, h2}
  ItemId <- MCItemId
  LineTotal = {1, 2}
  Body = {b1, b2}
  Wanted <- MCWanted
  PayId = {p1, p2}
  FakeKey = {k1, k2}
  RealAmount = {3}
  Workload <- OrderWork
SYMMETRY HandlerSymmetry
INVARIANT FakePaymentCovers
INVARIANT ChargedOnce
INVARIANT CancelledIsRefunded
PROPERTY PaymentPinsOrder
PROPERTY ImplementsContract
