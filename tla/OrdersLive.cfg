SPECIFICATION FocusSpec
CONSTANTS
  MaxFailures = 2
  h1 = h1
  h2 = h2
  b1 = b1
  b2 = b2
  p1 = p1
  p2 = p2
  k1 = k1
  None = None
  Handler = {h1, h2}
  ItemId <- MCItemId
  LineTotal = {1, 2}
  Body = {b1, b2}
  Wanted <- MCWanted
  PayId = {p1, p2}
  FakeKey = {k1}
  RealAmount = {3}
  Workload <- LiveWork
  Retried <- LiveRetries
PROPERTY CheckoutRecovers
PROPERTY CancelRecovers
PROPERTY CreateRecovers
PROPERTY PublishedAsRequested
