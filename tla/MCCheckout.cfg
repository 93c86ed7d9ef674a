SPECIFICATION FairSpec
CONSTANTS
  r1 = r1
  r2 = r2
  r3 = r3
  k1 = k1
  o1 = o1
  o3 = o3
  Workers = {w1, w2}
  Requests = {r1, r2, r3}
  Customers = {k1}
  Orders = {o1, o3}
  CustomerOf <- MCCustomerOf
  OrderOf <- MCOrderOf
  Given = {o1}
  Total <- MCTotal
  Mdr <- MCMdr
  Count <- MCCount
  Clear <- MCClear
  SerasaScore <- MCSerasaScore
  ApprovedLimit <- MCApprovedLimit
  HasWebhookUrl = TRUE
  NoRequest = NoRequest
  MaxCrashes = 1
INVARIANTS
  CheckoutTypeOK
  UsedIsReserved
  OvercommitBounded
  OwedIsReserved
  AnnouncedIsCollectable
  VelocityBound
PROPERTIES
  SuspensionHolds
  ApprovalCompletes
CHECK_DEADLOCK FALSE
