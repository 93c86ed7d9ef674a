SPECIFICATION Spec
CONSTANTS
  s1 = s1
  s2 = s2
  s3 = s3
  c1 = c1
  c2 = c2
  Requests = {s1, s2, s3}
  Checkouts = {c1, c2}
  CheckoutOf <- MCCheckoutOf
  Net <- MCNet
  HasWebhookUrl = TRUE
  NoSettlement = NoSettlement
  NoCheckout = NoCheckout
  MaxCrashes = 1
INVARIANTS
  SettlementsTypeOK
  PostedWasPaidOut
  PostedOncePerPayout
  AnnouncedIsPosted
PROPERTY SettledIsClosed
CHECK_DEADLOCK FALSE
