SPECIFICATION Spec
CONSTANTS
  i1 = i1
  i2 = i2
  c1 = c1
  c2 = c2
  c3 = c3
  k1 = k1
  Workers = {w1, w2}
  Installments = {i1, i2}
  Charges = {c1, c2, c3}
  Customers = {k1}
  ChargeOf <- MCChargeOf
  CustomerOf <- MCCustomerOf
  Amount <- MCAmount
  PlanCharges = {c1, c3}
  Reissued = {c2}
  InitialUsed <- MCInitialUsed
  HasWebhookUrl = TRUE
  PaidAtForms = {"sent", "now"}
  NoCharge = NoCharge
  MaxCalls = 2
  MaxCrashes = 1
SYMMETRY Symmetry
INVARIANTS
  TypeOK
  PostedIsMarked
  OncePerProcess
  ImbalanceExplained
PROPERTIES
  SettledIsFrozen
  ImplementsBooking
CHECK_DEADLOCK FALSE
