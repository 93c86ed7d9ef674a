SPECIFICATION CollectionsSpec
CONSTANTS
  i1 = i1
  i2 = i2
  p1 = p1
  p2 = p2
  r1 = r1
  r2 = r2
  k1 = k1
  Workers = {w1}
  Installments = {i1, i2}
  Charges = {p1, p2, r1, r2}
  Customers = {k1}
  ChargeOf <- MCChargeOf
  CustomerOf <- MCCustomerOf
  Amount <- MCAmount
  PlanCharges = {p1, p2}
  Reissued = {}
  InitialUsed <- MCInitialUsed
  HasWebhookUrl = FALSE
  PaidAtForms = {"sent"}
  NoCharge = NoCharge
  MaxCalls = 0
  MaxCrashes = 0
  Due <- MCDue
  Days = {0, 2, 8}
  Contacts <- MCContacts
  NoInstallment = NoInstallment
INVARIANT OverdueSuspends
CHECK_DEADLOCK FALSE
