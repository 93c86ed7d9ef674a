SPECIFICATION CollectionsSpec
CONSTANTS
  i1 = i1
  i2 = i2
  p1 = p1
  p2 = p2
  r1 = r1
  r2 = r2
  k1 = k1
  Workers = {w1}
  Installments = {i1, i2}
  Charges = {p1, p2, r1, r2}
  Customers = {k1}
  ChargeOf <- MCChargeOf
  CustomerOf <- MCCustomerOf
  Amount <- MCAmount
  PlanCharges = {p1, p2}
  Reissued = {}
  InitialUsed <- MCInitialUsed
  HasWebhookUrl = FALSE
  PaidAtForms = {"sent", "now"}
  NoCharge = NoCharge
  MaxCalls = 1
  MaxCrashes = 1
  Due <- MCDue
  Days = {0, 8}
  Contacts <- MCContacts
  NoInstallment = NoInstallment
INVARIANTS
  CollectionsTypeOK
  OneActiveCharge
  OverdueIsPayable
  OneReminderADay
  EveryChannelTried
PROPERTY PaidStaysPaid
CHECK_DEADLOCK FALSE
