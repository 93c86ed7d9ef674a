SPECIFICATION LendingSpec
CONSTANTS
  r1 = r1
  r2 = r2
  o1 = o1
  o2 = o2
  i1 = i1
  i2 = i2
  c1 = c1
  k1 = k1
  Workers = {w1, w2}
  Installments = {i1, i2}
  Charges = {c1}
  Customers = {k1}
  ChargeOf <- MCChargeOf
  CustomerOf <- MCCustomerOf
  Amount <- MCAmount
  PlanCharges = {}
  Reissued = {}
  InitialUsed <- MCInitialUsed
  HasWebhookUrl = TRUE
  PaidAtForms = {"sent"}
  NoCharge = NoCharge
  MaxCalls = 2
  MaxCrashes = 0
  Clerks = {s1}
  Requests = {r1, r2}
  Orders = {o1, o2}
  Buyer <- MCBuyer
  OrderOf <- MCOrderOf
  Given = {}
  Total <- MCTotal
  Mdr <- MCMdr
  Count <- MCCount
  Clear <- MCClear
  SerasaScore <- MCSerasaScore
  ApprovedLimit <- MCApprovedLimit
  NoRequest = NoRequest
  PlanOf <- MCPlanOf
  NumberOf <- MCNumberOf
  UrlAtCheckout = FALSE
  NoForm = NoForm
  MaxEdits = 1
INVARIANTS
  LimitCoversDebt
PROPERTIES
  PaidIsBooked
  PaidEventIsSent
CHECK_DEADLOCK FALSE
