SPECIFICATION FairSpec
CONSTANTS
  Deliveries = {d1, d2}
  MaxCrashes = 1
  MaxEdits = 2
INVARIANTS
  WebhookTypeOK
  DeliveredOnce
  PendingIsExplained
PROPERTIES
  ImplementsDelivery
  EventSettles
CHECK_DEADLOCK FALSE
