SPECIFICATION Spec
CONSTANTS
  Deliveries = {d1}
  MaxCrashes = 0
  MaxEdits = 0
INVARIANT FailedIsExhausted
CHECK_DEADLOCK FALSE
