SPECIFICATION Spec
CONSTANTS
  Tabs = {t1, t2}
  MaxLogins = 2
  MaxCalls = 2
INVARIANT ProfileIsOwn
PROPERTY LoginSettles
