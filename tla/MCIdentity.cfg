SPECIFICATION IdentitySpec
CONSTANTS
  a1 = a1
  a2 = a2
  b = b
  p1 = p1
  p2 = p2
  p3 = p3
  m1 = m1
  m2 = m2
  mail = mail
  MAIL = MAIL
  other = other
  d1 = d1
  d2 = d2
  Workers = {w1, w2, w3}
  MaxCodes = 2
  MaxGuesses = 7
  MaxCrashes = 1
  Requests = {a1, a2, b, p1, p2, p3, m1, m2}
  Kind <- MCKind
  Email <- MCEmail
  Sent <- MCSent
  Role <- MCRole
  Owner <- MCOwner
  Document <- MCDocument
  NoRequest = NoRequest
  Keys = {k1, k2}
  NoKey = NoKey
  NoForm = NoForm
SYMMETRY Symmetry
INVARIANTS
  IdentityTypeOK
  GuessesBounded
  RefusedForCause
PROPERTIES
  LockoutHolds
  StaysInactive
CHECK_DEADLOCK FALSE
