SPECIFICATION Spec
CONSTANTS
  Requests = {r1, r2}
  Addresses = {a1, a2}
  LicenseKeys = {k1}
  Emails = {e1}
  IdempotencyKeys = {i1, i2}
  AddressLimit = 2
  SubjectLimit = 1
  RateLimitWindow = 2
  ReplayLifetime = 2
  MaxTime = 3
  MaxCalls = 4
  None = None
SYMMETRY Interchangeable
INVARIANTS
  TypeOK
  AttemptsAreLimited
PROPERTIES
  OneJobPerKey
CHECK_DEADLOCK FALSE
