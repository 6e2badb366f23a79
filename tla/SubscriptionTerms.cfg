SPECIFICATION Spec
CHECK_DEADLOCK FALSE
CONSTANTS
  Workers = {w1, w2}
  Requests = {r1}
  Period = 2
  Window = 2
  Grace = 1
  Refresh = 1
  MaxInvoices = 3
  MaxTime = 4
  MaxMoves = 3
  NoTime = NoTime
SYMMETRY Interchangeable
INVARIANTS
  TypeOK
  AccessIsPaid
  SignedInTime
  Converged
PROPERTIES
  RestrictionShortens
  ImplementsLicense
