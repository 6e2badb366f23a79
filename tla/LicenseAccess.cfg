SPECIFICATION Spec
CONSTANTS
  Clients = {c1, c2}
  Links = {l1}
  IdempotencyKeys = {i1, i2}
  LinkLifetime = 1
  SessionLifetime = 1
  ReplayLifetime = 2
  Cooldown = 2
  MaxTime = 2
  MaxSessions = 2
  NoOne = NoOne
SYMMETRY Interchangeable
INVARIANT
  TypeOK
PROPERTIES
  ImplementsLedger
  RotatedKeyIsNotLost
  KeyIsCurrent
