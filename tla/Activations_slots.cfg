SPECIFICATION Spec
CONSTANTS
  LicensePlan = "perpetual_v1"
  Installations = {i1, i2, i3}
  Requests = {r1, r2, r3}
  Keys = {k1, k2}
  IdempotencyKeys = {m1, m2}
  MaximumActivations = 2
  MaxRevision = 2
  ReplayLifetime = 1
  MaxDay = 0
  NoTime = NoTime
  NoOne = NoOne
SYMMETRY SafetySymmetry
INVARIANTS
  TypeOK
  SlotLimit
  OneEntitlementPerRevision
  AnswersAreIssued
  NoReplayCollision
PROPERTIES
  ImplementsLedger
