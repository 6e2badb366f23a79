SPECIFICATION Spec
CONSTANTS
  LicensePlan = "monthly"
  Installations = {i1}
  Requests = {r1, r2, r3}
  Keys = {k1}
  IdempotencyKeys = {m1, m2}
  MaximumActivations = 2
  MaxRevision = 2
  ReplayLifetime = 1
  MaxDay = 1
  NoTime = NoTime
  NoOne = NoOne
SYMMETRY SafetySymmetry
INVARIANTS
  ReplayExecutesOnce
  SignedInGoodStanding
