SPECIFICATION FairSpec
CONSTANTS
  LicensePlan = "perpetual_v1"
  Installations = {i1}
  Requests = {r1, r2, r3}
  Keys = {k1, k2}
  IdempotencyKeys = {m1}
  MaximumActivations = 1
  MaxRevision = 3
  ReplayLifetime = 1
  MaxDay = 0
  NoTime = NoTime
  NoOne = NoOne
PROPERTIES
  EveryRequestAnswered
