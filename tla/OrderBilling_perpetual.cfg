SPECIFICATION Spec
CONSTANTS
  Plan = "perpetual_v1"
  Disputes = {d1}
  Refunds = {f1}
  Handlers = {w1}
  Reconcilers = {rec}
  Repairer = repairer
  MaxEvents = 3
INVARIANTS
  TypeOK
  OneLicense
  SettledBlockRestricts
  Converged
CHECK_DEADLOCK FALSE
