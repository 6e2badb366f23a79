SPECIFICATION Spec
CONSTANTS
  Plan = "monthly"
  Disputes = {d1}
  Refunds = {f1}
  Handlers = {w1}
  Reconcilers = {}
  Repairer = repairer
  MaxEvents = 3
INVARIANTS
  RestrictedIsNotBilled
  PendingIsRetryable
  IntentIsPending
  Converged
PROPERTIES
  ImplementsLicense
CHECK_DEADLOCK FALSE
