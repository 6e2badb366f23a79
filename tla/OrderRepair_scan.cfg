SPECIFICATION ScanSpec
CONSTANTS
  Plan = "perpetual_v1"
  Disputes = {d1}
  Refunds = {}
  Handlers = {w1}
  Reconcilers = {rec}
  Repairer = repairer
  MaxEvents = 3
PROPERTIES
  PaidIsServed
CHECK_DEADLOCK FALSE
