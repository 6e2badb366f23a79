SPECIFICATION RepairSpec
CONSTANTS
  Plan = "perpetual_v1"
  Disputes = {d1}
  Refunds = {f1}
  Handlers = {w1}
  Reconcilers = {}
  Repairer = repairer
  MaxEvents = 3
PROPERTIES
  AdjustmentsFinish
CHECK_DEADLOCK FALSE
