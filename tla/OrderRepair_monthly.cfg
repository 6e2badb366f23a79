SPECIFICATION RepairSpec
CONSTANTS
  Plan = "monthly"
  Disputes = {d1}
  Refunds = {}
  Handlers = {w1}
  Reconcilers = {}
  Repairer = repairer
  MaxEvents = 3
PROPERTIES
  AdjustmentsFinish
CHECK_DEADLOCK FALSE
