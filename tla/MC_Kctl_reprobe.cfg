CONSTANTS
  Ops = {"connect", "stop"}
  Faults = {"hang"}
  MaxInst = 2
  MaxHung = 1
SPECIFICATION Spec
INVARIANT
  RingsAreCurrent
CHECK_DEADLOCK FALSE
