SPECIFICATION UnitSpec
CONSTANTS
  Android = {a1}
  Ios = {i1}
  Capacity = 1
  MaxChange = 2
  MaxLoss = 1
  MaxEvent = 4
  MaxStream = 2
  MaxOutage = 1
CHECK_DEADLOCK FALSE
INVARIANTS
  ListFollowsRegistry
PROPERTIES
  AttachedAvailable
