SPECIFICATION FairTrackSpec
CONSTANTS
  Android = {a1}
  Ios = {i1}
  Capacity = 1
  MaxChange = 4
  MaxLoss = 2
CHECK_DEADLOCK FALSE
INVARIANTS
  NoGhost
PROPERTY AttachedRegistered
