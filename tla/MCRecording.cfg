SPECIFICATION RecSpec
CONSTANTS
  Spot = {1, 2, 3}
  Near <- MCNear
  NodeAt <- MCNodeAt
  NoNode = NoNode
  NoId = NoId
  MaxGesture = 3
  MaxSession = 2
CHECK_DEADLOCK FALSE
INVARIANTS
  GesturesRecorded
  ScriptFaithful
