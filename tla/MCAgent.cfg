SPECIFICATION MCAgentSpec
CONSTANTS
  Command = {1, 2}
  Conn = {1, 2}
  NoConn = NoConn
  Nobody = Nobody
  MaxReplies = 1
CHECK_DEADLOCK FALSE
INVARIANTS
  PendingAccounted
PROPERTIES
  ActiveConnKept
  CommandsReturn
  StopReturns
