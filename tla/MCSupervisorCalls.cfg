SPECIFICATION DeviceFairSpec
CONSTANTS
  Serial = {d1}
  NoSerial = NoSerial
  MinPort = 7400
  MaxPort = 7409
  Unit = 1000
  Loop = Loop
  Admin = {a1}
  Caller = {c1}
  MaxDs = 2
  None = None
CHECK_DEADLOCK FALSE
INVARIANTS
  SessionMatchesState
  ClaimedHasCapture
  ShutdownFreesPorts
PROPERTIES
  TeardownCompletes
