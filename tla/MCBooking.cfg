SPECIFICATION MCBookingSpec
CONSTANTS
  Serial = {d1}
  Session = {1, 2}
  NoSerial = NoSerial
  Port = {7400}
  NoPort = 0
  Releaser = {x}
  Idle = Idle
  Absent = Absent
  Faults = {TRUE, FALSE}
CHECK_DEADLOCK FALSE
PROPERTY HandlersReturn
INVARIANTS
  GrantBacked
  ClaimedHasActiveSession
