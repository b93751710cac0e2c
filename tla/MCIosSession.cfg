SPECIFICATION FairWorkerSpec
CONSTANTS
  c1 = c1
  c2 = c2
  u1 = u1
  u2 = u2
  Clients = {c1, c2}
  Users = {u1, u2}
  Wirings <- MCWirings
  NoUser = NoUser
  FailLimit = 2
  PollLimit = 1
  MaxExit = 2
  MaxSession = 2
  MaxCall = 1
CHECK_DEADLOCK FALSE
INVARIANTS
  NothingLeftRunning
PROPERTIES
  CreationExclusive
  WorkerStops
