SPECIFICATION FairIosSpec
CONSTANTS
  c1 = c1
  c2 = c2
  u1 = u1
  u2 = u2
  Clients = {c1}
  Users = {u1}
  Wirings <- MCWirings
  NoUser = NoUser
  FailLimit = 5
  PollLimit = 2
  MaxExit = 0
  MaxSession = 2
  MaxCall = 2
CHECK_DEADLOCK FALSE
PROPERTY EnsureReturns
