SPECIFICATION AccessSpec
CHECK_DEADLOCK FALSE
CONSTANTS
  MaxUid = 3
  MaxGid = 4
  Email = {"root", "b"}
  Root = "root"
  GName = {"Public", "g"}
  Public = "Public"
  Device = {"d"}
  Req = {r1, r2}
  MaxCalls = 3
  Client = {a, b}
  Handler = {h1, h2}
  Unlocked = unlocked
INVARIANTS
  AdminsJoined
  ListsFresh
PROPERTIES
  ChangePushed
