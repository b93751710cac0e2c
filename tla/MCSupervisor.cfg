SPECIFICATION SupSpec
CONSTANTS
  Serial = {d1, d2, d3}
  NoSerial = NoSerial
  MinPort = 7400
  MaxPort = 7420
  Unit = 20
  Loop = Loop
  Admin = {a1}
  Caller = {}
  MaxDs = 3
  None = None
SYMMETRY SerialSymmetry
CHECK_DEADLOCK FALSE
INVARIANTS
  DerivedPortsApart
  PortOwned
  RegistryAgrees
  ShutdownFreesPorts
