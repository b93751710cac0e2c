SPECIFICATION FairAutoSpec
CONSTANTS
  t1 = t1
  t2 = t2
  b1 = b1
  d1 = d1
  p1 = p1
  p2 = p2
  Task = {t1, t2}
  Batch = {b1}
  Device = {d1}
  BatchOf <- MCBatchOf
  SerialOf <- MCSerialOf
  Run = {t1, t2}
  Phone = {d1}
  PhoneOf <- MCSerialOf
  Package = {p1, p2}
  Scripts <- MCScripts
  MaxRetries = 2
  MaxScrolls = 1
  MaxFault = 1
  MaxFlip = 1
CHECK_DEADLOCK FALSE
INVARIANTS
  BatchesSafe
  ReportFaithful
  LaunchedAppsStopped
  OverlapOnlyAbandoned
PROPERTIES
  CancelledRunReturns
