SPECIFICATION StreamSpec
CHECK_DEADLOCK FALSE
CONSTANTS
  MaxCaptures = 2
  MaxFrames = 3
  MaxTotal = 3
  Http = {h1}
  Ws = {w1}
  HttpCap = 1
  WsCap = 1
  Sock = {c1}
  Post = {p1}
  QueueCap = 2
  MaxEvents = 3
  Hand = {c1, c2}
  Point = {1, 2}
  Size = {s1, s2}
  MaxJobs = 2
INVARIANTS
  ViewsDecodable
  ResourcesOwned
  InputOrdered
  GesturesFaithful
PROPERTIES
  ImplementsFeed
  StopEndsAll
  ControlWritersEnd
