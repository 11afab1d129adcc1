CONSTANTS
  ConnType = "websocket"
  Self = Self
  Peers = {p1}
  Groups = {g}
  Clients = {c1, c2}
  MaxFrames = 2
  MaxSize = 2
  MaxAsks = 2
  None = None
  Callers = {worker, status, admission, cancel}
  MaxRuns = 3
SPECIFICATION SpecEither
CHECK_DEADLOCK FALSE
INVARIANTS
  FrameInOrder
  SelfIdFromTraffic
  RepliesNeverGoBack
  NoCallIntoUnloaded
PROPERTIES
  NewestIsRead
  SignalExits
  GoneIsNoticed
