CONSTANTS
  ConnType = "http"
  Self = Self
  Peers = {p1}
  Groups = {}
  Clients = {c1}
  MaxFrames = 1
  MaxSize = 1
  MaxAsks = 0
  None = None
SPECIFICATION Spec
CHECK_DEADLOCK FALSE
INVARIANTS
  OwnMessagesInTheirChats
