SPECIFICATION FairSpec
CONSTANTS
  AutoBuffer = TRUE
  MiniProgramEnabled = TRUE
  HttpClients = {h1}
  WsClients = {w1}
  HttpBodies <- CardLists
  WsBodies <- WsMedia
  MaxSegments = 2
  MsgCap = 1
  AckCap = 1
CHECK_DEADLOCK FALSE
PROPERTIES
  ImplementsContract
  EveryRequestEnds
  ClassicSlotFreed
