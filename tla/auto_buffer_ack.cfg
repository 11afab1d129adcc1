SPECIFICATION Spec
CONSTANTS
  AutoBuffer = TRUE
  MiniProgramEnabled = FALSE
  HttpClients = {h1}
  WsClients = {}
  HttpBodies <- WsText
  WsBodies <- NoBodies
  MaxSegments = 2
  MsgCap = 2
  AckCap = 2
CHECK_DEADLOCK FALSE
PROPERTIES
  AckReachesGo
