SPECIFICATION Spec
CONSTANTS
  AutoBuffer = FALSE
  MiniProgramEnabled = FALSE
  HttpClients = {h1, h2}
  WsClients = {}
  HttpBodies <- WsText
  WsBodies <- NoBodies
  MaxSegments = 2
  MsgCap = 2
  AckCap = 2
CHECK_DEADLOCK FALSE
INVARIANTS
  NoForgedSuccess
