SPECIFICATION Spec
CONSTANTS
  AutoBuffer = FALSE
  MiniProgramEnabled = FALSE
  HttpClients = {h1, h2}
  WsClients = {w1}
  HttpBodies <- WsText
  WsBodies <- WsText
  MaxSegments = 1
  MsgCap = 2
  AckCap = 2
CHECK_DEADLOCK FALSE
INVARIANTS
  TypeOK
  SuccessEarnedBeforeAnyTimeout
  EachAckCreditedOnce
  StaleAcksBounded
PROPERTIES
  SlotsClearedByOwner
  ImplementsContract
