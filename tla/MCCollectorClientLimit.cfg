SPECIFICATION Spec
CONSTANTS
  MaxEvents = 4
  Unencodable = {}
  MaxRetries = 1
  EventCap = 3
  GrpcCap = 1
  MaxBuffer = 2
  Size <- MCUnitSize
  MessageLimit = 3
INVARIANTS
  RequestsFit
CHECK_DEADLOCK FALSE
