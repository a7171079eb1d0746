SPECIFICATION Spec
CONSTANTS
  MaxEvents = 5
  Unencodable <- MCUnencodable
  MaxRetries = 2
  EventCap = 2
  GrpcCap = 1
  MaxBuffer = 2
  Size <- MCSize
  MessageLimit = 3
INVARIANTS
  InTransit
  ShutdownDelivers
  RefusedOnlyIfBroken
  BudgetHolds
PROPERTIES
  PushReturns
  ShutdownReturns
  DeliverySpec
CHECK_DEADLOCK FALSE
