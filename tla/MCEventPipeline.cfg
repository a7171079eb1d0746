SPECIFICATION Spec
CONSTANTS
  root = root
  clone = clone
  sender = sender
  Owners <- MCObservers
  Observers <- MCObservers
  Root = root
  Senders <- MCSenders
  BatchHint = 2
  MaxEmits = 2
INVARIANTS
  TypeOK
  Conservation
  OwnersNeverRefused
  DropFlushes
  HandledInSendOrder
PROPERTIES
  DropCompletes
  AcceptedIsHandled
  DeliverySpec
CHECK_DEADLOCK FALSE
