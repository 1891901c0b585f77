CONSTANTS
  SeqSpace = 16
  WordSpace = 64
  NoByte = NoByte
  MaxWindow = 8
  MaxPayload = 2
  RtTimeout = 1
  MaxRTO = 1
  MaxRetx = 0
  LingerTimeouts = 1
  ISN <- MCISN
  StreamSize <- MCTwoBytes
  SendCapacity = 2
  RecvCapacity = 2
  SameClock = FALSE
  MaxInFlight = 0
  MaxReorder = 1
  Budgets <- MCDisorder
SPECIFICATION Spec
INVARIANTS
  AckedIsInPlace
  OutstandingIsRecoverable
PROPERTIES
  ImplementsStream
CHECK_DEADLOCK FALSE
