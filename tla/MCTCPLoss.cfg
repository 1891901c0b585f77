CONSTANTS
  SeqSpace = 16
  WordSpace = 64
  NoByte = NoByte
  MaxWindow = 8
  MaxPayload = 2
  RtTimeout = 1
  MaxRTO = 4
  MaxRetx = 2
  LingerTimeouts = 2
  ISN <- MCISN
  StreamSize <- MCUneven
  SendCapacity = 2
  RecvCapacity = 2
  SameClock = FALSE
  MaxInFlight = 0
  MaxReorder = 0
  Budgets <- MCOneLoss
SPECIFICATION FairSpec
INVARIANTS
  RespectsWindow
  BackoffInStep
  QuietMeansDelivered
PROPERTIES
  EverythingIsRead
CHECK_DEADLOCK FALSE
