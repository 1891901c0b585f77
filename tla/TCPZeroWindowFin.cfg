CONSTANTS
  SeqSpace = 16
  WordSpace = 64
  NoByte = NoByte
  MaxWindow = 8
  MaxPayload = 2
  RtTimeout = 1
  MaxRTO = 4
  MaxRetx = 2
  LingerTimeouts = 2
  ISN <- MCISN
  StreamSize <- MCBothWays
  SendCapacity = 2
  RecvCapacity = 2
  SameClock = FALSE
  MaxInFlight = 0
  MaxReorder = 0
  Budgets <- MCNoFault
SPECIFICATION Spec
INVARIANTS
  QuietMeansEnded
CHECK_DEADLOCK FALSE
