CONSTANTS
  SeqSpace = 16
  WordSpace = 64
  NoByte = NoByte
  MaxWindow = 8
  MaxPayload = 2
  RtTimeout = 1
  MaxRTO = 4
  MaxRetx = 2
  LingerTimeouts = 2
  ISN <- MCISN
  StreamSize <- MCBothWays
  SendCapacity = 2
  RecvCapacity = 3
  SameClock = TRUE
  MaxInFlight = 0
  MaxReorder = 0
  Budgets <- MCLossOrReset
SPECIFICATION FairSpec
INVARIANTS
  QuietMeansEnded
PROPERTIES
  Finishes
  ErrorReachesBoth
CHECK_DEADLOCK FALSE
