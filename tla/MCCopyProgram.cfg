CONSTANTS
  SeqSpace = 16
  WordSpace = 64
  NoByte = NoByte
  MaxWindow = 8
  MaxPayload = 2
  RtTimeout = 1
  MaxRTO = 1
  MaxRetx = 0
  LingerTimeouts = 1
  PairCapacity = 1
  ReadBufferSize = 4
  CopyCapacity = 1
  SendCapacity = 1
  RecvCapacity = 2
  LocalISN = 14
  RemoteISN = 13
  Worlds <- MCWorlds
SPECIFICATION FairSpec
INVARIANTS
  NoSpuriousException
  KilledOnlyAfterFault
PROPERTIES
  ImplementsStream
  ProgramFinishes
  ResetEndsProgram
  AbortEndsThread
CHECK_DEADLOCK FALSE
