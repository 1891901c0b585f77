CONSTANTS
  SeqSpace = 8
  WordSpace = 64
  Byte = {"a", "b", "c", "g"}
  Garbage = "g"
  NoByte = NoByte
  Source <- MCSource
  Capacity = 4
SPECIFICATION FairSpec
INVARIANTS
  StreamIntegrity
  HoldsExactlyAccepted
  NothingHeldBack
  ClosedExactlyWhenComplete
PROPERTIES
  EventuallyComplete
