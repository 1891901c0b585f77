CONSTANTS
  Broadcast = Broadcast
  NoAddress = NoAddress
  Garbled = Garbled
  NoHop = NoHop
  NoRoute = NoRoute
  MappingLifetime = 3
  RequestTimeout = 2
  AddressBits = 3
  OwnAddress <- MCOwnAddress
  Neighbour <- MCNeighbour
  Routes <- MCRoutes
  Destinations <- MCDestinations
  Lifetimes = {0, 1, 2}
  MaxDatagrams = 2
SPECIFICATION Spec
INVARIANTS
  LongestPrefix
  OrderKept
PROPERTIES
  FollowsBestRoute
  DroppedForReason
