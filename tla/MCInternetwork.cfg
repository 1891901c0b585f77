CONSTANTS
  Broadcast = Broadcast
  NoAddress = NoAddress
  Garbled = Garbled
  NoHop = NoHop
  NoRoute = NoRoute
  MappingLifetime = 1
  RequestTimeout = 1
  AddressBits = 4
  Host <- MCHost
  Gateway <- MCGateway
  Router <- MCRouter
  Ports <- MCPorts
  Table <- MCTable
  Segment <- MCSegment
  Attached <- MCAttached
  Traffic <- MCTraffic
  MaxDatagrams = 2
  MaxLosses = 1
SPECIFICATION FairSpec
PROPERTIES
  ImplementsService
  LoopsEnd
  ReachesHost
