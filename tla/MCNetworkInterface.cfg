CONSTANTS
  Broadcast = Broadcast
  NoAddress = NoAddress
  Garbled = Garbled
  MappingLifetime = 4
  RequestTimeout = 2
  Hop = {h1, h2}
  Ethernet = {e1, e2}
  OwnIP = OwnIP
  OwnEthernet = OwnEthernet
  TickLengths = {1, 3}
  MaxDatagrams = 3
  MaxReceived = 1
SPECIFICATION FairSpec
INVARIANTS
  WaitsOnlyForAnswer
  InOrderOnce
  CacheIsCurrent
PROPERTIES
  GoesToNextHop
  RequestsAreRare
  DroppedOnlyOverdue
  NothingWaitsForEver
