SPECIFICATION Spec
CONSTANTS
  MyId = 1
  OtherId = 2
  Token = 7
  UdpPorts <- MCUdpPorts
  SplitReads = TRUE
  MaxIds = 3
  MaxInFlight = 2
INVARIANTS
  TypeOK
  ConnectedKnowsToken
  ShownWasTrue
  OrderedClientShowsWorld
CHECK_DEADLOCK FALSE
PROPERTIES
  ConnectReturns
  FirstPacketArrives
  NoBlackScreen
  HealthCatchesUp
