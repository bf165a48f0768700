SPECIFICATION Spec
CONSTANTS
  MyId = 1
  OtherId = 2
  Token = 7
  UdpPorts = {4243}
  SplitReads = FALSE
  MaxIds = 2
  MaxInFlight = 1
INVARIANT AcceptedClientGetsIn
CHECK_DEADLOCK FALSE
