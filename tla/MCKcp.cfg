SPECIFICATION PartsSpec
CONSTANTS
  Half = 7
  MaxPush = 3
  SendWindow = 1
  RecvWindow = 2
  InFlight = 2
  InitialNext = 1
  Magic = 1
  AckLimit = 1
  NetCap = 2
  MaxData = 2
  Timeouts = FALSE
  ServerMayClose = FALSE
  Ids = {1, 2}
  Capacity = 1
  MaxConns = 2
  Twice = FALSE
  MayClose = TRUE
INVARIANTS KcpDelivers 
 
CHECK_DEADLOCK FALSE
