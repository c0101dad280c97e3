SPECIFICATION PartsSpec
CONSTANTS
  Callers = {c1, c2, c3}
  MaxInstances = 3
  NumFeatures = 2
  Panics = FALSE
  HostSerialises = TRUE
  Owners = {"a", "b", "c"}
  MaxPuts = 0
  Forever = TRUE
  SetTimeouts = {1, 2}
  MaxConns = 3
  Inbounds = {"i", "j", "k"}
  Ports <- InboundPorts
  Networks <- InboundNetworks
  Outbounds = {"a", "b", "c"}
  TagOf <- Tagging
  Selectors = {1}
  Matches <- Matching
  Selecting = {1, 2}
  MaxChanges = 2
INVARIANTS AtMostOneInstance StatusAccurate PublishedIsWhole CallbacksOnce HandlersAreCurrent BalancersAreRight 
CHECK_DEADLOCK FALSE
