SPECIFICATION PartsSpec
CONSTANTS
  Links = {l1, l2, l3}
  MaxConcurrency = 2
  MaxConnection = 3
  IdSpace = 8
  Tries = 2
  MaxWorkers = 2
  Failures = TRUE
  MaxNew = 2
  Sessions = {1, 2}
  Pieces = 1
  LinkCap = 1
INVARIANTS WithinLimits NoneStranded AnyLinkFindsWorker FlowsAreWhole WorkersBounded
SYMMETRY LinkSymmetry
CHECK_DEADLOCK FALSE
