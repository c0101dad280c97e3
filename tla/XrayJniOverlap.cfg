\* A crashed process takes no further step.
SPECIFICATION Spec
CONSTANTS
  Callers = {c1, c2}
  MaxInstances = 2
  NumFeatures = 2
  Panics = FALSE
  HostSerialises = FALSE
INVARIANT AtMostOneInstance
CHECK_DEADLOCK FALSE
