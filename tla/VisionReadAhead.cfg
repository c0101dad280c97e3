SPECIFICATION Spec
CONSTANTS
  Talks = {"tls13"}
  ToFilter = 8
  MaxBuffers = 2
  Cuts = {"padding"}
INVARIANT ReadAheadKept
CHECK_DEADLOCK FALSE
