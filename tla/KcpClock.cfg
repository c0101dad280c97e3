SPECIFICATION Spec
CONSTANTS
  MaxCloses = 0
  MaxWrites = 0
  Silences = FALSE
  PeerCloses = TRUE
INVARIANT ClosedLocally
CHECK_DEADLOCK FALSE
