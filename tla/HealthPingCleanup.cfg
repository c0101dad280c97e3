SPECIFICATION Spec
CONSTANTS
  Tags = {"a", "b"}
  Permanent = {"a"}
  Sampling = 1
  MaxRounds = 3
  MaxTime = 2
  Rtts = {1}
INVARIANT CleanupSparesValid
CHECK_DEADLOCK FALSE
