SPECIFICATION PartsSpec
CONSTANTS
  Readers = {r1, r2}
  Writers = {w1, w2}
  TimeoutReaders = {r2}
  Limit = 1
  DiscardOverflow = FALSE
  MaxWrites = 1
  MaxBuffers = 2
  Requests = {1, 2, 3}
  Kind <- Kinds
  Forbidden = {}
  MayReap = TRUE
  NumTasks = 3
INVARIANTS WritesAreWhole NoLostWakeup StreamsAreWhole FramesInStep VisionIntact QueuesKept SessionsOwned RunIsRight XmuxLimits
PROPERTIES IsStream
SYMMETRY WriterSymmetry
CHECK_DEADLOCK FALSE
