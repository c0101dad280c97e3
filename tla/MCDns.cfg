SPECIFICATION PartsSpec
CONSTANTS
  Domains = {"d1", "d2", "d3", "d4"}
  Rooms = 4
  LruSize = 2
INVARIANTS Bijective EvictionIsRight NoLostWakeup    RaceIsRight
CHECK_DEADLOCK FALSE
