SPECIFICATION PartsSpec
CONSTANTS
  Writers = {1}
  MaxRays = 2
  Capacity = 1
  MaxPackets = 1
INVARIANTS RaysAccounted
PROPERTIES LinksMove MuxWindsDown EndsByItself
CHECK_DEADLOCK FALSE
