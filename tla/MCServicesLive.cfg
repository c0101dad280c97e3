SPECIFICATION PartsSpec
CONSTANTS
  N = 3
PROPERTIES QueriesAnswered TasksEnd MessagesDelivered IdleIsNoticed
CHECK_DEADLOCK FALSE
