SPECIFICATION FairSpec
CONSTANT Callers = {1}
PROPERTY SetTimeoutReturns
CHECK_DEADLOCK FALSE
