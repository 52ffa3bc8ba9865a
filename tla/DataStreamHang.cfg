SPECIFICATION FairSpec
CONSTANT MaxItems = 1
PROPERTY StopReturns
CHECK_DEADLOCK FALSE
