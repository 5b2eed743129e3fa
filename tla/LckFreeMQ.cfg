CONSTANTS
  NumItem = 12
  MaxQueueSize = 4
SPECIFICATION FairSpec
INVARIANTS CleanDelete
PROPERTIES ImplementsAbsMQ Termination
CHECK_DEADLOCK FALSE
