CONSTANTS
  NumItem = 10
  MaxQueueSize = 4
SPECIFICATION FairSpec
PROPERTIES ImplementsAbsMQ EveryItemDelivered
CHECK_DEADLOCK FALSE
