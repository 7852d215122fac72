SPECIFICATION FairSpec
CONSTANTS
  MaxExecutions = 2
  Limits = {1, 2}
  MaxWaits = 1
  MaxRequests = 2
  MaxEnds = 1
  None = None
INVARIANTS
  
  NoIdleSlot
  OneRunPerExecution
PROPERTIES
  
  QueueDrains
  WaitingIsResumed
CHECK_DEADLOCK FALSE
