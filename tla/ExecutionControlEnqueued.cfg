SPECIFICATION FairSpec
CONSTANTS
  MaxExecutions = 1
  Limits = {1}
  MaxWaits = 0
  MaxRequests = 0
  MaxEnds = 1
  None = None
PROPERTIES
  EnqueuedExecutionsStart
CHECK_DEADLOCK FALSE
