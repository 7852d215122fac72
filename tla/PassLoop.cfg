SPECIFICATION FairSpec
CONSTANTS
  Loops = {executor}
  Limit = 2
  Interval = 4
  Jitter = 1
  MaxDelay = 3
  Timeout = 2
  MaxLate = 5
  MaxClockSets = 1
  None = None
INVARIANTS
  TypeOK
  TeardownAfterDrain
PROPERTIES
  TimelineKept
  StopResolves
  LoopGoesOn
