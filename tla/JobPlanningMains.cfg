SPECIFICATION Spec
CONSTANTS
  Hosts = {h1, h2}
  cron = cron
  interval = interval
  never = never
  Rules = {cron, never}
  Schedule <- Cadence
  Versions <- NeverJoins
  Broken = {}
  None = None
  Window = 3
  Lookahead = 1
  MaxPerJob = 1
  PlanRetry = 2
  MaxTime = 4
  Horizon = 12
  Budget <- TwoVersions
SYMMETRY Mains
INVARIANTS
  ClockMatchesRecord
  
