SPECIFICATION FairSpec
CONSTANTS
  Hosts = {h1}
  cron = cron
  interval = interval
  never = never
  Rules = {cron, interval}
  Schedule <- Cadence
  Versions <- GrowAndShrink
  Broken = {interval}
  None = None
  Window = 1
  Lookahead = 1
  MaxPerJob = 2
  PlanRetry = 2
  MaxTime = 3
  Horizon = 12
  Budget <- OneAbort
PROPERTIES
  DueIsPlanned
