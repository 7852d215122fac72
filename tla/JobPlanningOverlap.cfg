SPECIFICATION Spec
CONSTANTS
  Hosts = {h1, h2}
  cron = cron
  interval = interval
  never = never
  Rules = {cron, interval}
  Schedule <- Cadence
  Versions <- GrowAndShrink
  Broken = {}
  None = None
  Window = 2
  Lookahead = 1
  MaxPerJob = 1
  PlanRetry = 2
  MaxTime = 1
  Horizon = 12
  Budget <- OneUnpublish
SYMMETRY Mains
INVARIANTS
  TypeOK
  ActivationConverges
PROPERTIES
  RecordedUntilRemoved
