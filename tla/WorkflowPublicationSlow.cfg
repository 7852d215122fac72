SPECIFICATION Spec
CONSTANTS
  Mains = {m1, m2}
  None = None
  v1 = v1
  v2 = v2
  cron = cron
  mail = mail
  hourly = hourly
  daily = daily
  inbox = inbox
  Versions = {v1, v2}
  Nodes = {cron, mail}
  Triggers <- ChangeAndDrop
  MaxTrouble = 1
  MaxRequests = 1
  SlowApplies = TRUE
INVARIANT
  SerializedPerWorkflow
