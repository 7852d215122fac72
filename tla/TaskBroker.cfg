SPECIFICATION FairSpec
CONSTANTS
  worker = worker
  spare = spare
  first = first
  second = second
  Runners = {worker}
  Requests = {first, second}
  Kind <- JavaScript
  MaxConcurrency = 1
  MaxOffers = 2
  None = None
INVARIANTS
  TypeOK
  OneAcceptPerRequest
  BrokerWithinCapacity
  NoForgottenExecution
PROPERTIES
  EveryRequestAnswered
  EverySlotFreed
CHECK_DEADLOCK FALSE
