CONSTANTS
  Events = {e1, e2, e3}
  Unsupported = {e2}
  Unusable = {e3}
  Processes = {p1, p2}
  NoEvent = NoEvent
  BatchSize = 1
  MaxBatches = 1
  MaxAttempts = 2
  MaxFaults = 1
  MaxRecorded = 1
SPECIFICATION FairSpec
CHECK_DEADLOCK FALSE
INVARIANTS PublishedWasSent
PROPERTIES PromiseKept EverySettles 
