SPECIFICATION Spec
CONSTANTS
  Savers = {s1}
  Loaders = {l1}
  Ids = {i1, k1}
  CounterKeys = {k1}
  Nil = Nil
  Foreign = Foreign
  MaxRetries = 1
  TTL = 1
  MaxTime = 1
  MaxCrashes = 0
  LateExecution = FALSE
CHECK_DEADLOCK FALSE
INVARIANTS
  NotFoundMeansFetched
