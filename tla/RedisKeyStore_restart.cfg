SPECIFICATION Spec
CONSTANTS
  Savers = {s1}
  Loaders = {l1, l2}
  Ids = {i1, k1}
  CounterKeys = {k1}
  Nil = Nil
  Foreign = Foreign
  MaxRetries = 0
  TTL = 1
  MaxTime = 1
  MaxCrashes = 1
  LateExecution = FALSE
CHECK_DEADLOCK FALSE
INVARIANTS
  AtMostOnce
