SPECIFICATION FairSpec
CONSTANTS
  Savers = {s1, s2}
  Loaders = {l1}
  Ids = {i1, i2, k1}
  CounterKeys = {k1}
  Nil = Nil
  Foreign = Foreign
  MaxRetries = 1
  TTL = 0
  MaxTime = 0
  MaxCrashes = 1
  LateExecution = TRUE
CHECK_DEADLOCK FALSE
INVARIANTS
  RightRecord
PROPERTIES
  EveryCallEnds
