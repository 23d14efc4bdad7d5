SPECIFICATION Spec
CONSTANTS
  Savers = {s1, s2}
  Loaders = {l1, l2}
  Ids = {i1, i2, k1}
  CounterKeys = {k1}
  Nil = Nil
  Foreign = Foreign
  MaxRetries = 2
  TTL = 1
  MaxTime = 2
  MaxCrashes = 0
  LateExecution = FALSE
CHECK_DEADLOCK FALSE
SYMMETRY Symmetry
INVARIANTS
  TypeOK
  AtMostOnce
PROPERTIES
  
  ImplementsKeyStore
