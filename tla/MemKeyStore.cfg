SPECIFICATION FairSpec
CONSTANTS
  Savers = {s1, s2}
  Loaders = {l1, l2}
  Ids = {i1, i2}
  Nil = Nil
  TTL = 1
  MaxTime = 2
CHECK_DEADLOCK FALSE
INVARIANTS
  TypeOK
PROPERTIES
  ImplementsKeyStore
  EveryCallReturns
