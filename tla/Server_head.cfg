SPECIFICATION Spec
CONSTANTS
  Creates = {c1}
  Fetches = {f1}
  NoRecord = NoRecord
CHECK_DEADLOCK FALSE
INVARIANTS
  ConsumedIsReturned
