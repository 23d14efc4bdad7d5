SPECIFICATION FairSpec
CONSTANTS
  Creates = {c1}
  Fetches = {f1, f2}
  NoRecord = NoRecord
CHECK_DEADLOCK FALSE
INVARIANTS
  TypeOK
  OnlyLoadConsumes
  
  
PROPERTIES
  EveryRequestEnds
  
