SPECIFICATION FairSpec
CONSTANTS
  Requests = {r1, r2}
  Hosts = {public, proxy}
  Ports = {1, 2}
  Private = {proxy}
  TrustXFF = TRUE
  Limit = 1
  Window = 2
  MaxRetries = 1
CHECK_DEADLOCK FALSE
INVARIANTS
  TypeOK
  
  
PROPERTIES
  LockoutEnds
