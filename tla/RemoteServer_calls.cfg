SPECIFICATION FairSpec
CONSTANTS
  c1 = c1
  c2 = c2
  NoCaller = NoCaller
  Callers = {c1, c2}
  MaxClients = 2
  Stream = TRUE
CHECK_DEADLOCK FALSE
INVARIANTS NoClientLeaks RunningHasClient
PROPERTIES RetryReconnects 
