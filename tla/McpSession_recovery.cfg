SPECIFICATION FairSpec
CONSTANTS
  Callers = {c1}
  c1 = c1
  Checker = ck
  Kinds = {"direct", "invoke", "refresh", "schema"}
  MaxGen = 2
  MaxFailures = 2
  Served = 2
PROPERTIES StuckSessionEnds  CallsReturn
CHECK_DEADLOCK FALSE
