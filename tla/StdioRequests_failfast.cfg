SPECIFICATION FairSpec
CONSTANTS
  r1 = r1
  None = None
  Requests = {r1}
  MaxConcurrent = 1
  MaxGen = 2
CHECK_DEADLOCK FALSE
PROPERTY FailsFast
