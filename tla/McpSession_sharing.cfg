SPECIFICATION Spec
CONSTANTS
  Callers = {c1, c2}
  c1 = c1
  c2 = c2
  Checker = ck
  Kinds = {"direct", "refresh"}
  MaxGen = 2
  MaxFailures = 1
  Served = 0
INVARIANT CallsFollowHandshake
PROPERTIES FailuresAreNotReplayed
CHECK_DEADLOCK FALSE
