SPECIFICATION FairSpec
CONSTANTS
  Restarters = {}
  Requests = {}
  MaxGen = 3
  MaxStops = 1
  MaxRestarts = 1
  MaxBackoff = 0
  AutoRestart = TRUE
  Stable = FALSE
  Prompt = TRUE
CHECK_DEADLOCK FALSE
PROPERTIES
  CrashesAreHandled
  StopTerminates
INVARIANTS
  BudgetBoundsRespawns
