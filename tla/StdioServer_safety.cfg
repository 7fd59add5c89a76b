SPECIFICATION Spec
CONSTANTS
  c1 = c1
  q1 = q1
  Restarters = {c1}
  Requests = {q1}
  MaxGen = 3
  MaxStops = 1
  MaxRestarts = 1
  MaxBackoff = 2
  AutoRestart = TRUE
  Stable = FALSE
  Prompt = TRUE
CHECK_DEADLOCK FALSE
INVARIANTS
  
  
  DeadNeverHealthy
