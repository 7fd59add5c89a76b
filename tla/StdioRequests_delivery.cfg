SPECIFICATION Spec
CONSTANTS
  r1 = r1
  r2 = r2
  None = None
  Requests = {r1, r2}
  MaxConcurrent = 2
  MaxGen = 2
CHECK_DEADLOCK FALSE
SYMMETRY Symmetry
INVARIANTS NoCrossDelivery LoadIsExact DeliverNeverBlocks
PROPERTY KeepsPromise
