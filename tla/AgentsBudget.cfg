SPECIFICATION Spec
CONSTANTS
  Setups <- Budgets
  Chunk = 20
  Interval = 2
  MaxTime = 5
  MaxDepth = 3
INVARIANTS CycleFits
CHECK_DEADLOCK FALSE
