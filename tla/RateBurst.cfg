SPECIFICATION Spec
CONSTANTS
  Sessions = {"s1", "s2"}
  Global = "global"
  Chunks = {1, 2}
  SessionConfigs <- Slow
  GlobalConfigs <- SlowOrFast
  Reconfigurations = 1
  Peers = 2
  MaxRate = 2
  Allowance = 2
  AgeCap = 2
INVARIANTS TypeOK BurstBound PauseHolds
