SPECIFICATION FairSpec
CONSTANTS
  Setups <- MCSetups
  Chunk = 6
  Interval = 2
  MaxTime = 5
  MaxDepth = 3
INVARIANTS NeverNest EchoedBack BlocksWithin RoundsSpaced
PROPERTIES SubagentsFinish
CHECK_DEADLOCK FALSE
