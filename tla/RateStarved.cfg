SPECIFICATION FairSpec
CONSTANTS
  Sessions = {"s1"}
  Global = "global"
  Chunks = {2}
  SessionConfigs <- Unlimited
  GlobalConfigs <- Limited
  Reconfigurations = 0
  Peers = 2
  MaxRate = 1
  Allowance = 2
  AgeCap = 2
PROPERTIES Served
