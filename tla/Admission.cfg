SPECIFICATION FairSpec
CONSTANTS
  r1 = r1  r2 = r2  r3 = r3
  ip1 = ip1  key1 = key1
  NoIP = NoIP  NoKey = NoKey
  Requests = {r1, r2, r3}
  IPs = {ip1, NoIP}
  Keys = {key1, NoKey}
  IPOf <- MixedIPOf
  KeyOf <- MixedKeyOf
  KeyMax <- OwnKeyMax
  Settings <- ChangingSettings
  MaxPolls = 2
INVARIANTS TypeOK CountersExact IPLimit KeyLimitHolds
PROPERTIES ImplementsPool QueueResolves GoneFinishes
