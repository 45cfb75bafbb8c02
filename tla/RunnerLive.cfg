SPECIFICATION FairSpec
CONSTANTS
  Admins = {"a1"}
  Injectors = {}
  Requests = {"pause", "takeover", "manual", "finish", "delete_all", "fast"}
  MaxRequests = 2
  CmdCap = 2
  ManualCap = 1
  FaultModes = {"sse_error"}
  Behaviors = {"infinite_echo", "hang_forever", "agent"}
  Calls = 1
  Parts = 1
  Interval = 1
  EchoRateCaps = {FALSE}
  KeepAlives = FALSE
  Pieces = 1
  AfterChunks = 1
  TokenBudgets = {0}
  Apis = {"chat"}
  Textless = {TRUE, FALSE}
  EventLimits = {0}
  OnMaxEvents = {"pause"}
PROPERTIES GoneStops EndCommandEnds DeleteStops
CHECK_DEADLOCK FALSE
