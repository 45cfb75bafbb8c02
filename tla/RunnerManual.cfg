SPECIFICATION Spec
CONSTANTS
  Admins = {"a1", "a2"}
  Injectors = {}
  Requests = {"takeover", "return", "manual", "finish", "fast"}
  MaxRequests = 3
  CmdCap = 2
  ManualCap = 2
  FaultModes = {"sse_error"}
  Behaviors = {"infinite_echo", "manual_only"}
  Calls = 1
  Parts = 1
  Interval = 0
  EchoRateCaps = {FALSE}
  KeepAlives = TRUE
  Pieces = 1
  AfterChunks = 1
  TokenBudgets = {0}
  Apis = {"chat"}
  Textless = {FALSE}
  EventLimits = {0}
  OnMaxEvents = {"error"}
INVARIANTS TypeOK ManualExact EndingIsLast PhaseAgrees
CHECK_DEADLOCK FALSE
