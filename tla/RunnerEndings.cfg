SPECIFICATION Spec
CONSTANTS
  Admins = {"a1"}
  Injectors = {"i1"}
  Requests = {"inject", "schedule", "finish", "drop", "delete", "takeover", "manual"}
  MaxRequests = 2
  CmdCap = 1
  ManualCap = 1
  FaultModes = {"close", "http_error", "malformed", "sse_error"}
  Behaviors = {"infinite_echo", "infinite_echo_max", "static_response", "hang_forever", "connection_drop", "agent", "subagent_report", "subagent_shell"}
  Calls = 1
  Parts = 1
  Interval = 0
  EchoRateCaps = {TRUE, FALSE}
  KeepAlives = FALSE
  Pieces = 2
  AfterChunks = 2
  TokenBudgets = {3}
  Apis = {"chat", "responses"}
  Textless = {FALSE}
  EventLimits = {0, 2}
  OnMaxEvents = {"disconnect", "error", "pause"}
INVARIANTS OneEnding RowTellsHow PiecesInOrder
CHECK_DEADLOCK FALSE
