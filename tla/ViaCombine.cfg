SPECIFICATION Spec
CONSTANTS
  Proxies = {"left", "right"}
  Config <- CombiningConfig
  None = None
  Unreadable = Unreadable
  MaxCount = 3
  Requests <- PlainRequests
  Responses <- MixedResponses
  Versions = {"1.1"}
  MaxHops = 3
INVARIANT LoopNoticed
CHECK_DEADLOCK FALSE
