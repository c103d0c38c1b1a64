SPECIFICATION Spec
CONSTANTS
  Proxies = {"left", "right"}
  Config <- DefaultConfig
  None = None
  Unreadable = Unreadable
  MaxCount = 3
  Requests <- MixedRequests
  Responses <- MixedResponses
  Versions = {"1.1"}
  MaxHops = 3
INVARIANT ListedIsRemoved
CHECK_DEADLOCK FALSE
