SPECIFICATION Spec
CONSTANTS
  Proxies = {"named", "silent", "ws", "plain"}
  Config <- MixedConfig
  None = None
  Unreadable = Unreadable
  MaxCount = 3
  Requests <- MixedRequests
  Responses <- MixedResponses
  Versions = {"1.1", "2.0"}
  MaxHops = 5
INVARIANTS TypeOK LoopNoticed HopsCounted HopByHopEnds UpgradeSurvives
PROPERTY NoFalseAlarm
CHECK_DEADLOCK FALSE
