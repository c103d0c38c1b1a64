\* Nested and fallback mounts of the same proxy, on every path.
CONSTANTS
  Servers <- MCServers
  Scenarios <- MCScenarios
  MaxPicks = 0
  CounterMod = 4
SPECIFICATION Spec
CHECK_DEADLOCK FALSE
INVARIANT MountsAgree
