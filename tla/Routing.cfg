\* Paths, forwarding headers and body caps over every style of mount.
CONSTANTS
  Servers <- MCServers
  Scenarios <- MCScenarios
  MaxPicks = 5
  CounterMod = 4
SPECIFICATION Spec
CHECK_DEADLOCK FALSE
INVARIANTS
  TypeOK
  
  HeadersTellTheTrail
  BodyWithinCaps
  SpreadEvenly
