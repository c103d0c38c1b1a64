\* Two good keys and one that does not parse, three endpoints ever created: enough for
\* two endpoints in service and one of them replaced or re-inserted while two requests
\* are in flight.  The counter is one bit wide, so it wraps.
CONSTANTS
  k1 = k1
  k2 = k2
  bad = bad
  s1 = s1
  s2 = s2
  r1 = r1
  r2 = r2
  Keys = {k1, k2, bad}
  BadTargets = {bad}
  Starters = {s1, s2}
  Requests = {r1, r2}
  MaxEndpoints = 3
  CounterMod = 2
  EwmaLoads = {0, 1}
SPECIFICATION Spec
SYMMETRY Symmetry
INVARIANTS TypeOK PendingExact OneDiscoveryTask SnapshotIsCurrent
PROPERTIES SurvivorsKeepOrder
\* The system rests when the task has ended and every request is answered.
CHECK_DEADLOCK FALSE
