\* One attempt, without an upstream_timeout: what the runtime's fairness alone
\* guarantees, whatever the peers and hyper do.
CONSTANTS
  a1 = a1
  g1 = g1
  NoGuard = NoGuard
  Attempts = {a1}
  Guards = {g1}
  UpstreamTimeout = FALSE
SPECIFICATION FairSpec
PROPERTIES UpgradeEnds CancelReleases DroppedStreamStops
\* The system rests when every request has been answered.
CHECK_DEADLOCK FALSE
