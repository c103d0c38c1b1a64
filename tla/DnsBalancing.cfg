\* Three addresses, one of them part of every answer; the records change twice and
\* lookups fail, in every interleaving with a discovery task that lags behind.
\* MaxEndpoints is as many inserts as two changes can cause.
CONSTANTS
  ip1 = ip1
  ip2 = ip2
  ip3 = ip3
  s1 = s1
  Ips = {ip1, ip2, ip3}
  Pinned = {ip1}
  V6 = {}
  MaxChanges = 2
  MaxBacklog = 2
  Starters = {s1}
  MaxEndpoints = 5
SPECIFICATION FairSpec
INVARIANTS TypeOK ChannelReplaysToAnswer
PROPERTIES PinnedEndpointStays Converges
