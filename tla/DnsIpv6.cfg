\* One IPv4 and one IPv6 address.
CONSTANTS
  ip1 = ip1
  ip2 = ip2
  s1 = s1
  Ips = {ip1, ip2}
  Pinned = {}
  V6 = {ip2}
  MaxChanges = 1
  MaxBacklog = 1
  Starters = {s1}
  MaxEndpoints = 4
SPECIFICATION FairSpec
PROPERTIES EveryAddressIsServed
\* A panicked discovery task no longer empties the channel, so the bound on the backlog
\* may stop the resolver.
CHECK_DEADLOCK FALSE
