----------------------------- MODULE DnsBalancing -----------------------------
(***************************************************************************)
(* A DiscoverableBalancedProxy fed by DnsDiscovery: the records of the      *)
(* hostname reach the snapshot that requests are balanced over through the  *)
(* resolver's answers, the channel and the discovery task.  Requests only   *)
(* read the snapshot, so they are left to DiscoverableBalancer.             *)
(***************************************************************************)
EXTENDS DnsDiscovery, FiniteSets

CONSTANTS
  V6,                      \* the addresses of Ips that are IPv6
  Starters, MaxEndpoints   \* of DiscoverableBalancer

ASSUME EndpointsAssumption == MaxEndpoints \in Nat

VARIABLES
  strategy, started, task, endpoints, snapshot, keyOf, nextId, pending, counter, pc, snap,
  idx1, load1, pick        \* of DiscoverableBalancer

balancerVars == <<strategy, started, task, endpoints, snapshot, keyOf, nextId, pending, counter,
                  pc, snap, idx1, load1, pick>>
vars == <<dnsVars, balancerVars>>

\* resolve_and_send writes "scheme://ip:port" without brackets, which is no URI for an
\* IPv6 address.
Unparsable(ips) == ips \cap V6

Balancer == INSTANCE DiscoverableBalancer WITH
  Keys <- Ips, BadTargets <- Unparsable(Ips), Requests <- {}, CounterMod <- 1, EwmaLoads <- {0}

TypeOK == DnsTypeOK /\ Balancer!TypeOK

Init ==
  /\ DnsInit
  /\ Balancer!Init
  /\ strategy = "RoundRobin"

ChangeRecords == RecordsChange /\ UNCHANGED balancerVars

Resolve == ResolverNext /\ UNCHANGED balancerVars

Start(s) == Balancer!StartDiscovery(s) /\ UNCHANGED dnsVars

\* The discovery task takes the next item and applies it; an error is only logged.
Discover(s) ==
  /\ task[s] = "polling"
  /\ PollNext
  /\ IF Head(chan).op = "error"
     THEN UNCHANGED balancerVars
     ELSE Balancer!ApplyChange(s, Head(chan))

Publish(s) == Balancer!Publish(s) /\ UNCHANGED dnsVars

Next ==
  \/ ChangeRecords
  \/ Resolve
  \/ \E s \in Starters : Start(s) \/ Discover(s) \/ Publish(s)

Spec == Init /\ [][Next]_vars

\* The resolver's and the discovery task's own steps happen, lookups of existing records
\* do not fail forever, and the caller starts discovery.  The records need not change.
FairSpec ==
  /\ Spec
  /\ SF_vars(LookupOk /\ UNCHANGED balancerVars)
  /\ WF_vars(Commit /\ UNCHANGED balancerVars)
  /\ WF_vars(Tick /\ UNCHANGED balancerVars)
  /\ WF_vars((\E ip \in Ips : SendRemove(ip) \/ SendInsert(ip)) /\ UNCHANGED balancerVars)
  /\ \A s \in Starters : WF_vars(Start(s)) /\ WF_vars(Discover(s)) /\ WF_vars(Publish(s))

--------------------------------------------------------------------------------
(* Safety *)

KeysOf(list) == {keyOf[list[i]] : i \in DOMAIN list}

Says(item, op, ip) == item.op = op /\ item.key = ip

\* The keys left of these when the items are applied in their order: the last change of an
\* address decides.
Replayed(keys, items) ==
  {ip \in Ips :
     \/ \E i \in DOMAIN items :
          /\ Says(items[i], "insert", ip)
          /\ \A j \in DOMAIN items : j > i => ~ Says(items[j], "remove", ip)
     \/ /\ ip \in keys
        /\ \A j \in DOMAIN items : ~ Says(items[j], "remove", ip)}

\* What the resolver has told the channel so far.
Announced ==
  IF resolver = "sending"
  THEN (current \cup (answer \ inserting)) \ ((current \ answer) \ removing)
  ELSE current

\* No change is lost, repeated or reordered on its way: replaying what is still in the
\* channel on top of the task's endpoints gives exactly what the resolver has announced,
\* at every point between two sends and whatever lookups failed.
ChannelReplaysToAnswer ==
  \A s \in Starters :
    task[s] \in {"polling", "publishing"} =>
      Replayed(KeysOf(endpoints[s]), chan) = Announced

\* An address that is part of every answer keeps its endpoint, and with it its metrics:
\* neither other records coming and going nor failed lookups remove or replace it.
PinnedEndpointStays ==
  [][\A i \in DOMAIN snapshot :
       keyOf[snapshot[i]] \in Pinned =>
         \E j \in DOMAIN snapshot' : snapshot'[j] = snapshot[i]]_vars

--------------------------------------------------------------------------------
(* Liveness *)

\* Once the records stay the same, the snapshot that requests are balanced over comes to
\* hold exactly those addresses and stays that way, however far the discovery task lagged
\* behind and whichever lookups failed.
Converges == <>[](dns # {} => KeysOf(snapshot) = dns)

\* "resolves A/AAAA records for a hostname and treats each IP address as a separate service
\* endpoint" (src/src/dns_discovery.rs:100): every published address ends up in service.
EveryAddressIsServed == <>[](dns \subseteq KeysOf(snapshot))
================================================================================
