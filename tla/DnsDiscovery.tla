----------------------------- MODULE DnsDiscovery -----------------------------
(***************************************************************************)
(* DnsDiscovery (src/src/dns_discovery.rs): a background task resolves the  *)
(* hostname again and again and turns the difference between two answers    *)
(* into changes on an unbounded channel.  The DNS records and the resolver  *)
(* are external: records change at any time and a lookup may fail.  The     *)
(* consumer of the channel runs concurrently, so every send is a step.      *)
(***************************************************************************)
EXTENDS Naturals, Sequences

CONSTANTS
  Ips,          \* addresses the hostname may have
  Pinned,       \* addresses that are part of every answer
  MaxChanges,   \* bound: how often the records change
  MaxBacklog    \* bound: lookups fail only while fewer items are queued

ASSUME PinnedAssumption == Pinned \subseteq Ips
ASSUME DnsBoundsAssumption == MaxChanges \in Nat /\ MaxBacklog \in Nat

VARIABLES
  dns,        \* the A/AAAA records published for the hostname
  changes,    \* how often they have changed
  resolver,   \* progress of discovery_task: "lookup", "sending" or "waiting"
  current,    \* current_services
  answer,     \* new_services, the addresses of the lookup being processed
  removing,   \* the Removes still to be sent
  inserting,  \* the Inserts still to be sent
  chan        \* the channel to the consumer

recordVars == <<dns, changes>>
sendVars == <<answer, removing, inserting>>
dnsVars == <<dns, changes, resolver, current, answer, removing, inserting, chan>>

\* Items of the channel: Ok(Change::Insert), Ok(Change::Remove) and Err.
ChangeInsert(ip) == [op |-> "insert", key |-> ip]
ChangeRemove(ip) == [op |-> "remove", key |-> ip]
LookupError == [op |-> "error"]
Items == {LookupError} \cup [op : {"insert", "remove"}, key : Ips]

\* A hostname without records is one whose lookups fail, so Pinned holds for answers.
RecordSets == {{}} \cup {R \in SUBSET Ips : Pinned \subseteq R}

\* Only known services are taken away, only unknown ones announced.
DnsTypeOK ==
  /\ dns \in RecordSets
  /\ changes \in 0..MaxChanges
  /\ resolver \in {"lookup", "sending", "waiting"}
  /\ current \subseteq Ips
  /\ answer \subseteq Ips
  /\ removing \subseteq current
  /\ inserting \subseteq Ips \ current
  /\ chan \in Seq(Items)

DnsInit ==
  /\ dns \in RecordSets \ {{}}
  /\ changes = 0
  /\ resolver = "lookup"
  /\ current = {}
  /\ answer = {}
  /\ removing = {}
  /\ inserting = {}
  /\ chan = <<>>

--------------------------------------------------------------------------------
(* External: the records of the hostname *)

RecordsChange ==
  /\ changes < MaxChanges
  /\ \E R \in RecordSets \ {dns} : dns' = R
  /\ changes' = changes + 1
  /\ UNCHANGED <<resolver, current, sendVars, chan>>

--------------------------------------------------------------------------------
(* discovery_task and resolve_and_send *)

\* What a new answer takes away from, and adds to, the services known so far.
NothingMissing(old, new) == {}                       \* faulty: only ever adds services

AllOf(old, new) == new                               \* faulty: announces them all again

Missing(old, new) == old \ new
Added(old, new) == new \ old

LookupOk ==
  /\ resolver = "lookup"
  /\ dns # {}
  /\ answer' = dns
  /\ removing' = Missing(current, dns)
  /\ inserting' = Added(current, dns)
  /\ resolver' = "sending"
  /\ UNCHANGED <<recordVars, current, chan>>

\* A failed lookup is reported and changes nothing: the known services stay.
LookupFailsEmpty ==                                  \* faulty: an error is an empty answer
  /\ resolver = "lookup"
  /\ Len(chan) < MaxBacklog
  /\ answer' = {}
  /\ removing' = current
  /\ inserting' = {}
  /\ resolver' = "sending"
  /\ UNCHANGED <<recordVars, current, chan>>

LookupFails ==
  /\ resolver = "lookup"
  /\ Len(chan) < MaxBacklog
  /\ chan' = Append(chan, LookupError)
  /\ resolver' = "waiting"
  /\ UNCHANGED <<recordVars, current, sendVars>>

\* All Removes are sent before any Insert, each group in the order of a hash map.
SendRemove(ip) ==
  /\ resolver = "sending"
  /\ ip \in removing
  /\ removing' = removing \ {ip}
  /\ chan' = Append(chan, ChangeRemove(ip))
  /\ UNCHANGED <<recordVars, resolver, current, answer, inserting>>

SendInsert(ip) ==
  /\ resolver = "sending"
  /\ removing = {}
  /\ ip \in inserting
  /\ inserting' = inserting \ {ip}
  /\ chan' = Append(chan, ChangeInsert(ip))
  /\ UNCHANGED <<recordVars, resolver, current, answer, removing>>

\* Everything is sent: the answer becomes the known services.
ForgetAnswer == current                              \* faulty: current_services not updated

KnownServices == answer

Commit ==
  /\ resolver = "sending"
  /\ removing = {}
  /\ inserting = {}
  /\ current' = KnownServices
  /\ resolver' = "waiting"
  /\ UNCHANGED <<recordVars, sendVars, chan>>

\* The refresh interval elapses.
Tick ==
  /\ resolver = "waiting"
  /\ resolver' = "lookup"
  /\ UNCHANGED <<recordVars, current, sendVars, chan>>

\* Stream::poll_next takes the oldest item.
PollNext ==
  /\ chan # <<>>
  /\ chan' = Tail(chan)
  /\ UNCHANGED <<recordVars, resolver, current, sendVars>>

--------------------------------------------------------------------------------
ResolverNext ==
  \/ LookupOk \/ LookupFails \/ Commit \/ Tick
  \/ \E ip \in Ips : SendRemove(ip) \/ SendInsert(ip)
================================================================================
