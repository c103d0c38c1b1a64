------------------------------- MODULE DnsProofs -------------------------------
(***************************************************************************)
(* What DNS discovery and the discovery task guarantee together, for any    *)
(* addresses, any number of changes of the records and any backlog of the   *)
(* channel.                                                                 *)
(***************************************************************************)
EXTENDS DnsBalancing, SequenceLemmas

Proved == INSTANCE BalancerProofs WITH
  Keys <- Ips, BadTargets <- Unparsable(Ips), Requests <- {}, CounterMod <- 1, EwmaLoads <- {0}

(* The constants are as the balancer assumes them. *)
LEMMA ProvedAssumptions ==
  /\ Proved!IsFiniteSet({})
  /\ MaxEndpoints \in Nat /\ 1 \in Nat \ {0} /\ {0} \subseteq Nat
  /\ Unparsable(Ips) \subseteq Ips
<1>1. Proved!IsFiniteSet({})
  <2>1. <<>> \in Seq({})
    OBVIOUS
  <2> QED
    BY <2>1 DEF Proved!IsFiniteSet
<1>2. Unparsable(Ips) \subseteq Ips
  BY DEF Unparsable
<1> QED
  BY <1>1, <1>2, EndpointsAssumption

--------------------------------------------------------------------------------
(* Types, and the balancer's specification *)

LEMMA DnsTypeStep == DnsTypeOK /\ [Next]_vars => DnsTypeOK'
<1> SUFFICES ASSUME DnsTypeOK, [Next]_vars PROVE DnsTypeOK'
  OBVIOUS
<1> USE DnsBoundsAssumption DEF DnsTypeOK, recordVars, sendVars
<1>0. CASE UNCHANGED dnsVars
  BY <1>0 DEF dnsVars
<1>1. CASE RecordsChange
  BY <1>1 DEF RecordsChange
<1>2. CASE LookupOk
  BY <1>2 DEF LookupOk, Missing, Added, RecordSets
<1>3. CASE LookupFails
  <2>1. LookupError \in Items
    BY DEF Items
  <2> QED
    BY <1>3, <2>1 DEF LookupFails
<1>4. CASE Commit
  BY <1>4 DEF Commit, KnownServices
<1>5. CASE Tick
  BY <1>5 DEF Tick
<1>6. ASSUME NEW ip \in Ips, SendRemove(ip) PROVE DnsTypeOK'
  <2>1. ChangeRemove(ip) \in Items
    BY DEF Items, ChangeRemove
  <2> QED
    BY <1>6, <2>1 DEF SendRemove
<1>7. ASSUME NEW ip \in Ips, SendInsert(ip) PROVE DnsTypeOK'
  <2>1. ChangeInsert(ip) \in Items
    BY DEF Items, ChangeInsert
  <2> QED
    BY <1>7, <2>1 DEF SendInsert
<1>8. CASE PollNext
  BY <1>8 DEF PollNext
<1> QED
  BY <1>0, <1>1, <1>2, <1>3, <1>4, <1>5, <1>6, <1>7, <1>8
  DEF Next, vars, ChangeRecords, Resolve, ResolverNext, Start, Discover, Publish

(* The steps of the discovery task are the balancer's. *)
LEMMA TaskSteps ==
  ASSUME NEW s \in Starters
  PROVE  /\ Balancer!StartDiscovery(s) <=> Proved!StartDiscovery(s)
         /\ Balancer!Publish(s) <=> Proved!Publish(s)
         /\ \A c : Balancer!ApplyChange(s, c) <=> Proved!ApplyChange(s, c)
<1>1. \A list, K : Balancer!Filter(list, K) = Proved!Filter(list, K)
  BY DEF Balancer!Filter, Proved!Filter
<1>2. Balancer!Ids = Proved!Ids
  BY DEF Balancer!Ids, Proved!Ids
<1>3. \A k : Balancer!Others(k) = Proved!Others(k)
  BY <1>2 DEF Balancer!Others, Proved!Others
<1>4. \A list, k : /\ Balancer!Inserted(list, k) = Proved!Inserted(list, k)
                   /\ Balancer!Removed(list, k) = Proved!Removed(list, k)
  BY <1>1, <1>3 DEF Balancer!Inserted, Proved!Inserted, Balancer!Removed, Proved!Removed
<1>5. \A k : Balancer!ApplyInsert(s, k) <=> Proved!ApplyInsert(s, k)
  BY <1>4 DEF Balancer!ApplyInsert, Proved!ApplyInsert, Balancer!Ids, Proved!Ids,
              Balancer!requestVars, Proved!requestVars
<1>6. \A k : Balancer!ApplyRemove(s, k) <=> Proved!ApplyRemove(s, k)
  BY <1>4 DEF Balancer!ApplyRemove, Proved!ApplyRemove, Balancer!requestVars, Proved!requestVars
<1>7. Balancer!StartDiscovery(s) <=> Proved!StartDiscovery(s)
  BY DEF Balancer!StartDiscovery, Proved!StartDiscovery, Balancer!requestVars, Proved!requestVars
<1>8. Balancer!Publish(s) <=> Proved!Publish(s)
  BY DEF Balancer!Publish, Proved!Publish, Balancer!requestVars, Proved!requestVars
<1> QED
  BY <1>5, <1>6, <1>7, <1>8 DEF Balancer!ApplyChange, Proved!ApplyChange

(* Whatever the resolver does, the balancer sees a discovery stream as its own
   specification allows. *)
LEMMA BalancerStep == DnsTypeOK /\ [Next]_vars => [Balancer!Next]_(Balancer!vars)
<1> SUFFICES ASSUME DnsTypeOK, [Next]_vars, ~ UNCHANGED balancerVars PROVE Balancer!Next
  BY DEF balancerVars, Balancer!vars
<1>1. PICK s \in Starters : Start(s) \/ Discover(s) \/ Publish(s)
  BY DEF Next, vars, ChangeRecords, Resolve
<1>2. CASE Start(s)
  BY <1>2 DEF Start, Balancer!Next, Balancer!DiscoveryNext
<1>3. CASE Publish(s)
  BY <1>3 DEF Publish, Balancer!Next, Balancer!DiscoveryNext
<1>4. CASE Discover(s)
  <2>1. Head(chan) \in Items /\ Head(chan).op # "error" /\ Balancer!ApplyChange(s, Head(chan))
    BY <1>4 DEF Discover, PollNext, DnsTypeOK
  <2>2. Head(chan) \in Balancer!Changes
    BY <2>1 DEF Items, LookupError, Balancer!Changes
  <2> QED
    BY <2>1, <2>2 DEF Balancer!Next, Balancer!DiscoveryNext
<1> QED
  BY <1>1, <1>2, <1>3, <1>4

(* DnsDiscovery with start_discovery: every behaviour is one of a balanced proxy with some
   discovery stream, so what is proved of the balancer holds here. *)
THEOREM ImplementsBalancer == Spec => Balancer!Spec
<1>1. Init => DnsTypeOK /\ Balancer!Init
  BY DnsBoundsAssumption DEF Init, DnsInit, DnsTypeOK, RecordSets
<1> QED
  BY <1>1, DnsTypeStep, BalancerStep, PTL DEF Spec, Balancer!Spec

LEMMA BalancerInvariant == Spec => [](Proved!IInv)
<1>1. Balancer!Spec => Proved!Spec
  <2>1. Balancer!Init => Proved!Init
    BY DEF Balancer!Init, Proved!Init, Balancer!Strategies, Proved!Strategies, Balancer!Ids,
           Proved!Ids
  <2>2. [Balancer!Next]_(Balancer!vars) => [Proved!Next]_(Proved!vars)
    <3>1. Balancer!vars = Proved!vars /\ (UNCHANGED Balancer!vars <=> UNCHANGED Proved!vars)
      BY DEF Balancer!vars, Proved!vars
    <3>2. \A s \in Starters : Balancer!StreamEnds(s) <=> Proved!StreamEnds(s)
      BY DEF Balancer!StreamEnds, Proved!StreamEnds, Balancer!requestVars, Proved!requestVars
    <3>3. \A s \in Starters : Balancer!DiscoveryNext(s) => Proved!DiscoveryNext(s)
      BY <3>2, TaskSteps DEF Balancer!DiscoveryNext, Proved!DiscoveryNext, Balancer!Changes,
                              Proved!Changes
    <3> QED
      BY <3>1, <3>3 DEF Balancer!Next, Proved!Next
  <2> QED
    BY <2>1, <2>2, PTL DEF Balancer!Spec, Proved!Spec
<1>2. Proved!Spec => [](Proved!IInv)
  BY Proved!Invariance, ProvedAssumptions
<1> QED
  BY <1>1, <1>2, ImplementsBalancer, PTL

(* DnsDiscovery and the balancer behind it: every variable keeps its type. *)
THEOREM TypeCorrect == Spec => []TypeOK
<1>1. Init => DnsTypeOK
  BY DnsBoundsAssumption DEF Init, DnsInit, DnsTypeOK, RecordSets
<1>2. Spec => []DnsTypeOK
  BY <1>1, DnsTypeStep, PTL DEF Spec
<1>3. Proved!IInv => Balancer!TypeOK
  <2>1. Proved!IInv => Balancer!FieldTypes
    BY DEF Proved!IInv, Proved!FieldTypes, Balancer!FieldTypes, Balancer!Strategies,
           Proved!Strategies, Balancer!Ids, Proved!Ids
  <2>2. Proved!IInv => \A s \in Starters : Balancer!IsInjective(endpoints[s])
    BY DEF Proved!IInv, Proved!ListsInv, Proved!Distinct, Proved!KeyList, Balancer!IsInjective
  <2> QED
    BY <2>1, <2>2 DEF Balancer!TypeOK
<1> QED
  BY <1>2, <1>3, BalancerInvariant, PTL DEF TypeOK

--------------------------------------------------------------------------------
(* The channel *)

(* What one item makes of the keys. *)
After(keys, item) ==
  (keys \cup {ip \in Ips : Says(item, "insert", ip)}) \ {ip \in Ips : Says(item, "remove", ip)}

(* An item sent is replayed last. *)
LEMMA ReplayedAppend ==
  ASSUME NEW T, NEW items \in Seq(T), NEW item \in T, NEW keys
  PROVE  Replayed(keys, Append(items, item)) = After(Replayed(keys, items), item)
<1> DEFINE longer == Append(items, item)
           n == Len(items)
<1>1. /\ n \in Nat
      /\ DOMAIN items = 1..n
      /\ DOMAIN longer = 1..(n + 1)
      /\ longer[n + 1] = item
      /\ \A i \in 1..n : longer[i] = items[i]
  OBVIOUS
<1> HIDE DEF longer, n
<1>2. ASSUME NEW ip \in Ips
      PROVE  ip \in Replayed(keys, longer) <=> ip \in After(Replayed(keys, items), item)
  <2>1. ~ (Says(item, "insert", ip) /\ Says(item, "remove", ip))
    BY DEF Says
  <2>2. (\A j \in DOMAIN longer : ~ Says(longer[j], "remove", ip))
          <=> (\A j \in DOMAIN items : ~ Says(items[j], "remove", ip)) /\ ~ Says(item, "remove", ip)
    BY <1>1
  <2>3. (\E i \in DOMAIN longer :
           /\ Says(longer[i], "insert", ip)
           /\ \A j \in DOMAIN longer : j > i => ~ Says(longer[j], "remove", ip))
          <=> \/ Says(item, "insert", ip)
              \/ /\ ~ Says(item, "remove", ip)
                 /\ \E i \in DOMAIN items :
                      /\ Says(items[i], "insert", ip)
                      /\ \A j \in DOMAIN items : j > i => ~ Says(items[j], "remove", ip)
    BY <1>1, <2>1
  <2> QED
    BY <2>1, <2>2, <2>3 DEF Replayed, After
<1> QED
  BY <1>2 DEF Replayed, After, longer

(* The oldest item is replayed first. *)
LEMMA ReplayedTail ==
  ASSUME NEW T, NEW items \in Seq(T), items # <<>>, NEW keys \in SUBSET Ips
  PROVE  Replayed(keys, items) = Replayed(After(keys, Head(items)), Tail(items))
<1> DEFINE rest == Tail(items)
           item == Head(items)
           n == Len(rest)
<1>1. /\ n \in Nat
      /\ DOMAIN rest = 1..n
      /\ DOMAIN items = 1..(n + 1)
      /\ items[1] = item
      /\ \A i \in 1..n : rest[i] = items[i + 1]
  OBVIOUS
<1> HIDE DEF rest, item, n
<1>2. /\ \A i \in 1..(n + 1) : i = 1 \/ (i - 1 \in 1..n /\ items[i] = rest[i - 1])
      /\ \A i \in 1..n : i + 1 \in 1..(n + 1) /\ items[i + 1] = rest[i]
      /\ 1 \in 1..(n + 1)
  BY <1>1
<1>3. ASSUME NEW ip \in Ips
      PROVE  ip \in Replayed(keys, items) <=> ip \in Replayed(After(keys, item), rest)
  <2>1. ~ (Says(item, "insert", ip) /\ Says(item, "remove", ip))
    BY DEF Says
  <2>2. (\A j \in DOMAIN items : ~ Says(items[j], "remove", ip))
          <=> (\A j \in DOMAIN rest : ~ Says(rest[j], "remove", ip)) /\ ~ Says(item, "remove", ip)
    <3>1. \A j \in 1..n : items[j + 1] = rest[j] /\ j + 1 \in DOMAIN items
      BY <1>1, <1>2
    <3>2. \A j \in DOMAIN items : items[j] = item \/ \E k \in DOMAIN rest : items[j] = rest[k]
      BY <1>1, <1>2
    <3>3. 1 \in DOMAIN items
      BY <1>1, <1>2
    <3> QED
      BY <1>1, <3>1, <3>2, <3>3
  <2> DEFINE InsertedLast(list, i) ==
               /\ Says(list[i], "insert", ip)
               /\ \A j \in DOMAIN list : j > i => ~ Says(list[j], "remove", ip)
  <2>3. InsertedLast(items, 1) <=> /\ Says(item, "insert", ip)
                                   /\ \A j \in DOMAIN rest : ~ Says(rest[j], "remove", ip)
    <3>1. \A j \in DOMAIN rest : j + 1 \in DOMAIN items /\ j + 1 > 1 /\ items[j + 1] = rest[j]
      BY <1>1, <1>2
    <3>2. \A j \in DOMAIN items : j > 1 => \E k \in DOMAIN rest : items[j] = rest[k]
      BY <1>1, <1>2
    <3> QED
      BY <1>1, <3>1, <3>2
  <2>4. ASSUME NEW i \in 1..n PROVE InsertedLast(rest, i) <=> InsertedLast(items, i + 1)
    <3>1. \A j \in 1..n : j > i <=> j + 1 > i + 1
      BY <1>1
    <3>2. \A j \in 1..(n + 1) : j > i + 1 => j - 1 \in 1..n /\ j - 1 > i /\ items[j] = rest[j - 1]
      BY <1>1, <1>2
    <3> QED
      BY <1>1, <1>2, <3>1, <3>2
  <2>5. (\E i \in DOMAIN items : InsertedLast(items, i))
          <=> \/ InsertedLast(items, 1)
              \/ \E i \in DOMAIN rest : InsertedLast(rest, i)
    <3>1. ASSUME NEW i \in DOMAIN items, i # 1, InsertedLast(items, i)
          PROVE  \E k \in DOMAIN rest : InsertedLast(rest, k)
      <4>1. i - 1 \in 1..n /\ (i - 1) + 1 = i
        BY <1>1, <1>2, <3>1
      <4>2. InsertedLast(items, (i - 1) + 1)
        BY <3>1, <4>1
      <4> HIDE DEF InsertedLast
      <4>3. InsertedLast(rest, i - 1)
        BY <2>4, <4>1, <4>2
      <4> QED
        BY <1>1, <4>1, <4>3
    <3> HIDE DEF InsertedLast
    <3> QED
      BY <1>1, <1>2, <2>4, <3>1
  <2> QED
    BY <2>1, <2>2, <2>3, <2>5 DEF Replayed, After
<1> QED
  BY <1>3 DEF Replayed, rest, item

(* Where an answer stands between its lookup and its commit: the changes still to be sent
   are among those that lead from the known services to the answer. *)
SendInv ==
  resolver = "sending" => /\ removing \subseteq current \ answer
                          /\ inserting \subseteq answer \ current

(* Besides ChannelReplaysToAnswer itself: before the task starts, the channel alone holds
   what was announced. *)
ReplayInv ==
  /\ SendInv
  /\ ChannelReplaysToAnswer
  /\ ~ started => Replayed({}, chan) = Announced

(* What the balancer's invariant says of the endpoints and the tasks. *)
LEMMA BalancerFacts ==
  ASSUME Proved!IInv
  PROVE  /\ keyOf \in [Proved!Ids -> Ips] /\ nextId \in Nat /\ Proved!Existing \subseteq Proved!Ids
         /\ task \in [Starters -> {"none", "polling", "publishing", "ended", "panicked"}]
         /\ endpoints = [s \in Starters |-> endpoints[s]]
         /\ \A s \in Starters : endpoints[s] \in Seq(Proved!Existing)
         /\ \A s \in Starters : task[s] = "none" => endpoints[s] = <<>>
         /\ \A s \in Starters : task[s] # "none" => started
         /\ \A s, t \in Starters : task[s] # "none" /\ task[t] # "none" => s = t
         /\ snapshot \in Seq(Proved!Existing)
         /\ \A s \in Starters : task[s] = "polling" => snapshot = endpoints[s]
<1>1. /\ keyOf \in [Proved!Ids -> Ips] /\ nextId \in 1..(MaxEndpoints + 1)
      /\ endpoints = [s \in Starters |-> endpoints[s]]
  BY DEF Proved!IInv, Proved!FieldTypes
<1>2. nextId \in Nat /\ Proved!Existing \subseteq Proved!Ids
  BY <1>1, EndpointsAssumption DEF Proved!Existing, Proved!Ids
<1> QED
  BY <1>1, <1>2 DEF Proved!IInv, Proved!TaskInv, Proved!OneDiscoveryTask, Proved!ListsInv,
                    Proved!SnapshotIsCurrent, Proved!PublishedIsCurrent

(* Inserted adds the key of the item to the keys of the list. *)
LEMMA KeysOfInserted ==
  ASSUME Proved!IInv, NEW list \in Seq(Proved!Existing), NEW k \in Ips, nextId \in Proved!Ids,
         keyOf' = [keyOf EXCEPT ![nextId] = k]
  PROVE  LET new == Balancer!Inserted(list, k)
         IN  {keyOf'[new[i]] : i \in DOMAIN new} = KeysOf(list) \cup {k}
<1> DEFINE new == Balancer!Inserted(list, k)
<1>1. /\ keyOf'[nextId] = k
      /\ \A i \in DOMAIN list : list[i] # nextId /\ keyOf'[list[i]] = keyOf[list[i]]
  BY BalancerFacts DEF Proved!Existing
<1>2. CASE \E i \in DOMAIN list : keyOf[list[i]] = k
  <2>1. new = [i \in DOMAIN list |-> IF keyOf[list[i]] = k THEN nextId ELSE list[i]]
    BY <1>2 DEF Balancer!Inserted
  <2> HIDE DEF new
  <2>2. DOMAIN new = DOMAIN list /\ \A i \in DOMAIN list : keyOf'[new[i]] = keyOf[list[i]]
    BY <1>1, <2>1
  <2> QED
    BY <1>2, <2>2 DEF KeysOf, new
<1>3. CASE ~ \E i \in DOMAIN list : keyOf[list[i]] = k
  <2>1. new = Append(list, nextId)
    BY <1>3 DEF Balancer!Inserted
  <2>2. /\ DOMAIN new = 1..(Len(list) + 1)
        /\ DOMAIN list = 1..Len(list)
        /\ Len(list) \in Nat
        /\ new[Len(list) + 1] = nextId
        /\ \A i \in DOMAIN list : new[i] = list[i]
    BY <2>1
  <2> HIDE DEF new
  <2>3. \A i \in DOMAIN new : i \in DOMAIN list \/ i = Len(list) + 1
    BY <2>2
  <2>4. DOMAIN list \subseteq DOMAIN new /\ Len(list) + 1 \in DOMAIN new
    BY <2>2
  <2> QED
    BY <1>1, <2>2, <2>3, <2>4 DEF KeysOf, new
<1> QED
  BY <1>2, <1>3

(* Removed takes away the key of the item and keeps every other. *)
LEMMA KeysOfRemoved ==
  ASSUME Proved!IInv, NEW list \in Seq(Proved!Existing), NEW k \in Ips
  PROVE  KeysOf(Balancer!Removed(list, k)) = KeysOf(list) \ {k}
<1> DEFINE new == Balancer!Removed(list, k)
           K == Balancer!Others(k)
<1>1. new = Filter(list, K)
  BY DEF Balancer!Removed, Balancer!Filter, Filter
<1>2. Range(new) = Range(list) \cap K
  <2> HIDE DEF K, new
  <2> QED
    BY <1>1, FilterRange
<1>3. \A q : KeysOf(q) = {keyOf[m] : m \in Range(q)}
  BY DEF KeysOf, Range
<1>4. \A m \in Range(list) : m \in K <=> keyOf[m] # k
  BY BalancerFacts DEF Range, Balancer!Others, Balancer!Ids, Proved!Ids
<1> HIDE DEF new, K
<1> QED
  BY <1>2, <1>3, <1>4 DEF new

(* A step of the resolver that announces one item and sends it. *)
LEMMA SendKeepsReplay ==
  ASSUME DnsTypeOK, ReplayInv, SendInv', UNCHANGED balancerVars,
         NEW item \in Items, chan' = Append(chan, item), Announced' = After(Announced, item)
  PROVE  ReplayInv'
<1>1. \A keys : Replayed(keys, chan') = After(Replayed(keys, chan), item)
  <2>1. chan \in Seq(Items)
    BY DEF DnsTypeOK
  <2> QED
    BY <2>1, ReplayedAppend
<1>2. \A s \in Starters : KeysOf(endpoints[s])' = KeysOf(endpoints[s])
  BY DEF KeysOf, balancerVars
<1>3. UNCHANGED <<task, started>>
  BY DEF balancerVars
<1>4. \A keys : Replayed(keys, chan)' = Replayed(keys, chan')
  BY DEF Replayed
<1>5. ASSUME NEW s \in Starters, task[s] \in {"polling", "publishing"}
      PROVE  Replayed(KeysOf(endpoints[s]), chan)' = Announced'
  <2>1. Replayed(KeysOf(endpoints[s]), chan)' = Replayed(KeysOf(endpoints[s])', chan')
    BY DEF Replayed
  <2> QED
    BY <1>1, <1>2, <1>5, <2>1 DEF ReplayInv, ChannelReplaysToAnswer
<1>6. ~ started => Replayed({}, chan)' = Announced'
  BY <1>1, <1>4 DEF ReplayInv
<1> QED
  BY <1>3, <1>5, <1>6 DEF ReplayInv, ChannelReplaysToAnswer

(* A step of the resolver that announces and sends nothing. *)
LEMMA QuietKeepsReplay ==
  ASSUME ReplayInv, SendInv', UNCHANGED balancerVars, UNCHANGED chan, Announced' = Announced
  PROVE  ReplayInv'
  BY DEF ReplayInv, ChannelReplaysToAnswer, Replayed, KeysOf, balancerVars

(* The steps of the resolver and of the records. *)
LEMMA ResolverReplay ==
  ASSUME DnsTypeOK, ReplayInv, ResolverNext \/ RecordsChange, UNCHANGED balancerVars
  PROVE  ReplayInv'
<1> USE DEF SendInv, Announced, recordVars, sendVars
<1>0. SendInv
  BY DEF ReplayInv
<1>1. CASE RecordsChange
  BY <1>0, <1>1, QuietKeepsReplay DEF RecordsChange
<1>2. CASE LookupOk
  BY <1>0, <1>2, QuietKeepsReplay DEF LookupOk, Missing, Added
<1>3. CASE LookupFails
  <2>1. LookupError \in Items /\ After(Announced, LookupError) = Announced
    BY DEF Items, After, Says, LookupError
  <2>2. SendInv' /\ Announced' = Announced /\ chan' = Append(chan, LookupError)
    BY <1>3 DEF LookupFails
  <2> QED
    BY <2>1, <2>2, SendKeepsReplay
<1>4. CASE Commit
  BY <1>0, <1>4, QuietKeepsReplay DEF Commit, KnownServices
<1>5. CASE Tick
  BY <1>0, <1>5, QuietKeepsReplay DEF Tick
<1>6. ASSUME NEW ip \in Ips, SendRemove(ip) PROVE ReplayInv'
  <2>1. ChangeRemove(ip) \in Items /\ After(Announced, ChangeRemove(ip)) = Announced \ {ip}
    BY DEF Items, After, Says, ChangeRemove
  <2>2. chan' = Append(chan, ChangeRemove(ip)) /\ SendInv'
    BY <1>0, <1>6 DEF SendRemove
  <2>3. Announced' = Announced \ {ip}
    BY <1>0, <1>6 DEF SendRemove
  <2> QED
    BY <2>1, <2>2, <2>3, SendKeepsReplay
<1>7. ASSUME NEW ip \in Ips, SendInsert(ip) PROVE ReplayInv'
  <2>1. ChangeInsert(ip) \in Items /\ After(Announced, ChangeInsert(ip)) = Announced \cup {ip}
    BY DEF Items, After, Says, ChangeInsert
  <2>2. chan' = Append(chan, ChangeInsert(ip)) /\ SendInv'
    BY <1>0, <1>7 DEF SendInsert
  <2>3. Announced' = Announced \cup {ip}
    BY <1>0, <1>7 DEF SendInsert
  <2> QED
    BY <2>1, <2>2, <2>3, SendKeepsReplay
<1> QED
  BY <1>1, <1>2, <1>3, <1>4, <1>5, <1>6, <1>7 DEF ResolverNext

(* Applying an item makes of the keys what the item says. *)
LEMMA AppliedKeys ==
  ASSUME DnsTypeOK, Proved!IInv, NEW s \in Starters, Discover(s), Head(chan).op # "error"
  PROVE  /\ task' = [task EXCEPT ![s] = "publishing"] =>
              KeysOf(endpoints[s])' = After(KeysOf(endpoints[s]), Head(chan))
         /\ \/ task' = [task EXCEPT ![s] = "publishing"]
            \/ task' = [task EXCEPT ![s] = "panicked"]
         /\ task' = [task EXCEPT ![s] = "panicked"] => endpoints' = endpoints
         /\ UNCHANGED <<started, snapshot>>
         /\ \A m \in Proved!Existing : keyOf'[m] = keyOf[m]
         /\ \A t \in Starters \ {s} : task[t] = "none" /\ UNCHANGED <<task[t], endpoints[t]>>
<1> DEFINE item == Head(chan)
           list == endpoints[s]
<1>1. item \in Items
  BY DEF Discover, PollNext, DnsTypeOK
<1>2. task[s] = "polling" /\ Balancer!ApplyChange(s, item)
  BY DEF Discover
<1>3. list \in Seq(Proved!Existing) /\ KeysOf(list) \subseteq Ips
  <2>1. list \in Seq(Proved!Existing)
    BY BalancerFacts
  <2>2. \A i \in DOMAIN list : list[i] \in Proved!Existing
    BY <2>1
  <2> QED
    BY <2>1, <2>2, BalancerFacts DEF KeysOf
<1>4. endpoints = [t \in Starters |-> endpoints[t]]
  BY BalancerFacts
<1>5. \A t \in Starters \ {s} : task[t] = "none"
  BY <1>2, BalancerFacts
<1>6. task \in [Starters -> {"none", "polling", "publishing", "ended", "panicked"}]
  BY BalancerFacts
<1>7. keyOf \in [Proved!Ids -> Ips] /\ \A m \in Proved!Existing : m # nextId /\ m \in Proved!Ids
  BY BalancerFacts DEF Proved!Existing
<1> HIDE DEF item
<1>8. CASE item.op = "insert" /\ item.key \in Unparsable(Ips)
  BY <1>2, <1>4, <1>5, <1>6, <1>8, <1>7 DEF Balancer!ApplyChange, Balancer!ApplyInsert
<1>9. CASE item.op = "insert" /\ item.key \notin Unparsable(Ips)
  <2>1. /\ nextId \in Balancer!Ids
        /\ task' = [task EXCEPT ![s] = "publishing"]
        /\ endpoints' = [endpoints EXCEPT ![s] = Balancer!Inserted(list, item.key)]
        /\ keyOf' = [keyOf EXCEPT ![nextId] = item.key]
        /\ UNCHANGED <<started, snapshot>>
    BY <1>2, <1>9 DEF Balancer!ApplyChange, Balancer!ApplyInsert
  <2>2. item.key \in Ips
    BY <1>1, <1>9 DEF Items, LookupError
  <2>3. KeysOf(endpoints[s])' = KeysOf(list) \cup {item.key}
    <3> DEFINE new == Balancer!Inserted(list, item.key)
    <3>1. {keyOf'[new[i]] : i \in DOMAIN new} = KeysOf(list) \cup {item.key}
      BY <1>3, <2>1, <2>2, KeysOfInserted DEF Balancer!Ids, Proved!Ids
    <3>2. endpoints'[s] = new
      BY <1>4, <2>1
    <3> HIDE DEF new
    <3> QED
      BY <3>1, <3>2 DEF KeysOf
  <2>4. After(KeysOf(list), item) = KeysOf(list) \cup {item.key}
    BY <1>3, <1>9, <2>2 DEF After, Says
  <2> QED
    BY <1>4, <1>5, <1>6, <1>7, <2>1, <2>3, <2>4 DEF item
<1>10. CASE item.op = "remove"
  <2>1. /\ task' = [task EXCEPT ![s] = "publishing"]
        /\ endpoints' = [endpoints EXCEPT ![s] = Balancer!Removed(list, item.key)]
        /\ UNCHANGED <<started, snapshot, keyOf>>
    BY <1>2, <1>10 DEF Balancer!ApplyChange, Balancer!ApplyRemove
  <2>2. item.key \in Ips
    BY <1>1, <1>10 DEF Items, LookupError
  <2>3. KeysOf(endpoints[s])' = KeysOf(list) \ {item.key}
    <3> DEFINE new == Balancer!Removed(list, item.key)
    <3>1. KeysOf(new) = KeysOf(list) \ {item.key}
      BY <1>3, <2>2, KeysOfRemoved
    <3>2. endpoints'[s] = new /\ keyOf' = keyOf
      BY <1>4, <2>1
    <3> HIDE DEF new
    <3> QED
      BY <3>1, <3>2 DEF KeysOf
  <2>4. After(KeysOf(list), item) = KeysOf(list) \ {item.key}
    BY <1>3, <1>10, <2>2 DEF After, Says
  <2> QED
    BY <1>4, <1>5, <1>6, <1>7, <2>1, <2>3, <2>4 DEF item
<1> QED
  BY <1>2, <1>8, <1>9, <1>10 DEF Balancer!ApplyChange

(* The discovery task takes an item from the channel: what the channel no longer says, its
   endpoints do. *)
LEMMA DiscoverReplay ==
  ASSUME DnsTypeOK, Proved!IInv, ReplayInv, NEW s \in Starters, Discover(s)
  PROVE  ReplayInv'
<1>1. /\ task[s] = "polling"
      /\ chan # <<>>
      /\ chan \in Seq(Items)
      /\ chan' = Tail(chan)
      /\ UNCHANGED <<resolver, current, answer, removing, inserting>>
  BY DEF Discover, PollNext, sendVars, DnsTypeOK
<1>2. Announced' = Announced /\ SendInv'
  BY <1>1 DEF Announced, ReplayInv, SendInv
<1>3. KeysOf(endpoints[s]) \in SUBSET Ips
  <2>1. \A i \in DOMAIN endpoints[s] : endpoints[s][i] \in Proved!Existing
    BY BalancerFacts
  <2> QED
    BY <2>1, BalancerFacts DEF KeysOf
<1>4. Replayed(KeysOf(endpoints[s]), chan) = Announced
  BY <1>1 DEF ReplayInv, ChannelReplaysToAnswer
<1>5. Replayed(After(KeysOf(endpoints[s]), Head(chan)), Tail(chan)) = Announced
  <2>1. Replayed(KeysOf(endpoints[s]), chan) =
          Replayed(After(KeysOf(endpoints[s]), Head(chan)), Tail(chan))
    BY <1>1, <1>3, ReplayedTail
  <2> QED
    BY <1>4, <2>1
<1>6. started
  BY <1>1, BalancerFacts
<1>7. CASE Head(chan).op = "error"
  <2>1. After(KeysOf(endpoints[s]), Head(chan)) = KeysOf(endpoints[s])
    BY <1>3, <1>7 DEF After, Says
  <2>2. UNCHANGED <<task, started>> /\ KeysOf(endpoints[s])' = KeysOf(endpoints[s])
    BY <1>7 DEF Discover, KeysOf, balancerVars
  <2>3. \A t \in Starters : task[t] # "none" => t = s
    BY <1>1, BalancerFacts
  <2>4. Replayed(KeysOf(endpoints[s]), chan)' = Replayed(KeysOf(endpoints[s])', chan')
    BY DEF Replayed
  <2> QED
    BY <1>1, <1>2, <1>5, <1>6, <2>1, <2>2, <2>3, <2>4 DEF ReplayInv, ChannelReplaysToAnswer
<1>8. CASE Head(chan).op # "error"
  <2>1. /\ task' = [task EXCEPT ![s] = "publishing"] =>
             KeysOf(endpoints[s])' = After(KeysOf(endpoints[s]), Head(chan))
        /\ task' = [task EXCEPT ![s] = "publishing"] \/ task' = [task EXCEPT ![s] = "panicked"]
        /\ started' = started
        /\ \A t \in Starters \ {s} : task'[t] = "none"
    BY <1>8, AppliedKeys
  <2>2. task'[s] \in {"polling", "publishing"} =>
          KeysOf(endpoints[s])' = After(KeysOf(endpoints[s]), Head(chan))
    BY <2>1, BalancerFacts
  <2>3. Replayed(KeysOf(endpoints[s]), chan)' = Replayed(KeysOf(endpoints[s])', chan')
    BY DEF Replayed
  <2> QED
    BY <1>1, <1>2, <1>5, <1>6, <2>1, <2>2, <2>3 DEF ReplayInv, ChannelReplaysToAnswer
<1> QED
  BY <1>7, <1>8

LEMMA ReplayStep == DnsTypeOK /\ Proved!IInv /\ ReplayInv /\ [Next]_vars => ReplayInv'
<1> SUFFICES ASSUME DnsTypeOK, Proved!IInv, ReplayInv, [Next]_vars PROVE ReplayInv'
  OBVIOUS
<1>1. CASE UNCHANGED vars
  BY <1>1, QuietKeepsReplay DEF vars, dnsVars, ReplayInv, SendInv, Announced
<1>2. CASE ChangeRecords \/ Resolve
  BY <1>2, ResolverReplay DEF ChangeRecords, Resolve
<1>3. ASSUME NEW s \in Starters, Start(s) PROVE ReplayInv'
  <2>1. /\ UNCHANGED <<resolver, current, answer, removing, inserting, chan, endpoints, keyOf>>
        /\ started'
        /\ task[s] = "none"
        /\ task' = IF started THEN task ELSE [task EXCEPT ![s] = "polling"]
    BY <1>3 DEF Start, Balancer!StartDiscovery, dnsVars
  <2>2. Announced' = Announced /\ SendInv'
    BY <2>1 DEF Announced, SendInv, ReplayInv
  <2>3. \A t \in Starters : Replayed(KeysOf(endpoints[t]), chan)' = Replayed(KeysOf(endpoints[t]), chan)
    BY <2>1 DEF Replayed, KeysOf
  <2>4. CASE started
    BY <2>1, <2>2, <2>3, <2>4 DEF ReplayInv, ChannelReplaysToAnswer
  <2>5. CASE ~ started
    <3>1. KeysOf(endpoints[s]) = {}
      BY <2>1, BalancerFacts DEF KeysOf
    <3>2. \A t \in Starters \ {s} : task'[t] = "none"
      BY <2>1, <2>5, BalancerFacts
    <3> QED
      BY <2>1, <2>2, <2>3, <2>5, <3>1, <3>2 DEF ReplayInv, ChannelReplaysToAnswer
  <2> QED
    BY <2>4, <2>5
<1>4. ASSUME NEW s \in Starters, Discover(s) PROVE ReplayInv'
  BY <1>4, DiscoverReplay
<1>5. ASSUME NEW s \in Starters, Publish(s) PROVE ReplayInv'
  <2>1. /\ UNCHANGED <<resolver, current, answer, removing, inserting, chan, endpoints, keyOf, started>>
        /\ task[s] = "publishing"
        /\ task' = [task EXCEPT ![s] = "polling"]
    BY <1>5 DEF Publish, Balancer!Publish, dnsVars
  <2>2. Announced' = Announced /\ SendInv'
    BY <2>1 DEF Announced, SendInv, ReplayInv
  <2>3. \A t \in Starters : Replayed(KeysOf(endpoints[t]), chan)' = Replayed(KeysOf(endpoints[t]), chan)
    BY <2>1 DEF Replayed, KeysOf
  <2>4. Replayed({}, chan)' = Replayed({}, chan)
    BY <2>1 DEF Replayed
  <2>5. \A t \in Starters : t # s => task'[t] = task[t]
    BY <2>1, BalancerFacts
  <2> QED
    BY <2>1, <2>2, <2>3, <2>4, <2>5 DEF ReplayInv, ChannelReplaysToAnswer
<1> QED
  BY <1>1, <1>2, <1>3, <1>4, <1>5 DEF Next

(* DnsDiscovery, start_discovery: no change is lost, repeated or reordered between the
   resolver's answer and the endpoints of the task, however far the task lags behind. *)
THEOREM ReplayTheorem == Spec => []ChannelReplaysToAnswer
<1>1. Init => ReplayInv
  BY DEF Init, DnsInit, Balancer!Init, ReplayInv, SendInv, ChannelReplaysToAnswer, Replayed, Announced
<1>2. ReplayInv => ChannelReplaysToAnswer
  BY DEF ReplayInv
<1>3. Spec => []DnsTypeOK
  BY TypeCorrect, PTL DEF TypeOK
<1> QED
  BY <1>1, <1>2, <1>3, BalancerInvariant, ReplayStep, PTL DEF Spec

--------------------------------------------------------------------------------
(* Pinned addresses *)

InChannel(op, ip) == {i \in DOMAIN chan : Says(chan[i], op, ip)}

(* An address that is part of every answer is announced once and never taken back. *)
AnnouncedOnce(ip) ==
  /\ InChannel("remove", ip) = {}
  /\ \A i, j \in InChannel("insert", ip) : i = j
  /\ InChannel("insert", ip) # {} => ip \in Announced
  /\ \A s \in Starters :
       ip \in KeysOf(endpoints[s]) => ip \in Announced /\ InChannel("insert", ip) = {}

PinnedInv ==
  /\ current = {} \/ Pinned \subseteq current
  /\ resolver = "sending" => Pinned \subseteq answer
  /\ \A ip \in Pinned : AnnouncedOnce(ip)
  /\ \A s \in Starters :
       task[s] = "publishing" =>
         \A i \in DOMAIN snapshot :
           keyOf[snapshot[i]] \in Pinned => snapshot[i] \in Range(endpoints[s])

(* No answer lacks a pinned address. *)
LEMMA AnswersArePinned == dns \in RecordSets /\ dns # {} => Pinned \subseteq dns
  BY DEF RecordSets

(* A step of the resolver that takes no pinned address back and inserts one at most when it
   was not announced before. *)
LEMMA SendKeepsPinned ==
  ASSUME DnsTypeOK, UNCHANGED balancerVars, NEW ip \in Pinned, AnnouncedOnce(ip),
         ip \in Announced => ip \in Announced',
         \/ UNCHANGED chan
         \/ \E item \in Items :
              /\ chan' = Append(chan, item)
              /\ ~ Says(item, "remove", ip)
              /\ Says(item, "insert", ip) => ip \notin Announced /\ ip \in Announced'
  PROVE  AnnouncedOnce(ip)'
<1>1. \A s \in Starters : KeysOf(endpoints[s])' = KeysOf(endpoints[s])
  BY DEF KeysOf, balancerVars
<1>2. CASE UNCHANGED chan
  BY <1>1, <1>2 DEF AnnouncedOnce, InChannel
<1>3. ASSUME NEW item \in Items, chan' = Append(chan, item), ~ Says(item, "remove", ip),
             Says(item, "insert", ip) => ip \notin Announced /\ ip \in Announced'
      PROVE  AnnouncedOnce(ip)'
  <2> DEFINE n == Len(chan)
  <2>1. /\ n \in Nat
        /\ DOMAIN chan = 1..n
        /\ DOMAIN chan' = 1..(n + 1)
        /\ chan'[n + 1] = item
        /\ \A i \in 1..n : chan'[i] = chan[i]
    BY <1>3 DEF DnsTypeOK
  <2> HIDE DEF n
  <2>2. \A i \in 1..(n + 1) : i \in 1..n \/ i = n + 1
    BY <2>1
  <2>3. InChannel("remove", ip)' = {}
    BY <1>3, <2>1, <2>2 DEF AnnouncedOnce, InChannel
  <2>4. CASE ~ Says(item, "insert", ip)
    <3>1. InChannel("insert", ip)' = InChannel("insert", ip)
      BY <2>1, <2>2, <2>4 DEF InChannel
    <3> QED
      BY <1>1, <2>3, <3>1 DEF AnnouncedOnce
  <2>5. CASE Says(item, "insert", ip)
    <3>1. InChannel("insert", ip)' = {n + 1}
      BY <1>3, <2>1, <2>2, <2>5 DEF AnnouncedOnce, InChannel
    <3>2. \A s \in Starters : ip \notin KeysOf(endpoints[s])
      BY <1>3, <2>5 DEF AnnouncedOnce
    <3> QED
      BY <1>1, <1>3, <2>3, <2>5, <3>1, <3>2 DEF AnnouncedOnce
  <2> QED
    BY <2>4, <2>5
<1> QED
  BY <1>2, <1>3

(* The steps of the resolver and of the records. *)
LEMMA ResolverPinned ==
  ASSUME DnsTypeOK, SendInv, PinnedInv, ResolverNext \/ RecordsChange, UNCHANGED balancerVars
  PROVE  PinnedInv'
<1>1. SUFFICES /\ (current = {} \/ Pinned \subseteq current)'
               /\ (resolver = "sending" => Pinned \subseteq answer)'
               /\ \A ip \in Pinned :
                    /\ ip \in Announced => ip \in Announced'
                    /\ \/ UNCHANGED chan
                       \/ \E item \in Items :
                            /\ chan' = Append(chan, item)
                            /\ ~ Says(item, "remove", ip)
                            /\ Says(item, "insert", ip) => ip \notin Announced /\ ip \in Announced'
  <2>1. \A ip \in Pinned : AnnouncedOnce(ip)'
    BY <1>1, SendKeepsPinned DEF PinnedInv
  <2> QED
    BY <1>1, <2>1 DEF PinnedInv, balancerVars
<1> USE DEF Announced, recordVars, sendVars
<1>2. /\ current = {} \/ Pinned \subseteq current
      /\ resolver = "sending" => Pinned \subseteq answer
  BY DEF PinnedInv
<1>3. CASE RecordsChange
  BY <1>2, <1>3 DEF RecordsChange
<1>4. CASE LookupOk
  BY <1>2, <1>4, AnswersArePinned DEF LookupOk, Missing, Added, DnsTypeOK
<1>5. CASE LookupFails
  BY <1>2, <1>5 DEF LookupFails, Items, Says, LookupError
<1>6. CASE Commit
  BY <1>2, <1>6 DEF Commit, KnownServices
<1>7. CASE Tick
  BY <1>2, <1>7 DEF Tick
<1>8. ASSUME NEW ip \in Ips, SendRemove(ip)
      PROVE  /\ UNCHANGED <<resolver, current, answer>>
             /\ \A p \in Pinned : /\ p \in Announced => p \in Announced'
                                  /\ chan' = Append(chan, ChangeRemove(ip))
                                  /\ ChangeRemove(ip) \in Items
                                  /\ ~ Says(ChangeRemove(ip), "remove", p)
                                  /\ ~ Says(ChangeRemove(ip), "insert", p)
  BY <1>2, <1>8 DEF SendRemove, SendInv, Items, ChangeRemove, Says
<1>9. ASSUME NEW ip \in Ips, SendInsert(ip)
      PROVE  /\ UNCHANGED <<resolver, current, answer>>
             /\ \A p \in Pinned : /\ p \in Announced => p \in Announced'
                                  /\ chan' = Append(chan, ChangeInsert(ip))
                                  /\ ChangeInsert(ip) \in Items
                                  /\ ~ Says(ChangeInsert(ip), "remove", p)
                                  /\ Says(ChangeInsert(ip), "insert", p) =>
                                       p \notin Announced /\ p \in Announced'
  BY <1>2, <1>9 DEF SendInsert, SendInv, Items, ChangeInsert, Says
<1> HIDE DEF Announced
<1> QED
  BY <1>2, <1>3, <1>4, <1>5, <1>6, <1>7, <1>8, <1>9 DEF ResolverNext

(* The endpoint of another key survives a change of the list. *)
LEMMA OthersSurvive ==
  ASSUME DnsTypeOK, Proved!IInv, NEW s \in Starters, Discover(s), Head(chan).op # "error",
         task'[s] = "publishing",
         NEW i \in DOMAIN endpoints[s], keyOf[endpoints[s][i]] # Head(chan).key
  PROVE  endpoints[s][i] \in Range(endpoints'[s])
<1> DEFINE list == endpoints[s]
           item == Head(chan)
<1>1. /\ list \in Seq(Proved!Existing)
      /\ endpoints = [t \in Starters |-> endpoints[t]]
      /\ task \in [Starters -> {"none", "polling", "publishing", "ended", "panicked"}]
  BY BalancerFacts
<1>2. Balancer!ApplyChange(s, item) /\ task[s] = "polling"
  BY DEF Discover
<1> HIDE DEF item
<1>3. CASE item.op = "insert"
  <2>1. endpoints'[s] = Balancer!Inserted(list, item.key)
    BY <1>1, <1>2, <1>3 DEF Balancer!ApplyChange, Balancer!ApplyInsert
  <2>2. CASE \E j \in DOMAIN list : keyOf[list[j]] = item.key
    <3>1. endpoints'[s] = [j \in DOMAIN list |-> IF keyOf[list[j]] = item.key THEN nextId ELSE list[j]]
      BY <2>1, <2>2 DEF Balancer!Inserted
    <3> QED
      BY <3>1 DEF Range, item
  <2>3. CASE ~ \E j \in DOMAIN list : keyOf[list[j]] = item.key
    <3>1. endpoints'[s] = Append(list, nextId)
      BY <2>1, <2>3 DEF Balancer!Inserted
    <3>2. i \in DOMAIN Append(list, nextId) /\ Append(list, nextId)[i] = list[i]
      BY <1>1
    <3> QED
      BY <3>1, <3>2 DEF Range
  <2> QED
    BY <2>2, <2>3
<1>4. CASE item.op = "remove"
  <2> DEFINE K == Balancer!Others(item.key)
  <2>1. endpoints'[s] = Filter(list, K)
    BY <1>1, <1>2, <1>4 DEF Balancer!ApplyChange, Balancer!ApplyRemove, Balancer!Removed,
                            Balancer!Filter, Filter
  <2>2. list[i] \in K
    <3>1. list[i] \in Proved!Ids
      BY <1>1, BalancerFacts
    <3> QED
      BY <3>1 DEF Balancer!Others, Balancer!Ids, Proved!Ids, item
  <2>3. Range(Filter(list, K)) = Range(list) \cap K
    <3> HIDE DEF K
    <3> QED
      BY <1>1, FilterRange
  <2> QED
    BY <2>1, <2>2, <2>3 DEF Range
<1> QED
  BY <1>2, <1>3, <1>4 DEF Balancer!ApplyChange

(* The task takes an item: what was in the channel once is on the list. *)
LEMMA DiscoverPinned ==
  ASSUME DnsTypeOK, Proved!IInv, PinnedInv, NEW s \in Starters, Discover(s)
  PROVE  PinnedInv'
<1>1. /\ task[s] = "polling"
      /\ chan # <<>>
      /\ chan \in Seq(Items)
      /\ chan' = Tail(chan)
      /\ UNCHANGED <<resolver, current, answer, removing, inserting>>
  BY DEF Discover, PollNext, sendVars, DnsTypeOK
<1>2. Announced' = Announced
  BY <1>1 DEF Announced
<1>3. /\ 1 \in DOMAIN chan
      /\ chan[1] = Head(chan)
      /\ \A i \in DOMAIN chan' : i + 1 \in DOMAIN chan /\ chan'[i] = chan[i + 1] /\ i \in Nat
  BY <1>1
<1>4. \A op, ip : /\ \A i \in InChannel(op, ip)' : i + 1 \in InChannel(op, ip) /\ i \in Nat
                  /\ Says(Head(chan), op, ip) => 1 \in InChannel(op, ip)
  BY <1>3 DEF InChannel
<1>5. /\ UNCHANGED snapshot
      /\ \A m \in Proved!Existing : keyOf'[m] = keyOf[m]
      /\ \A t \in Starters \ {s} : task'[t] = "none" /\ endpoints'[t] = <<>>
  <2>1. CASE Head(chan).op = "error"
    BY <1>1, <2>1, BalancerFacts DEF Discover, balancerVars
  <2>2. CASE Head(chan).op # "error"
    BY <2>2, AppliedKeys, BalancerFacts
  <2> QED
    BY <2>1, <2>2
<1>6. KeysOf(endpoints[s])' \subseteq
        KeysOf(endpoints[s]) \cup {ip \in Ips : Says(Head(chan), "insert", ip)}
  <2>1. CASE Head(chan).op = "error"
    BY <2>1 DEF Discover, balancerVars, KeysOf
  <2>2. CASE Head(chan).op # "error" /\ task' = [task EXCEPT ![s] = "publishing"]
    BY <2>2, AppliedKeys DEF After
  <2>3. CASE Head(chan).op # "error" /\ task' = [task EXCEPT ![s] = "panicked"]
    <3>1. endpoints'[s] = endpoints[s]
      BY <2>3, AppliedKeys
    <3>2. \A i \in DOMAIN endpoints[s] : endpoints[s][i] \in Proved!Existing
      BY BalancerFacts
    <3> QED
      BY <1>5, <3>1, <3>2 DEF KeysOf
  <2> QED
    BY <2>1, <2>2, <2>3, AppliedKeys
<1>7. ASSUME NEW ip \in Pinned PROVE AnnouncedOnce(ip)'
  <2>1. AnnouncedOnce(ip) /\ ip \in Ips
    BY <1>7, PinnedAssumption DEF PinnedInv
  <2>2. InChannel("remove", ip)' = {}
    BY <1>4, <2>1 DEF AnnouncedOnce
  <2>3. \A i, j \in InChannel("insert", ip)' : i = j
    <3> SUFFICES ASSUME NEW i \in InChannel("insert", ip)', NEW j \in InChannel("insert", ip)'
                 PROVE  i = j
      OBVIOUS
    <3>1. i + 1 = j + 1 /\ i \in Nat /\ j \in Nat
      BY <1>4, <2>1 DEF AnnouncedOnce
    <3> QED
      BY <3>1
  <2>4. InChannel("insert", ip)' # {} => ip \in Announced'
    BY <1>2, <1>4, <2>1 DEF AnnouncedOnce
  <2>5. ip \in KeysOf(endpoints[s])' => ip \in Announced' /\ InChannel("insert", ip)' = {}
    <3>1. CASE ip \in KeysOf(endpoints[s])
      BY <1>2, <1>4, <2>1, <3>1 DEF AnnouncedOnce
    <3>2. CASE Says(Head(chan), "insert", ip)
      <4>1. 1 \in InChannel("insert", ip)
        BY <1>4, <3>2
      <4>2. \A i \in InChannel("insert", ip)' : i + 1 = 1 /\ i \in Nat
        BY <1>4, <2>1, <4>1 DEF AnnouncedOnce
      <4>3. InChannel("insert", ip)' = {}
        <5> SUFFICES ASSUME NEW i \in InChannel("insert", ip)' PROVE FALSE
          OBVIOUS
        <5>1. i + 1 = 1 /\ i \in Nat
          BY <4>2
        <5>2. i \in DOMAIN chan' /\ chan' \in Seq(Items)
          BY <1>1 DEF InChannel
        <5> QED
          BY <5>1, <5>2
      <4> QED
        BY <1>2, <2>1, <4>1, <4>3 DEF AnnouncedOnce
    <3> QED
      BY <1>6, <3>1, <3>2
  <2>6. \A t \in Starters \ {s} : KeysOf(endpoints[t])' = {}
    BY <1>5 DEF KeysOf
  <2> QED
    BY <2>2, <2>3, <2>4, <2>5, <2>6 DEF AnnouncedOnce
<1>8. ASSUME NEW t \in Starters, task'[t] = "publishing",
             NEW i \in DOMAIN snapshot, keyOf'[snapshot[i]] \in Pinned
      PROVE  snapshot[i] \in Range(endpoints'[t])
  <2>1. t = s
    BY <1>5, <1>8
  <2>2. snapshot = endpoints[s] /\ snapshot[i] \in Proved!Existing
    BY <1>1, BalancerFacts
  <2>3. keyOf'[snapshot[i]] = keyOf[snapshot[i]]
    BY <1>5, <2>2
  <2> DEFINE p == keyOf[snapshot[i]]
  <2>4. p \in Pinned /\ p \in KeysOf(endpoints[s])
    BY <1>8, <2>2, <2>3 DEF KeysOf
  <2>5. InChannel("insert", p) = {} /\ InChannel("remove", p) = {}
    BY <2>4 DEF PinnedInv, AnnouncedOnce
  <2>6. Head(chan).op # "error"
    BY <1>1, <1>8, <2>1 DEF Discover, balancerVars
  <2>7. Head(chan).op \in {"insert", "remove"}
    BY <1>1, <2>6 DEF Items, LookupError
  <2>8. Head(chan).key # p
    BY <1>4, <2>5, <2>7 DEF Says
  <2> QED
    BY <1>8, <2>1, <2>2, <2>6, <2>8, OthersSurvive
<1> QED
  BY <1>1, <1>5, <1>7, <1>8 DEF PinnedInv

LEMMA PinnedStep ==
  DnsTypeOK /\ Proved!IInv /\ SendInv /\ PinnedInv /\ [Next]_vars => PinnedInv'
<1> SUFFICES ASSUME DnsTypeOK, Proved!IInv, SendInv, PinnedInv, [Next]_vars PROVE PinnedInv'
  OBVIOUS
<1>1. ASSUME UNCHANGED dnsVars, UNCHANGED <<endpoints, keyOf>>,
             \A t \in Starters :
               task'[t] = "publishing" => snapshot' = snapshot /\ task[t] = "publishing"
      PROVE  PinnedInv'
  <2>1. Announced' = Announced
    BY <1>1 DEF Announced, dnsVars
  <2>2. \A ip \in Pinned : AnnouncedOnce(ip)'
    BY <1>1, <2>1 DEF PinnedInv, AnnouncedOnce, InChannel, KeysOf, dnsVars
  <2>3. ASSUME NEW t \in Starters, task'[t] = "publishing", NEW i \in DOMAIN snapshot',
               keyOf'[snapshot'[i]] \in Pinned
        PROVE  snapshot'[i] \in Range(endpoints'[t])
    BY <1>1, <2>3 DEF PinnedInv
  <2> QED
    BY <1>1, <2>2, <2>3 DEF PinnedInv, dnsVars
<1>2. CASE UNCHANGED vars
  BY <1>1, <1>2 DEF vars, balancerVars
<1>3. CASE ChangeRecords \/ Resolve
  BY <1>3, ResolverPinned DEF ChangeRecords, Resolve
<1>4. ASSUME NEW s \in Starters, Start(s) PROVE PinnedInv'
  BY <1>1, <1>4, BalancerFacts DEF Start, Balancer!StartDiscovery
<1>5. ASSUME NEW s \in Starters, Discover(s) PROVE PinnedInv'
  BY <1>5, DiscoverPinned
<1>6. ASSUME NEW s \in Starters, Publish(s) PROVE PinnedInv'
  BY <1>1, <1>6, BalancerFacts DEF Publish, Balancer!Publish
<1> QED
  BY <1>2, <1>3, <1>4, <1>5, <1>6 DEF Next

(* Only Publish replaces the snapshot, and by a list with every pinned endpoint of it. *)
LEMMA PinnedStays ==
  ASSUME DnsTypeOK, Proved!IInv, PinnedInv, [Next]_vars,
         NEW i \in DOMAIN snapshot, keyOf[snapshot[i]] \in Pinned
  PROVE  \E j \in DOMAIN snapshot' : snapshot'[j] = snapshot[i]
<1>1. CASE UNCHANGED snapshot
  BY <1>1
<1>2. CASE UNCHANGED vars \/ ChangeRecords \/ Resolve
  BY <1>1, <1>2 DEF vars, balancerVars, ChangeRecords, Resolve
<1>3. ASSUME NEW s \in Starters, Start(s) PROVE UNCHANGED snapshot
  BY <1>3 DEF Start, Balancer!StartDiscovery
<1>4. ASSUME NEW s \in Starters, Discover(s) PROVE UNCHANGED snapshot
  <2>1. CASE Head(chan).op = "error"
    BY <1>4, <2>1 DEF Discover, balancerVars
  <2>2. CASE Head(chan).op # "error"
    BY <1>4, <2>2, AppliedKeys
  <2> QED
    BY <2>1, <2>2
<1>5. ASSUME NEW s \in Starters, Publish(s)
      PROVE  \E j \in DOMAIN snapshot' : snapshot'[j] = snapshot[i]
  <2>1. task[s] = "publishing" /\ snapshot' = endpoints[s]
    BY <1>5 DEF Publish, Balancer!Publish
  <2>2. snapshot[i] \in Range(endpoints[s])
    BY <2>1 DEF PinnedInv
  <2> QED
    BY <2>1, <2>2 DEF Range
<1> QED
  BY <1>1, <1>2, <1>3, <1>4, <1>5 DEF Next

(* DnsDiscovery, start_discovery: an address that is part of every answer keeps its
   endpoint and its metrics, whatever other records come and go and whichever lookups
   fail. *)
THEOREM PinnedTheorem == Spec => PinnedEndpointStays
<1>1. Init => ReplayInv /\ PinnedInv
  BY DEF Init, DnsInit, Balancer!Init, ReplayInv, SendInv, ChannelReplaysToAnswer, Replayed,
         Announced, PinnedInv, AnnouncedOnce, InChannel, KeysOf
<1>2. Spec => [](DnsTypeOK /\ Proved!IInv /\ ReplayInv)
  BY <1>1, TypeCorrect, BalancerInvariant, ReplayStep, PTL DEF Spec, TypeOK
<1>3. ReplayInv => SendInv
  BY DEF ReplayInv
<1>4. Spec => []PinnedInv
  BY <1>1, <1>2, <1>3, PinnedStep, PTL DEF Spec
<1>5. DnsTypeOK /\ Proved!IInv /\ PinnedInv /\ [Next]_vars =>
        [\A i \in DOMAIN snapshot :
           keyOf[snapshot[i]] \in Pinned =>
             \E j \in DOMAIN snapshot' : snapshot'[j] = snapshot[i]]_vars
  BY PinnedStays
<1> QED
  BY <1>2, <1>4, <1>5, PTL DEF Spec, PinnedEndpointStays
================================================================================
