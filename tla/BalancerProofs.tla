---------------------------- MODULE BalancerProofs ----------------------------
(***************************************************************************)
(* What DiscoverableBalancer guarantees for any number of requests,         *)
(* endpoints and starts.                                                    *)
(***************************************************************************)
EXTENDS DiscoverableBalancer, FiniteSetTheorems, SequenceLemmas

(* The part of the types that counting requests needs; the endpoint chosen may be
   anything. *)
RequestTypes ==
  /\ strategy \in Strategies
  /\ pending \in [Ids -> Int]
  /\ pc \in [Requests -> {"idle", "called", "sampled", "chosen", "inflight", "done"}]
  /\ pick = [r \in Requests |-> pick[r]]

(* A step that leaves the counters alone and moves no request into or out of flight
   preserves the count. *)
LEMMA CountUndisturbed ==
  ASSUME PendingExact, UNCHANGED <<strategy, pending>>,
         \A r \in Requests : pc'[r] = "inflight" <=> pc[r] = "inflight",
         \A r \in Requests : pc[r] = "inflight" => pick'[r] = pick[r]
  PROVE  PendingExact'
<1>1. \A m \in Ids : Inflight(m)' = Inflight(m)
  BY DEF Inflight
<1> QED
  BY <1>1 DEF PendingExact

(* The requests in flight to an endpoint are finitely many. *)
LEMMA InflightFinite == \A m \in Ids : IsFiniteSet(Inflight(m))
  BY RequestsAssumption, FS_Subset DEF Inflight

(* Dispatching counts the request in once, on the endpoint it chose. *)
LEMMA DispatchCounts ==
  ASSUME RequestTypes, PendingExact, NEW r \in Requests, Dispatch(r)
  PROVE  PendingExact'
<1> USE DEF RequestTypes
<1>1. CASE strategy # "P2cPendingRequests"
  BY <1>1 DEF Dispatch, PendingExact
<1>2. CASE strategy = "P2cPendingRequests"
  <2> SUFFICES ASSUME NEW m \in Ids PROVE pending'[m] = Cardinality(Inflight(m)')
    BY <1>2 DEF PendingExact, Dispatch
  <2>1. pending[m] = Cardinality(Inflight(m))
    BY <1>2 DEF PendingExact
  <2>2. CASE pick[r] = m
    <3>1. Inflight(m)' = Inflight(m) \cup {r} /\ r \notin Inflight(m)
      BY <2>2 DEF Dispatch, Inflight
    <3>2. Cardinality(Inflight(m)') = Cardinality(Inflight(m)) + 1
      BY <3>1, InflightFinite, FS_AddElement
    <3>3. pending'[m] = pending[m] + 1
      BY <1>2, <2>2 DEF Dispatch
    <3> QED
      BY <2>1, <3>2, <3>3
  <2>3. CASE pick[r] # m
    <3>1. Inflight(m)' = Inflight(m)
      BY <2>3 DEF Dispatch, Inflight
    <3>2. pending'[m] = pending[m]
      BY <1>2, <2>3 DEF Dispatch
    <3> QED
      BY <2>1, <3>1, <3>2
  <2> QED
    BY <2>2, <2>3
<1> QED
  BY <1>1, <1>2

(* Finishing, by completion or by drop, counts the request out once, on the metrics its
   guard was created with. *)
LEMMA FinishCounts ==
  ASSUME RequestTypes, PendingExact, NEW r \in Requests, Finish(r)
  PROVE  PendingExact'
<1> USE DEF RequestTypes
<1>1. CASE strategy # "P2cPendingRequests"
  BY <1>1 DEF Finish, PendingExact
<1>2. CASE strategy = "P2cPendingRequests"
  <2> SUFFICES ASSUME NEW m \in Ids PROVE pending'[m] = Cardinality(Inflight(m)')
    BY <1>2 DEF PendingExact, Finish
  <2>1. pending[m] = Cardinality(Inflight(m))
    BY <1>2 DEF PendingExact
  <2>2. CASE pick[r] = m
    <3>1. Inflight(m)' = Inflight(m) \ {r} /\ r \in Inflight(m)
      BY <2>2 DEF Finish, Inflight
    <3>2. Cardinality(Inflight(m)') = Cardinality(Inflight(m)) - 1
      BY <3>1, InflightFinite, FS_RemoveElement
    <3>3. pending'[m] = pending[m] - 1
      BY <1>2, <2>2 DEF Finish, Settle
    <3> QED
      BY <2>1, <3>2, <3>3
  <2>3. CASE pick[r] # m
    <3>1. Inflight(m)' = Inflight(m)
      BY <2>3 DEF Finish, Inflight
    <3>2. pending'[m] = pending[m]
      BY <1>2, <2>3 DEF Finish, Settle
    <3> QED
      BY <2>1, <3>1, <3>2
  <2> QED
    BY <2>2, <2>3
<1> QED
  BY <1>1, <1>2

(* Every step keeps the types and the count. *)
LEMMA PendingStep ==
  RequestTypes /\ PendingExact /\ [Next]_vars => (RequestTypes /\ PendingExact)'
<1> SUFFICES ASSUME RequestTypes, PendingExact, [Next]_vars PROVE (RequestTypes /\ PendingExact)'
  OBVIOUS
<1>0. CASE UNCHANGED vars
  BY <1>0, CountUndisturbed DEF vars, RequestTypes
<1>1. ASSUME NEW s \in Starters, DiscoveryNext(s) PROVE (RequestTypes /\ PendingExact)'
  <2>1. UNCHANGED <<strategy, pending, pc, pick>>
    BY <1>1 DEF DiscoveryNext, StartDiscovery, Publish, StreamEnds, ApplyChange, ApplyInsert,
                ApplyRemove, requestVars
  <2> QED
    BY <2>1, CountUndisturbed DEF RequestTypes
<1> SUFFICES ASSUME NEW r \in Requests, RequestNext(r) PROVE (RequestTypes /\ PendingExact)'
  BY <1>0, <1>1 DEF Next
<1>2. CASE Call(r) \/ Unavailable(r) \/ SampleFirst(r) \/ DropUnpolled(r)
  <2>1. RequestTypes'
    BY <1>2 DEF Call, Unavailable, SampleFirst, DropUnpolled, RequestTypes
  <2> QED
    BY <1>2, <2>1, CountUndisturbed
    DEF Call, Unavailable, SampleFirst, DropUnpolled, RequestTypes
<1>3. ASSUME NEW m, Choose(r, m), pc[r] \in {"called", "sampled"}, UNCHANGED <<strategy, pending>>
      PROVE  (RequestTypes /\ PendingExact)'
  <2>1. RequestTypes'
    BY <1>3 DEF Choose, RequestTypes
  <2> QED
    BY <1>3, <2>1, CountUndisturbed DEF Choose, RequestTypes
<1>4. CASE RoundRobin(r)
  BY <1>3, <1>4 DEF RoundRobin
<1>5. CASE SelectOnly(r)
  BY <1>3, <1>5 DEF SelectOnly
<1>6. CASE SampleSecond(r)
  BY <1>3, <1>6 DEF SampleSecond
<1>7. CASE Dispatch(r)
  <2>1. pending' \in [Ids -> Int]
    <3>1. pending' = [m \in Ids |-> pending'[m]]
      BY <1>7 DEF Dispatch, RequestTypes
    <3>2. \A m \in Ids : pending'[m] \in {pending[m], pending[m] + 1}
      BY <1>7 DEF Dispatch, RequestTypes
    <3> QED
      BY <3>1, <3>2 DEF RequestTypes
  <2>2. RequestTypes'
    BY <1>7, <2>1 DEF Dispatch, RequestTypes
  <2> QED
    BY <1>7, <2>2, DispatchCounts
<1>8. CASE Finish(r)
  <2>1. RequestTypes'
    BY <1>8 DEF Finish, Settle, RequestTypes
  <2> QED
    BY <1>8, <2>1, FinishCounts
<1> QED
  BY <1>2, <1>4, <1>5, <1>6, <1>7, <1>8 DEF RequestNext

(* Metrics travel with their endpoint: however discovery removes, replaces and re-inserts
   endpoints under running requests, each pending count is exactly the number of requests
   in flight to that endpoint; in particular it never underflows. *)
THEOREM PendingTheorem == Spec => []PendingExact
<1>1. Init => RequestTypes /\ PendingExact
  <2> SUFFICES ASSUME Init PROVE RequestTypes /\ PendingExact
    OBVIOUS
  <2>1. RequestTypes
    BY DEF Init, RequestTypes
  <2>2. \A m \in Ids : Inflight(m) = {}
    BY DEF Init, Inflight
  <2> QED
    BY <2>1, <2>2, FS_EmptySet DEF Init, PendingExact
<1> QED
  BY <1>1, PendingStep, PTL DEF Spec

(* A task exists only after the flag was raised, and only the start that raised it spawns. *)
TaskInv ==
  /\ task \in [Starters -> {"none", "polling", "publishing", "ended", "panicked"}]
  /\ \A s \in Starters : task[s] # "none" => started
  /\ OneDiscoveryTask

(* Only a start that finds the flag down spawns. *)
LEMMA TaskStep == TaskInv /\ [Next]_vars => TaskInv'
<1> SUFFICES ASSUME TaskInv, [Next]_vars PROVE TaskInv'
  OBVIOUS
<1> USE DEF TaskInv, OneDiscoveryTask
<1>0. CASE UNCHANGED <<started, task>>
  BY <1>0
<1>1. ASSUME NEW s \in Starters, StartDiscovery(s) PROVE TaskInv'
  BY <1>1 DEF StartDiscovery
<1>2. ASSUME NEW s \in Starters, Publish(s) \/ StreamEnds(s) PROVE TaskInv'
  BY <1>2 DEF Publish, StreamEnds
<1>3. ASSUME NEW s \in Starters, NEW c \in Changes, ApplyChange(s, c) PROVE TaskInv'
  <2>1. UNCHANGED started /\ task[s] = "polling"
    BY <1>3 DEF ApplyChange, ApplyInsert, ApplyRemove
  <2>2. PICK x \in {"publishing", "panicked"} : task' = [task EXCEPT ![s] = x]
    BY <1>3 DEF ApplyChange, ApplyInsert, ApplyRemove
  <2> QED
    BY <2>1, <2>2
<1>4. ASSUME NEW r \in Requests, RequestNext(r) PROVE UNCHANGED <<started, task>>
  BY <1>4 DEF RequestNext, Call, Unavailable, RoundRobin, SelectOnly, SampleFirst, SampleSecond,
              Dispatch, Finish, DropUnpolled, taskVars
<1> QED
  BY <1>0, <1>1, <1>2, <1>3, <1>4 DEF Next, DiscoveryNext, vars

(* start_discovery called concurrently on any number of clones spawns one task. *)
THEOREM OneTaskTheorem == Spec => []OneDiscoveryTask
<1>1. Init => TaskInv
  BY DEF Init, TaskInv, OneDiscoveryTask
<1>2. TaskInv => OneDiscoveryTask
  BY DEF TaskInv
<1> QED
  BY <1>1, <1>2, TaskStep, PTL DEF Spec

--------------------------------------------------------------------------------
(* The lists of endpoints *)

(* A step may insert an element the list did not have, or take elements out, without
   disturbing the order of the others. *)
LEMMA OrderOfAppend ==
  ASSUME NEW T, NEW a \in Seq(T), NEW x \in T, x \notin Range(a)
  PROVE  SameOrder(a, Append(a, x))
<1> DEFINE R == Range(a)
           b == Append(a, x)
<1>1. a \in Seq(R)
  BY SeqOfRange
<1>2. Range(b) = R \cup {x}
  BY DEF Range
<1> HIDE DEF R, b
<1>3. Filter(a, R \cup {x}) = a
  <2> DEFINE S == R \cup {x}
  <2>1. R \subseteq S
    OBVIOUS
  <2> HIDE DEF S
  <2>2. Filter(a, S) = a
    BY ONLY <1>1, <2>1, FilterAll
  <2> QED
    BY <2>2 DEF S
<1>4. Filter(b, R) = Filter(a, R)
  <2>1. Filter(Append(a, x), R) = IF x \in R THEN Append(Filter(a, R), x) ELSE Filter(a, R)
    BY FilterAppend
  <2> QED
    BY <2>1 DEF R, b
<1>5. Filter(a, R) = a
  BY <1>1, FilterAll
<1> QED
  BY <1>2, <1>3, <1>4, <1>5 DEF SameOrder, R, b

LEMMA OrderOfFilter ==
  ASSUME NEW T, NEW a \in Seq(T), NEW K
  PROVE  SameOrder(a, Filter(a, K))
<1> DEFINE R == Range(a)
           b == Filter(a, K)
<1>1. a \in Seq(R)
  BY SeqOfRange
<1>2. Range(b) = R \cap K
  BY FilterRange
<1>3. Filter(a, R \cap K) = Filter(a, K)
  <2> DEFINE S == R \cap K
  <2>1. Range(a) \cap S = Range(a) \cap K
    OBVIOUS
  <2> HIDE DEF S
  <2>2. Filter(a, S) = Filter(a, K)
    BY ONLY a \in Seq(T), <2>1, FilterAgrees
  <2> QED
    BY <2>2 DEF S
<1>4. b \in Seq(R)
  <2> HIDE DEF R
  <2> QED
    BY ONLY <1>1, FilterType
<1> HIDE DEF R, b
<1>5. Filter(b, R) = b
  BY <1>4, FilterAll
<1> QED
  BY <1>2, <1>3, <1>5 DEF SameOrder, R, b

(* The endpoints of a list exist: their ids have been given out. *)
Existing == 1..(nextId - 1)

(* An Insert replaces the endpoint of its key in place, or appends a new one. *)
LEMMA InsertedKeys ==
  ASSUME FieldTypes, NEW list \in Seq(Existing), NEW k \in Keys, nextId \in Ids,
         Distinct(KeyList(list)), keyOf' = [keyOf EXCEPT ![nextId] = k]
  PROVE  /\ Inserted(list, k) \in Seq(1..nextId)
         /\ Distinct(Mapped(keyOf', Inserted(list, k)))
         /\ SameOrder(KeyList(list), Mapped(keyOf', Inserted(list, k)))
<1> DEFINE a == KeyList(list)
           new == Inserted(list, k)
           b == Mapped(keyOf', new)
<1>1. nextId \in 1..MaxEndpoints /\ keyOf \in [Ids -> Keys]
  BY DEF FieldTypes, Ids
<1>2. \A m \in Existing : m \in Ids /\ m \in 1..nextId /\ m # nextId /\ keyOf'[m] = keyOf[m]
  BY <1>1, BoundsAssumption DEF Existing, Ids
<1>3. keyOf'[nextId] = k /\ nextId \in 1..nextId
  BY <1>1 DEF Ids
<1>4. a \in Seq(Keys) /\ Len(a) = Len(list) /\ \A i \in DOMAIN list : a[i] = keyOf[list[i]]
  BY <1>1, <1>2 DEF KeyList
<1>7. list \in Seq(1..nextId)
  <2> DEFINE R == 1..nextId
             E == Existing
  <2>1. E \subseteq R
    BY <1>2
  <2>2. list \in Seq(E)
    OBVIOUS
  <2> HIDE DEF R, E
  <2>3. list \in Seq(R)
    BY <2>1, <2>2
  <2> QED
    BY <2>3 DEF R
<1>5. CASE \E i \in DOMAIN list : keyOf[list[i]] = k
  <2>1. new = [i \in DOMAIN list |-> IF keyOf[list[i]] = k THEN nextId ELSE list[i]]
    BY <1>5 DEF Inserted
  <2>2. \A i \in DOMAIN list : list[i] \in Existing
    OBVIOUS
  <2>3. new \in Seq(1..nextId)
    <3> DEFINE R == 1..nextId
    <3>1. list \in Seq(R) /\ nextId \in R
      BY <1>3, <1>7
    <3> HIDE DEF R, new
    <3>2. new \in Seq(R)
      BY <2>1, <3>1
    <3> QED
      BY <3>2 DEF R
  <2>4. b = a
    BY <1>2, <1>3, <2>1, <2>2 DEF Mapped, KeyList
  <2> QED
    BY <2>3, <2>4 DEF SameOrder
<1>6. CASE \A i \in DOMAIN list : keyOf[list[i]] # k
  <2>1. new = Append(list, nextId)
    BY <1>6 DEF Inserted
  <2>2. \A i \in DOMAIN list : list[i] \in Existing
    OBVIOUS
  <2>3. new \in Seq(1..nextId)
    <3> DEFINE R == 1..nextId
    <3>1. list \in Seq(R) /\ nextId \in R
      BY <1>3, <1>7
    <3> HIDE DEF R
    <3>2. Append(list, nextId) \in Seq(R)
      BY <3>1
    <3> QED
      BY <2>1, <3>2 DEF R
  <2>4. b = Append(a, k)
    BY <1>2, <1>3, <1>4, <2>1, <2>2 DEF Mapped, KeyList
  <2>5. k \notin Range(a)
    BY <1>4, <1>6 DEF Range
  <2> HIDE DEF a, b, new
  <2>6. SameOrder(a, Append(a, k))
    BY <1>4, <2>5, OrderOfAppend
  <2>7. Distinct(Append(a, k))
    <3>1. Distinct(a) /\ \A i \in DOMAIN a : a[i] # k
      BY <2>5 DEF a, Range
    <3> QED
      BY <1>4, <3>1 DEF Distinct
  <2> QED
    BY <2>3, <2>4, <2>6, <2>7 DEF a, b, new
<1> QED
  BY <1>5, <1>6

(* A Remove takes the endpoint of its key out. *)
LEMMA RemovedKeys ==
  ASSUME FieldTypes, NEW list \in Seq(Existing), NEW k \in Keys, Distinct(KeyList(list))
  PROVE  /\ Removed(list, k) \in Seq(Existing)
         /\ Distinct(KeyList(Removed(list, k)))
         /\ SameOrder(KeyList(list), KeyList(Removed(list, k)))
<1> DEFINE a == KeyList(list)
           K == Keys \ {k}
<1>1. keyOf \in [Ids -> Keys] /\ Existing \subseteq Ids
  BY BoundsAssumption DEF FieldTypes, Existing, Ids
<1>2. list \in Seq(Ids)
  BY <1>1
<1>3. a \in Seq(Keys)
  BY <1>1 DEF KeyList
<1>4. \A m \in Ids : m \in Others(k) <=> keyOf[m] \in K
  BY <1>1 DEF Others
<1> HIDE DEF K
<1>5. Filter(Mapped(keyOf, list), K) = Mapped(keyOf, Filter(list, Others(k)))
  <2> DEFINE S == Others(k)
             f == keyOf
  <2>2. Inverts(f, Ids, S, K)
    BY <1>4 DEF Inverts
  <2> HIDE DEF S, f
  <2>3. Filter(Mapped(f, list), K) = Mapped(f, Filter(list, S))
    BY ONLY <1>2, <2>2, FilterMapped
  <2> QED
    BY <2>3 DEF S, f
<1>6. KeyList(Removed(list, k)) = Filter(a, K)
  BY <1>5 DEF Mapped, KeyList, Removed
<1>7. Removed(list, k) \in Seq(Existing)
  BY FilterType DEF Removed
<1> HIDE DEF a
<1>8. Distinct(Filter(a, K))
  <2>1. Distinct(a)
    BY DEF a
  <2> QED
    BY ONLY <1>3, <2>1, FilterDistinct
<1>9. SameOrder(a, Filter(a, K))
  BY <1>3, OrderOfFilter
<1> QED
  BY <1>6, <1>7, <1>8, <1>9 DEF a


(* Where the snapshot and the lists of the tasks stand to each other: no list has two
   endpoints of a key, a task that waits has published its list, and one that is about to
   publish has changed the list once since. *)
ListsInv ==
  /\ \A s \in Starters : endpoints[s] \in Seq(Existing) /\ Distinct(KeyList(endpoints[s]))
  /\ \A s \in Starters : task[s] = "none" => endpoints[s] = <<>>
  /\ snapshot \in Seq(Existing)
  /\ started \/ snapshot = <<>>
  /\ SnapshotIsCurrent
  /\ \A s \in Starters :
       task[s] = "publishing" => SameOrder(KeyList(snapshot), KeyList(endpoints[s]))


(* An index sampled from a snapshot stays one of it until the choice is made. *)
SampleInv == \A r \in Requests : pc[r] = "sampled" => idx1[r] \in DOMAIN snap[r]

LEMMA SampleStep == FieldTypes /\ SampleInv /\ [Next]_vars => SampleInv'
<1> SUFFICES ASSUME FieldTypes, SampleInv, [Next]_vars PROVE SampleInv'
  OBVIOUS
<1> USE DEF FieldTypes, SampleInv
<1>1. CASE UNCHANGED <<pc, idx1, snap>>
  BY <1>1
<1>2. ASSUME NEW s \in Starters, DiscoveryNext(s) PROVE UNCHANGED <<pc, idx1, snap>>
  BY <1>2 DEF DiscoveryNext, StartDiscovery, Publish, StreamEnds, ApplyChange, ApplyInsert,
              ApplyRemove, requestVars
<1>3. ASSUME NEW r \in Requests, SampleFirst(r) PROVE SampleInv'
  BY <1>3 DEF SampleFirst
<1>4. ASSUME NEW r \in Requests, RequestNext(r), ~ SampleFirst(r) PROVE SampleInv'
  BY <1>4 DEF RequestNext, Call, Unavailable, RoundRobin, SelectOnly, SampleSecond, Dispatch,
              Finish, DropUnpolled, Choose
<1> QED
  BY <1>1, <1>2, <1>3, <1>4 DEF Next, vars

(* Every variable keeps its type. *)
LEMMA TypeStep == FieldTypes /\ SampleInv /\ [Next]_vars => FieldTypes'
<1> SUFFICES ASSUME FieldTypes, SampleInv, [Next]_vars PROVE FieldTypes'
  OBVIOUS
<1> USE BoundsAssumption DEF FieldTypes, taskVars, requestVars
<1>0. CASE UNCHANGED vars
  BY <1>0 DEF vars
<1>1. ASSUME NEW s \in Starters, StartDiscovery(s) \/ Publish(s) \/ StreamEnds(s) PROVE FieldTypes'
  <2>1. CASE StartDiscovery(s)
    BY <2>1 DEF StartDiscovery
  <2>2. CASE Publish(s)
    BY <2>2 DEF Publish
  <2>3. CASE StreamEnds(s)
    BY <2>3 DEF StreamEnds
  <2> QED
    BY <1>1, <2>1, <2>2, <2>3
<1>2. ASSUME NEW s \in Starters, NEW k \in Keys, ApplyInsert(s, k) PROVE FieldTypes'
  <2>1. CASE k \in BadTargets
    BY <1>2, <2>1 DEF ApplyInsert
  <2>2. CASE k \notin BadTargets
    <3>1. nextId \in Ids /\ nextId' \in 1..(MaxEndpoints + 1)
      BY <1>2, <2>2 DEF ApplyInsert, Ids
    <3>2. Inserted(endpoints[s], k) \in Seq(Ids)
      <4>1. endpoints[s] \in Seq(Ids)
        OBVIOUS
      <4> DEFINE list == endpoints[s]
                 I == Ids
                 replaced == [i \in DOMAIN list |-> IF keyOf[list[i]] = k THEN nextId ELSE list[i]]
      <4>2. list \in Seq(I) /\ nextId \in I
        BY <3>1, <4>1
      <4> HIDE DEF list, I, FieldTypes
      <4>3. Append(list, nextId) \in Seq(I) /\ replaced \in Seq(I)
        BY <4>2
      <4> QED
        BY <4>3 DEF Inserted, list, I
    <3>3. endpoints' \in [Starters -> Seq(Ids)]
      BY <1>2, <2>2, <3>2 DEF ApplyInsert
    <3> QED
      BY <1>2, <2>2, <3>1, <3>3 DEF ApplyInsert
  <2> QED
    BY <2>1, <2>2
<1>3. ASSUME NEW s \in Starters, NEW k \in Keys, ApplyRemove(s, k) PROVE FieldTypes'
  <2>1. Removed(endpoints[s], k) \in Seq(Ids)
    <3>1. endpoints[s] \in Seq(Ids)
      OBVIOUS
    <3> QED
      BY ONLY <3>1, FilterType DEF Removed
  <2>2. endpoints' \in [Starters -> Seq(Ids)]
    BY <1>3, <2>1 DEF ApplyRemove
  <2> QED
    BY <1>3, <2>2 DEF ApplyRemove
<1> SUFFICES ASSUME NEW r \in Requests, RequestNext(r) PROVE FieldTypes'
  BY <1>0, <1>1, <1>2, <1>3 DEF Next, DiscoveryNext, ApplyChange, Changes
<1>4. CASE Call(r)
  BY <1>4 DEF Call
<1>12. CASE Unavailable(r)
  BY <1>12 DEF Unavailable
<1>13. CASE DropUnpolled(r)
  BY <1>13 DEF DropUnpolled
<1>5. ASSUME NEW m \in Ids, Choose(r, m), counter' \in 0..(CounterMod - 1),
             UNCHANGED <<strategy, taskVars, pending, snap, idx1, load1>>
      PROVE  FieldTypes'
  BY <1>5 DEF Choose
<1>6. CASE RoundRobin(r)
  <2> DEFINE n == Len(snap[r])
  <2>1. n \in Nat \ {0} /\ counter \in Nat
    BY <1>6 DEF RoundRobin
  <2>2. counter % n \in 0..(n - 1)
    BY <2>1
  <2>3. snap[r][(counter % n) + 1] \in Ids
    BY <2>1, <2>2
  <2>4. counter' \in 0..(CounterMod - 1)
    BY <1>6, <2>1 DEF RoundRobin, Advanced
  <2> HIDE DEF FieldTypes
  <2> QED
    BY <1>5, <1>6, <2>3, <2>4 DEF RoundRobin
<1>7. CASE SelectOnly(r)
  <2>1. 1 \in DOMAIN snap[r] /\ counter' = counter
    BY <1>7 DEF SelectOnly
  <2>2. snap[r][1] \in Ids /\ counter' \in 0..(CounterMod - 1)
    BY <2>1
  <2> HIDE DEF FieldTypes
  <2> QED
    BY <1>5, <1>7, <2>2 DEF SelectOnly
<1>8. CASE SampleFirst(r)
  <2>1. PICK i \in DOMAIN snap[r] :
               /\ idx1' = [idx1 EXCEPT ![r] = i]
               /\ \E load \in Loads(snap[r][i]) : load1' = [load1 EXCEPT ![r] = load]
    BY <1>8 DEF SampleFirst
  <2>2. snap[r][i] \in Ids /\ i \in Nat
    OBVIOUS
  <2>3. \A load \in Loads(snap[r][i]) : load \in Int
    BY <2>2 DEF Loads
  <2>4. load1' \in [Requests -> Int] /\ idx1' \in [Requests -> Nat]
    BY <2>1, <2>2, <2>3
  <2> QED
    BY <1>8, <2>4 DEF SampleFirst
<1>9. CASE SampleSecond(r)
  <2>1. PICK m : Choose(r, m) /\ \E i \in {idx1[r]} \cup DOMAIN snap[r] : m = snap[r][i]
    BY <1>9 DEF SampleSecond
  <2>2. idx1[r] \in DOMAIN snap[r]
    BY <1>9 DEF SampleSecond, SampleInv
  <2>3. m \in Ids /\ counter' \in 0..(CounterMod - 1)
    BY <1>9, <2>1, <2>2 DEF SampleSecond
  <2> HIDE DEF FieldTypes
  <2> QED
    BY <1>5, <1>9, <2>1, <2>3 DEF SampleSecond
<1>10. CASE Dispatch(r)
  <2>1. pending' \in [Ids -> Int]
    <3>1. pending' = [m \in Ids |-> pending'[m]]
      BY <1>10 DEF Dispatch
    <3>2. \A m \in Ids : pending'[m] \in {pending[m], pending[m] + 1}
      BY <1>10 DEF Dispatch
    <3> QED
      BY <3>1, <3>2
  <2> QED
    BY <1>10, <2>1 DEF Dispatch
<1>11. CASE Finish(r)
  BY <1>11 DEF Finish, Settle
<1> QED
  BY <1>4, <1>6, <1>7, <1>8, <1>9, <1>10, <1>11, <1>12, <1>13 DEF RequestNext


(* A step that gives the task of s another list, derived from its own by one change, and
   leaves the snapshot for Publish. *)
LEMMA ChangeKeepsLists ==
  ASSUME FieldTypes, TaskInv, ListsInv, NEW s \in Starters, NEW new,
         task[s] = "polling", task' = [task EXCEPT ![s] = "publishing"],
         endpoints' = [endpoints EXCEPT ![s] = new],
         UNCHANGED <<started, snapshot>>,
         nextId' >= nextId, nextId' \in Nat,
         \A m \in Existing : keyOf'[m] = keyOf[m],
         new \in Seq(Existing'),
         Distinct(Mapped(keyOf', new)),
         SameOrder(KeyList(endpoints[s]), Mapped(keyOf', new))
  PROVE  ListsInv' /\ KeyList(snapshot)' = KeyList(snapshot)
<1>0. nextId \in Nat
  BY DEF FieldTypes
<1>1. Existing \subseteq Existing'
  <2>1. nextId' \in Nat /\ nextId' >= nextId
    OBVIOUS
  <2> DEFINE a == nextId
             b == nextId'
  <2>2. a \in Nat /\ b \in Nat /\ a =< b
    BY <1>0, <2>1
  <2> HIDE DEF a, b
  <2>3. 1..(a - 1) \subseteq 1..(b - 1)
    BY ONLY <2>2
  <2> QED
    BY <2>3 DEF Existing, a, b
<1> USE DEF ListsInv
<1>2. ASSUME NEW list \in Seq(Existing)
      PROVE  list \in Seq(Existing') /\ KeyList(list)' = KeyList(list)
  <2> DEFINE E == Existing
             F == Existing'
  <2>1. list \in Seq(E) /\ E \subseteq F
    BY <1>1
  <2> HIDE DEF E, F
  <2>2. list \in Seq(F) /\ \A i \in DOMAIN list : list[i] \in E
    BY <2>1
  <2> QED
    BY <2>2 DEF KeyList, E, F
<1>3. snapshot = endpoints[s]
  BY DEF SnapshotIsCurrent, PublishedIsCurrent
<1>4. \A t \in Starters \ {s} : task[t] = "none" /\ task'[t] = "none" /\ endpoints'[t] = endpoints[t]
  BY DEF TaskInv, OneDiscoveryTask, FieldTypes
<1>5. endpoints'[s] = new /\ task'[s] = "publishing"
  BY DEF FieldTypes
<1>6. KeyList(endpoints[s])' = Mapped(keyOf', new)
  <2> HIDE DEF ListsInv
  <2> QED
    BY <1>5 DEF KeyList, Mapped
<1>7. snapshot \in Seq(Existing') /\ KeyList(snapshot)' = KeyList(snapshot)
  BY <1>2
<1>8. ASSUME NEW t \in Starters
      PROVE  (endpoints[t] \in Seq(Existing) /\ Distinct(KeyList(endpoints[t])))'
  <2>1. CASE t = s
    <3>1. (endpoints[s] \in Seq(Existing))' /\ Distinct(KeyList(endpoints[s])')
      BY <1>5, <1>6
    <3> QED
      BY <2>1, <3>1 DEF Distinct
  <2>2. CASE t # s
    BY <1>2, <1>4, <2>2
  <2> QED
    BY <2>1, <2>2
<1>9. SnapshotIsCurrent'
  <2>1. UniqueKeys'
    <3>1. \A i \in DOMAIN snapshot : keyOf'[snapshot[i]] = keyOf[snapshot[i]]
      <4>1. \A i \in DOMAIN snapshot : snapshot[i] \in Existing
        <5> DEFINE E == Existing
        <5>1. snapshot \in Seq(E)
          OBVIOUS
        <5> HIDE DEF E
        <5>2. \A i \in DOMAIN snapshot : snapshot[i] \in E
          BY ONLY <5>1
        <5> QED
          BY <5>2 DEF E
      <4> QED
        BY <4>1
    <3> QED
      BY <3>1 DEF UniqueKeys, SnapshotIsCurrent
  <2>2. PublishedIsCurrent'
    BY <1>4, <1>5 DEF PublishedIsCurrent
  <2> QED
    BY <2>1, <2>2 DEF SnapshotIsCurrent
<1>10. \A t \in Starters : task'[t] = "publishing" => t = s
  BY <1>4
<1>11. SameOrder(KeyList(snapshot)', KeyList(endpoints[s])')
  BY <1>3, <1>6, <1>7
<1>12. \A t \in Starters : task'[t] = "none" => endpoints'[t] = <<>>
  BY <1>4, <1>5
<1> QED
  BY <1>5, <1>7, <1>8, <1>9, <1>10, <1>11, <1>12 DEF SameOrder

(* Every step keeps the lists, and no step disturbs the order of the snapshot. *)
LEMMA ListsStep ==
  FieldTypes /\ TaskInv /\ ListsInv /\ [Next]_vars
    => ListsInv' /\ SameOrder(KeyList(snapshot), KeyList(snapshot)')
<1> SUFFICES ASSUME FieldTypes, TaskInv, ListsInv, [Next]_vars
             PROVE  ListsInv' /\ SameOrder(KeyList(snapshot), KeyList(snapshot)')
  OBVIOUS
<1>0. KeyList(snapshot)' = KeyList(snapshot) => SameOrder(KeyList(snapshot), KeyList(snapshot)')
  BY DEF SameOrder
<1>1. CASE UNCHANGED <<started, task, endpoints, snapshot, keyOf, nextId>>
  BY <1>1 DEF ListsInv, SnapshotIsCurrent, UniqueKeys, PublishedIsCurrent, KeyList, SameOrder, Existing
<1>2. ASSUME NEW r \in Requests, RequestNext(r)
      PROVE  UNCHANGED <<started, task, endpoints, snapshot, keyOf, nextId>>
  BY <1>2 DEF RequestNext, Call, Unavailable, RoundRobin, SelectOnly, SampleFirst, SampleSecond,
              Dispatch, Finish, DropUnpolled, taskVars
<1> SUFFICES ASSUME NEW s \in Starters, DiscoveryNext(s)
             PROVE  ListsInv' /\ SameOrder(KeyList(snapshot), KeyList(snapshot)')
  BY <1>1, <1>2 DEF Next, vars
<1>3. ASSUME UNCHANGED <<endpoints, snapshot, keyOf, nextId>>, started => started',
             \A t \in Starters : \/ task'[t] = task[t]
                                 \/ task[t] # "none" /\ task'[t] \in {"ended", "panicked"}
                                 \/ task'[t] = "polling" /\ endpoints[t] = snapshot
      PROVE  ListsInv' /\ SameOrder(KeyList(snapshot), KeyList(snapshot)')
  <2>1. /\ KeyList(snapshot)' = KeyList(snapshot)
        /\ \A t \in Starters : KeyList(endpoints[t])' = KeyList(endpoints[t])
    BY <1>3 DEF KeyList
  <2>2. Existing' = Existing
    BY <1>3 DEF Existing
  <2>3. SnapshotIsCurrent'
    BY <1>3 DEF ListsInv, SnapshotIsCurrent, UniqueKeys, PublishedIsCurrent
  <2>4. \A t \in Starters : task'[t] = "publishing" => task[t] = "publishing"
    BY <1>3
  <2>5. \A t \in Starters : task'[t] = "none" => task[t] = "none"
    BY <1>3
  <2> QED
    BY <1>0, <1>3, <2>1, <2>2, <2>3, <2>4, <2>5 DEF ListsInv
<1>4. CASE StartDiscovery(s)
  <2>1. \A t \in Starters : \/ task'[t] = task[t]
                            \/ task'[t] = "polling" /\ endpoints[t] = snapshot
    BY <1>4 DEF StartDiscovery, FieldTypes, ListsInv
  <2> QED
    BY <1>3, <1>4, <2>1 DEF StartDiscovery
<1>5. CASE StreamEnds(s)
  <2>1. \A t \in Starters : \/ task'[t] = task[t]
                            \/ task[t] # "none" /\ task'[t] = "ended"
    BY <1>5 DEF StreamEnds, FieldTypes
  <2> QED
    BY <1>3, <1>5, <2>1 DEF StreamEnds
<1>6. ASSUME NEW k \in Keys, ApplyInsert(s, k), k \in BadTargets
      PROVE  ListsInv' /\ SameOrder(KeyList(snapshot), KeyList(snapshot)')
  <2>1. \A t \in Starters : \/ task'[t] = task[t]
                            \/ task[t] # "none" /\ task'[t] = "panicked"
    BY <1>6 DEF ApplyInsert, FieldTypes
  <2> QED
    BY <1>3, <1>6, <2>1 DEF ApplyInsert
<1>7. CASE Publish(s)
  <2>1. /\ snapshot' = endpoints[s] /\ task[s] = "publishing"
        /\ UNCHANGED <<started, endpoints, keyOf, nextId>>
    BY <1>7 DEF Publish
  <2>2. /\ KeyList(snapshot)' = KeyList(endpoints[s])
        /\ \A t \in Starters : KeyList(endpoints[t])' = KeyList(endpoints[t])
    BY <2>1 DEF KeyList
  <2>3. SameOrder(KeyList(snapshot), KeyList(snapshot)')
    BY <2>1, <2>2 DEF ListsInv
  <2>4. \A t \in Starters : t # s => task[t] = "none" /\ task'[t] = "none"
    BY <1>7 DEF Publish, TaskInv, OneDiscoveryTask, FieldTypes
  <2>5. task'[s] = "polling"
    BY <1>7 DEF Publish, FieldTypes
  <2>6. SnapshotIsCurrent'
    <3>1. UniqueKeys'
      BY <2>1 DEF ListsInv, UniqueKeys, Distinct, KeyList
    <3>2. PublishedIsCurrent'
      BY <2>1, <2>4 DEF PublishedIsCurrent
    <3> QED
      BY <3>1, <3>2 DEF SnapshotIsCurrent
  <2>7. Existing' = Existing
    BY <2>1 DEF Existing
  <2>8. started
    BY <2>1 DEF TaskInv
  <2> QED
    BY <2>1, <2>2, <2>3, <2>4, <2>5, <2>6, <2>7, <2>8 DEF ListsInv
<1>8. endpoints[s] \in Seq(Existing) /\ Distinct(KeyList(endpoints[s])) /\ nextId \in Nat
  BY DEF ListsInv, FieldTypes
<1>9. ASSUME NEW k \in Keys, ApplyInsert(s, k), k \notin BadTargets
      PROVE  ListsInv' /\ SameOrder(KeyList(snapshot), KeyList(snapshot)')
  <2> DEFINE new == Inserted(endpoints[s], k)
  <2>1. /\ nextId \in Ids
        /\ task[s] = "polling"
        /\ task' = [task EXCEPT ![s] = "publishing"]
        /\ endpoints' = [endpoints EXCEPT ![s] = new]
        /\ keyOf' = [keyOf EXCEPT ![nextId] = k]
        /\ nextId' = nextId + 1
        /\ UNCHANGED <<started, snapshot>>
    BY <1>9 DEF ApplyInsert
  <2>2. /\ new \in Seq(1..nextId)
        /\ Distinct(Mapped(keyOf', new))
        /\ SameOrder(KeyList(endpoints[s]), Mapped(keyOf', new))
    BY <1>8, <2>1, InsertedKeys
  <2>3. Existing' = 1..nextId
    BY <1>8, <2>1 DEF Existing
  <2>4. \A m \in Existing : keyOf'[m] = keyOf[m]
    BY <1>8, <2>1 DEF Existing, FieldTypes
  <2>5. nextId' >= nextId /\ nextId' \in Nat
    BY <1>8, <2>1
  <2> HIDE DEF new
  <2>6. ListsInv' /\ KeyList(snapshot)' = KeyList(snapshot)
    BY <2>1, <2>2, <2>3, <2>4, <2>5, ChangeKeepsLists
  <2> QED
    BY <1>0, <2>6
<1>10. ASSUME NEW k \in Keys, ApplyRemove(s, k)
       PROVE  ListsInv' /\ SameOrder(KeyList(snapshot), KeyList(snapshot)')
  <2> DEFINE new == Removed(endpoints[s], k)
  <2>1. /\ task[s] = "polling"
        /\ task' = [task EXCEPT ![s] = "publishing"]
        /\ endpoints' = [endpoints EXCEPT ![s] = new]
        /\ UNCHANGED <<started, snapshot, keyOf, nextId>>
    BY <1>10 DEF ApplyRemove
  <2>2. /\ new \in Seq(Existing)
        /\ Distinct(KeyList(new))
        /\ SameOrder(KeyList(endpoints[s]), KeyList(new))
    BY <1>8, RemovedKeys
  <2>3. Existing' = Existing /\ Mapped(keyOf', new) = KeyList(new)
    BY <2>1 DEF Existing, Mapped, KeyList
  <2>4. \A m \in Existing : keyOf'[m] = keyOf[m]
    BY <2>1
  <2>5. nextId' >= nextId /\ nextId' \in Nat
    BY <1>8, <2>1
  <2> HIDE DEF new
  <2>6. ListsInv' /\ KeyList(snapshot)' = KeyList(snapshot)
    BY <2>1, <2>2, <2>3, <2>4, <2>5, ChangeKeepsLists
  <2> QED
    BY <1>0, <2>6
<1> QED
  BY <1>4, <1>5, <1>6, <1>7, <1>9, <1>10 DEF DiscoveryNext, ApplyChange, Changes

(* The invariant of the discovery side. *)
IInv == FieldTypes /\ SampleInv /\ TaskInv /\ ListsInv

LEMMA Invariance == Spec => []IInv
<1>1. Init => IInv
  <2> SUFFICES ASSUME Init PROVE IInv
    OBVIOUS
  <2>1. FieldTypes
    <3>1. <<>> \in Seq(Ids)
      OBVIOUS
    <3>2. counter \in 0..(CounterMod - 1) /\ nextId \in Nat
      BY BoundsAssumption DEF Init
    <3>3. /\ endpoints \in [Starters -> Seq(Ids)]
          /\ snap \in [Requests -> Seq(Ids)]
          /\ snapshot \in Seq(Ids)
      BY <3>1 DEF Init
    <3>4. keyOf \in [Ids -> Keys] /\ pending \in [Ids -> Int] /\ load1 \in [Requests -> Int]
      BY DEF Init
    <3>5. nextId \in 1..(MaxEndpoints + 1)
      BY BoundsAssumption DEF Init
    <3>6. idx1 \in [Requests -> Nat] /\ pick \in [Requests -> Ids \cup {0}]
      BY DEF Init
    <3>7. /\ strategy \in Strategies
          /\ started \in BOOLEAN
          /\ task \in [Starters -> {"none", "polling", "publishing", "ended", "panicked"}]
          /\ pc \in [Requests -> {"idle", "called", "sampled", "chosen", "inflight", "done"}]
      BY DEF Init
    <3> QED
      BY <3>2, <3>3, <3>4, <3>5, <3>6, <3>7 DEF FieldTypes
  <2>2. SampleInv /\ TaskInv
    BY DEF Init, SampleInv, TaskInv, OneDiscoveryTask
  <2>3. ListsInv
    BY DEF Init, ListsInv, SnapshotIsCurrent, UniqueKeys, PublishedIsCurrent, KeyList, Distinct
  <2> QED
    BY <2>1, <2>2, <2>3 DEF IInv
<1>2. IInv /\ [Next]_vars => IInv'
  BY TypeStep, SampleStep, TaskStep, ListsStep DEF IInv
<1> QED
  BY <1>1, <1>2, PTL DEF Spec

(* DiscoverableBalancedProxy: every variable keeps its type; in particular a request only
   ever picks an endpoint that exists, and an endpoint has one place in the task's list. *)
THEOREM TypeCorrect == Spec => []TypeOK
<1>1. IInv => TypeOK
  BY DEF IInv, TypeOK, ListsInv, Distinct, KeyList, IsInjective
<1> QED
  BY <1>1, Invariance, PTL

(* start_discovery: at every pause of the task the published snapshot is its list, and no
   snapshot has two endpoints of one key, after any series of changes. *)
THEOREM SnapshotTheorem == Spec => []SnapshotIsCurrent
<1>1. IInv => SnapshotIsCurrent
  BY DEF IInv, ListsInv
<1> QED
  BY <1>1, Invariance, PTL

(* Inserting, replacing and removing leave the keys that stay in service in their order. *)
THEOREM OrderTheorem == Spec => SurvivorsKeepOrder
<1>1. IInv /\ [Next]_vars => [SameOrder(KeyList(snapshot), KeyList(snapshot)')]_vars
  BY ListsStep DEF IInv
<1> QED
  BY <1>1, Invariance, PTL DEF Spec, SurvivorsKeepOrder
================================================================================
