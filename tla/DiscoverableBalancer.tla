------------------------- MODULE DiscoverableBalancer -------------------------
(***************************************************************************)
(* DiscoverableBalancedProxy (src/src/balanced_proxy.rs): a background task *)
(* applies the changes of a discovery stream to its list of endpoints and   *)
(* publishes a new snapshot after each one; requests capture the snapshot   *)
(* when they are called, choose an endpoint when they are polled, and count *)
(* themselves on the endpoint's metrics while the upstream call lasts.      *)
(* Requests run on any thread, so every atomic read and update of shared    *)
(* state is a step of its own.                                              *)
(***************************************************************************)
EXTENDS Integers, Sequences, FiniteSets, Functions, SequenceFolds

CONSTANTS
  Keys,          \* discovery keys
  BadTargets,    \* keys whose service URL is not a valid proxy target
  Starters,      \* calls of start_discovery, on the proxy or on its clones
  Requests,      \* calls of the service
  MaxEndpoints,  \* bound: endpoints (and their metrics) ever created
  CounterMod,    \* 2^width of the round-robin AtomicUsize
  EwmaLoads      \* loads that the peak-EWMA metric may report

ASSUME BadTargetsAssumption == BadTargets \subseteq Keys
ASSUME BoundsAssumption == MaxEndpoints \in Nat /\ CounterMod \in Nat \ {0} /\ EwmaLoads \subseteq Nat
ASSUME RequestsAssumption == IsFiniteSet(Requests)

Strategies == {"RoundRobin", "P2cPendingRequests", "P2cPeakEwma"}
Ids == 1..MaxEndpoints
Changes == [op : {"insert", "remove"}, key : Keys]

VARIABLES
  strategy,   \* the configured LoadBalancingStrategy
  started,    \* the discovery_started flag shared by all clones
  task,       \* task[s]: the background task spawned by start s
  endpoints,  \* endpoints[s]: that task's own insertion-ordered list of endpoint ids
  snapshot,   \* the published list of endpoint ids
  keyOf,      \* keyOf[m]: the key endpoint m was inserted under
  nextId,     \* the id of the next endpoint, standing for its fresh ServiceMetrics
  pending,    \* pending[m]: the pending_requests counter of endpoint m
  counter,    \* the round-robin counter
  pc,         \* pc[r]: progress of the request's future
  snap,       \* snap[r]: the snapshot the request captured
  idx1,       \* idx1[r]: first index sampled by p2c_select
  load1,      \* load1[r]: the load read for it
  pick        \* pick[r]: the endpoint chosen, 0 before

taskVars == <<started, task, endpoints, snapshot, keyOf, nextId>>
requestVars == <<counter, pc, snap, idx1, load1, pick>>
vars == <<strategy, started, task, endpoints, snapshot, keyOf, nextId, pending, counter, pc,
          snap, idx1, load1, pick>>

FieldTypes ==
  /\ strategy \in Strategies
  /\ started \in BOOLEAN
  /\ task \in [Starters -> {"none", "polling", "publishing", "ended", "panicked"}]
  /\ endpoints \in [Starters -> Seq(Ids)]
  /\ snapshot \in Seq(Ids)
  /\ keyOf \in [Ids -> Keys]
  /\ nextId \in 1..(MaxEndpoints + 1)
  /\ pending \in [Ids -> Int]
  /\ counter \in 0..(CounterMod - 1)
  /\ pc \in [Requests -> {"idle", "called", "sampled", "chosen", "inflight", "done"}]
  /\ snap \in [Requests -> Seq(Ids)]
  /\ idx1 \in [Requests -> Nat]
  /\ load1 \in [Requests -> Int]
  /\ pick \in [Requests -> Ids \cup {0}]

\* No list holds an endpoint twice, so that every position of the snapshot is another one.
TypeOK == FieldTypes /\ \A s \in Starters : IsInjective(endpoints[s])

\* keyOf is arbitrary for endpoints that do not exist yet.
Init ==
  /\ strategy \in Strategies
  /\ started = FALSE
  /\ task = [s \in Starters |-> "none"]
  /\ endpoints = [s \in Starters |-> <<>>]
  /\ snapshot = <<>>
  /\ \E k \in Keys : keyOf = [m \in Ids |-> k]
  /\ nextId = 1
  /\ pending = [m \in Ids |-> 0]
  /\ counter = 0
  /\ pc = [r \in Requests |-> "idle"]
  /\ snap = [r \in Requests |-> <<>>]
  /\ idx1 = [r \in Requests |-> 0]
  /\ load1 = [r \in Requests |-> 0]
  /\ pick = [r \in Requests |-> 0]

--------------------------------------------------------------------------------
(* Discovery *)

\* start_discovery: the first call, on whichever clone, spawns the task.
StartAgain(s) ==                                         \* faulty: the flag is not checked
  /\ task[s] = "none"
  /\ started' = TRUE
  /\ task' = [task EXCEPT ![s] = "polling"]
  /\ UNCHANGED <<strategy, endpoints, snapshot, keyOf, nextId, pending, requestVars>>

StartDiscovery(s) ==
  /\ task[s] = "none"
  /\ started' = TRUE
  /\ task' = IF started THEN task ELSE [task EXCEPT ![s] = "polling"]
  /\ UNCHANGED <<strategy, endpoints, snapshot, keyOf, nextId, pending, requestVars>>

\* The endpoints of the other keys.
Others(k) == {m \in Ids : keyOf[m] # k}

\* An Insert for a known key replaces its endpoint in place, any other is appended.
MovedToEnd(list, k) ==                                   \* faulty: removes, then appends
  Append(Filter(list, Others(k)), nextId)

ReplacedAndPushed(list, k) ==                            \* faulty: no else
  Append([i \in DOMAIN list |-> IF keyOf[list[i]] = k THEN nextId ELSE list[i]], nextId)

Inserted(list, k) ==
  IF \E i \in DOMAIN list : keyOf[list[i]] = k
  THEN [i \in DOMAIN list |-> IF keyOf[list[i]] = k THEN nextId ELSE list[i]]
  ELSE Append(list, nextId)

\* The task receives an Insert: a fresh endpoint with fresh metrics.  A target that
\* does not parse panics the task before anything changes.
ApplyInsert(s, k) ==
  /\ task[s] = "polling"
  /\ IF k \in BadTargets
     THEN /\ task' = [task EXCEPT ![s] = "panicked"]
          /\ UNCHANGED <<endpoints, keyOf, nextId>>
     ELSE /\ nextId \in Ids
          /\ task' = [task EXCEPT ![s] = "publishing"]
          /\ endpoints' = [endpoints EXCEPT ![s] = Inserted(@, k)]
          /\ keyOf' = [keyOf EXCEPT ![nextId] = k]
          /\ nextId' = nextId + 1
  /\ UNCHANGED <<strategy, started, snapshot, pending, requestVars>>

\* Vec::retain keeps the order of the endpoints that stay.
Removed(list, k) == Filter(list, Others(k))

ApplyRemove(s, k) ==
  /\ task[s] = "polling"
  /\ task' = [task EXCEPT ![s] = "publishing"]
  /\ endpoints' = [endpoints EXCEPT ![s] = Removed(@, k)]
  /\ UNCHANGED <<strategy, started, snapshot, keyOf, nextId, pending, requestVars>>

\* The write lock is taken and the snapshot replaced.
PublishNothing(s) ==                                     \* faulty: the snapshot is not rebuilt
  /\ task[s] = "publishing"
  /\ task' = [task EXCEPT ![s] = "polling"]
  /\ UNCHANGED <<strategy, started, endpoints, snapshot, keyOf, nextId, pending, requestVars>>

Publish(s) ==
  /\ task[s] = "publishing"
  /\ task' = [task EXCEPT ![s] = "polling"]
  /\ snapshot' = endpoints[s]
  /\ UNCHANGED <<strategy, started, endpoints, keyOf, nextId, pending, requestVars>>

\* An Err from the stream is logged and nothing changes; the end of the stream ends the
\* task, and the last snapshot stays in service.
StreamEnds(s) ==
  /\ task[s] = "polling"
  /\ task' = [task EXCEPT ![s] = "ended"]
  /\ UNCHANGED <<strategy, started, endpoints, snapshot, keyOf, nextId, pending, requestVars>>

--------------------------------------------------------------------------------
(* Requests *)

\* Service::call captures the snapshot; the rest runs when the future is polled.
Call(r) ==
  /\ pc[r] = "idle"
  /\ pc' = [pc EXCEPT ![r] = "called"]
  /\ snap' = [snap EXCEPT ![r] = snapshot]
  /\ UNCHANGED <<strategy, taskVars, pending, counter, idx1, load1, pick>>

\* 503: the captured snapshot is empty.
Unavailable(r) ==
  /\ pc[r] = "called"
  /\ snap[r] = <<>>
  /\ pc' = [pc EXCEPT ![r] = "done"]
  /\ UNCHANGED <<strategy, taskVars, pending, counter, snap, idx1, load1, pick>>

Choose(r, m) ==
  /\ pc' = [pc EXCEPT ![r] = "chosen"]
  /\ pick' = [pick EXCEPT ![r] = m]

\* fetch_add on the round-robin counter wraps around.
Advanced == (counter + 1) % CounterMod

RoundRobin(r) ==
  /\ pc[r] = "called"
  /\ snap[r] # <<>>
  /\ strategy = "RoundRobin"
  /\ counter' = Advanced
  /\ Choose(r, snap[r][(counter % Len(snap[r])) + 1])
  /\ UNCHANGED <<strategy, taskVars, pending, snap, idx1, load1>>

\* ServiceMetrics::load.  The decayed latency may be anything.
Loads(m) == IF strategy = "P2cPendingRequests" THEN {pending[m]} ELSE EwmaLoads

\* p2c_select on a single endpoint, and its two samples with their two loads, which
\* other requests may change in between.
SelectOnly(r) ==
  /\ pc[r] = "called"
  /\ strategy # "RoundRobin"
  /\ Len(snap[r]) = 1
  /\ Choose(r, snap[r][1])
  /\ UNCHANGED <<strategy, taskVars, pending, counter, snap, idx1, load1>>

SampleFirst(r) ==
  /\ pc[r] = "called"
  /\ strategy # "RoundRobin"
  /\ Len(snap[r]) > 1
  /\ pc' = [pc EXCEPT ![r] = "sampled"]
  /\ \E i \in DOMAIN snap[r] :
       /\ idx1' = [idx1 EXCEPT ![r] = i]
       /\ \E load \in Loads(snap[r][i]) : load1' = [load1 EXCEPT ![r] = load]
  /\ UNCHANGED <<strategy, taskVars, pending, counter, snap, pick>>

SampleSecond(r) ==
  /\ pc[r] = "sampled"
  /\ \E j \in DOMAIN snap[r] \ {idx1[r]} :
       \E load2 \in Loads(snap[r][j]) :
         Choose(r, snap[r][IF load1[r] <= load2 THEN idx1[r] ELSE j])
  /\ UNCHANGED <<strategy, taskVars, pending, counter, snap, idx1, load1>>

\* The pending count goes up and its guard is created, then the upstream call starts.
Dispatch(r) ==
  /\ pc[r] = "chosen"
  /\ pc' = [pc EXCEPT ![r] = "inflight"]
  /\ pending' = IF strategy = "P2cPendingRequests"
                THEN [pending EXCEPT ![pick[r]] = @ + 1] ELSE pending
  /\ UNCHANGED <<strategy, taskVars, counter, snap, idx1, load1, pick>>

\* PendingRequestGuard::drop, on the metrics the guard was created with.
SettleByKey(r) ==                                        \* faulty: looks the key up again
  \E m \in Ids :
    /\ \/ keyOf[m] = keyOf[pick[r]] /\ \E i \in DOMAIN snapshot : snapshot[i] = m
       \/ m = pick[r] /\ \A i \in DOMAIN snapshot : keyOf[snapshot[i]] # keyOf[m]
    /\ pending' = [pending EXCEPT ![m] = @ - 1]

Settle(r) == pending' = [pending EXCEPT ![pick[r]] = @ - 1]

\* The upstream call returns, or the future is dropped while it waits: the guard
\* settles either way.
Finish(r) ==
  /\ pc[r] = "inflight"
  /\ pc' = [pc EXCEPT ![r] = "done"]
  /\ snap' = [snap EXCEPT ![r] = <<>>]
  /\ IF strategy = "P2cPendingRequests" THEN Settle(r) ELSE UNCHANGED pending
  /\ UNCHANGED <<strategy, taskVars, counter, idx1, load1, pick>>

\* A future that was never polled is dropped.
DropUnpolled(r) ==
  /\ pc[r] = "called"
  /\ pc' = [pc EXCEPT ![r] = "done"]
  /\ snap' = [snap EXCEPT ![r] = <<>>]
  /\ UNCHANGED <<strategy, taskVars, pending, counter, idx1, load1, pick>>

--------------------------------------------------------------------------------
ApplyChange(s, c) ==
  \/ c.op = "insert" /\ ApplyInsert(s, c.key)
  \/ c.op = "remove" /\ ApplyRemove(s, c.key)

RequestNext(r) ==
  \/ Call(r) \/ Unavailable(r) \/ RoundRobin(r) \/ SelectOnly(r) \/ SampleFirst(r)
  \/ SampleSecond(r) \/ Dispatch(r) \/ Finish(r) \/ DropUnpolled(r)

DiscoveryNext(s) ==
  \/ StartDiscovery(s) \/ Publish(s) \/ StreamEnds(s)
  \/ \E c \in Changes : ApplyChange(s, c)

Next ==
  \/ \E s \in Starters : DiscoveryNext(s)
  \/ \E r \in Requests : RequestNext(r)

Spec == Init /\ [][Next]_vars

--------------------------------------------------------------------------------
(* Safety *)

Inflight(m) == {r \in Requests : pc[r] = "inflight" /\ pick[r] = m}

\* The pending count of an endpoint is the number of requests in flight to it: metrics
\* travel with the endpoint, so removing or replacing it under running requests, or
\* dropping their futures, never moves load to another endpoint and never underflows.
PendingExact ==
  \A m \in Ids :
    pending[m] = IF strategy = "P2cPendingRequests" THEN Cardinality(Inflight(m)) ELSE 0

\* "Subsequent calls (on this instance or any clone) are no-ops: the discovery stream is
\* consumed by a single background task": concurrent starts never spawn two.
OneDiscoveryTask ==
  \A s, t \in Starters : task[s] # "none" /\ task[t] # "none" => s = t

\* Per tower's Discover contract an Insert for an existing key replaces that service: no
\* request ever sees two endpoints of one key.
UniqueKeys ==
  \A i, j \in DOMAIN snapshot : keyOf[snapshot[i]] = keyOf[snapshot[j]] => i = j

\* A task that waits for its next change has published all earlier ones.
PublishedIsCurrent ==
  \A s \in Starters : task[s] = "polling" => snapshot = endpoints[s]

\* What requests balance over is the endpoint list of the discovery task, one endpoint per
\* key, at every pause between changes (start_discovery).
SnapshotIsCurrent == UniqueKeys /\ PublishedIsCurrent

\* The keys of a list of endpoints, in its order.
KeyList(list) == [i \in DOMAIN list |-> keyOf[list[i]]]

\* What two lists have in common is in the same order in both.
SameOrder(before, after) == Filter(before, Range(after)) = Filter(after, Range(before))

\* A change of the snapshot leaves the keys that stay in service in their order, so that
\* the round robin keeps its sequence across insertions, replacements and removals.
SurvivorsKeepOrder == [][SameOrder(KeyList(snapshot), KeyList(snapshot)')]_vars
================================================================================
