-------------------------------- MODULE PeakEwma -------------------------------
(***************************************************************************)
(* The latency metric of an endpoint under P2cPeakEwma: ServiceMetrics::load*)
(* and update_ewma (src/src/balanced_proxy.rs).  The value is an atomic     *)
(* updated by compare-and-swap, the time of its last update is behind a     *)
(* mutex, and nothing ties the two together, so every access is a step of   *)
(* its own.                                                                 *)
(*                                                                          *)
(* The exponential decay is a parameter: all that is asked of it is that it *)
(* leaves a value alone in no time and never makes it grow.  Time counts in *)
(* units of the decay; each Update is one answered request, and the steps   *)
(* of an update or a reader are those of the thread that runs it.           *)
(***************************************************************************)
EXTENDS Naturals

CONSTANTS
  Updates,      \* calls of update_ewma
  Readers,      \* calls of load
  Latencies,    \* what an answer may have taken, in microseconds
  MaxLatency,   \* bound on the latencies (u64)
  MaxTime,      \* bound on the clock
  Decay(_, _),  \* (value, elapsed) -> value
  Free          \* the mutex is not held

ASSUME BoundsAssumption == MaxLatency \in Nat /\ MaxTime \in Nat /\ Latencies \subseteq 0..MaxLatency

ASSUME DecayAssumption ==
  \A v \in 0..MaxLatency, t \in 0..MaxTime : Decay(v, t) \in 0..v /\ Decay(v, 0) = v

VARIABLES
  now,          \* the clock
  peak,         \* peak_ewma_micros
  lastUpdate,   \* last_update ...
  lock,         \* ... and who holds its mutex
  pc,           \* where each update is
  latency,      \* latency_micros of each update
  current,      \* the value it loaded
  elapsed,      \* the age it computed, or that the reader did
  clock,        \* the instant it is about to store
  loaded,       \* what the readers found
  slowest       \* the longest latency measured so far (history)

vars == <<now, peak, lastUpdate, lock, pc, latency, current, elapsed, clock, loaded, slowest>>

Threads == Updates \cup Readers

\* ServiceMetrics::new.
Init ==
  /\ now = 0 /\ lastUpdate = 0 /\ peak = 0 /\ slowest = 0
  /\ lock = Free
  /\ pc = [t \in Threads |-> "idle"]
  /\ latency = [u \in Updates |-> 0]
  /\ current = [u \in Updates |-> 0]
  /\ elapsed = [t \in Threads |-> 0]
  /\ clock = [t \in Threads |-> 0]
  /\ loaded = [r \in Readers |-> 0]

Tick ==
  /\ now < MaxTime
  /\ now' = now + 1
  /\ UNCHANGED <<peak, lastUpdate, lock, pc, latency, current, elapsed, clock, loaded, slowest>>

Goto(t, label) == pc' = [pc EXCEPT ![t] = label]

--------------------------------------------------------------------------------
(* update_ewma *)

\* A request is answered and its latency taken.
Measure(u, l) ==
  /\ pc[u] = "idle"
  /\ Goto(u, "load")
  /\ latency' = [latency EXCEPT ![u] = l]
  /\ slowest' = IF l > slowest THEN l ELSE slowest
  /\ UNCHANGED <<now, peak, lastUpdate, lock, current, elapsed, clock, loaded>>

\* The top of the loop.
Load(u) ==
  /\ pc[u] = "load"
  /\ current' = [current EXCEPT ![u] = peak]
  /\ Goto(u, IF peak = 0 THEN "first" ELSE "lock")
  /\ UNCHANGED <<now, peak, lastUpdate, lock, latency, elapsed, clock, loaded, slowest>>

\* The first measurement replaces the zero, unless another one did.
CasFirst(u) ==
  /\ pc[u] = "first"
  /\ IF peak = 0 THEN peak' = latency[u] /\ Goto(u, "now")
                 ELSE peak' = peak /\ Goto(u, "load")
  /\ UNCHANGED <<now, lastUpdate, lock, latency, current, elapsed, clock, loaded, slowest>>

\* *last_update.lock() = Instant::now(): the instant is taken before the lock.
TakeInstant(u) ==
  /\ pc[u] = "now"
  /\ clock' = [clock EXCEPT ![u] = now]
  /\ Goto(u, "stamp")
  /\ UNCHANGED <<now, peak, lastUpdate, lock, latency, current, elapsed, loaded, slowest>>

StampAhead(u) ==                                       \* faulty: off by one
  /\ pc[u] = "stamp"
  /\ lock = Free
  /\ lastUpdate' = clock[u] + 1
  /\ Goto(u, "done")
  /\ UNCHANGED <<now, peak, lock, latency, current, elapsed, clock, loaded, slowest>>

StampFirst(u) ==
  /\ pc[u] = "stamp"
  /\ lock = Free
  /\ lastUpdate' = clock[u]
  /\ Goto(u, "done")
  /\ UNCHANGED <<now, peak, lock, latency, current, elapsed, clock, loaded, slowest>>

\* The age of the value, under the lock.
Lock(u) ==
  /\ pc[u] = "lock"
  /\ lock = Free
  /\ lock' = u
  /\ elapsed' = [elapsed EXCEPT ![u] = now - lastUpdate]
  /\ Goto(u, "cas")
  /\ UNCHANGED <<now, peak, lastUpdate, latency, current, clock, loaded, slowest>>

\* A quarter of the larger of measurement and decayed value, three quarters of the latter.
WeightsOverOne(old, new) ==                            \* faulty: the weights add up to 5/4
  ((IF old > new THEN old ELSE new) + 4 * old) \div 4

Ewma(old, new) == ((IF old > new THEN old ELSE new) + 3 * old) \div 4

StoreUpdate(u) ==                                      \* faulty: a store in place of the swap
  /\ pc[u] = "cas"
  /\ peak' = Ewma(Decay(current[u], elapsed[u]), latency[u])
  /\ lock' = lock /\ Goto(u, "restamp")
  /\ UNCHANGED <<now, lastUpdate, latency, current, elapsed, clock, loaded, slowest>>

RetryLocked(u) ==                                      \* faulty: the guard is kept while retrying
  /\ pc[u] = "cas"
  /\ lock' = lock
  /\ IF peak = current[u]
     THEN peak' = Ewma(Decay(current[u], elapsed[u]), latency[u]) /\ Goto(u, "restamp")
     ELSE peak' = peak /\ Goto(u, "load")
  /\ UNCHANGED <<now, lastUpdate, latency, current, elapsed, clock, loaded, slowest>>

\* The swap; when another update was first, the lock is released and the loop repeated.
CasUpdate(u) ==
  /\ pc[u] = "cas"
  /\ IF peak = current[u]
     THEN /\ peak' = Ewma(Decay(current[u], elapsed[u]), latency[u])
          /\ lock' = lock
          /\ Goto(u, "restamp")
     ELSE /\ peak' = peak
          /\ lock' = Free
          /\ Goto(u, "load")
  /\ UNCHANGED <<now, lastUpdate, latency, current, elapsed, clock, loaded, slowest>>

Restamp(u) ==
  /\ pc[u] = "restamp"
  /\ lastUpdate' = now
  /\ lock' = Free
  /\ Goto(u, "done")
  /\ UNCHANGED <<now, peak, latency, current, elapsed, clock, loaded, slowest>>

--------------------------------------------------------------------------------
(* load *)

ReadStamp(r) ==
  /\ pc[r] = "idle"
  /\ lock = Free
  /\ clock' = [clock EXCEPT ![r] = lastUpdate]
  /\ Goto(r, "age")
  /\ UNCHANGED <<now, peak, lastUpdate, lock, latency, current, elapsed, loaded, slowest>>

ReadAge(r) ==
  /\ pc[r] = "age"
  /\ elapsed' = [elapsed EXCEPT ![r] = now - clock[r]]
  /\ Goto(r, "value")
  /\ UNCHANGED <<now, peak, lastUpdate, lock, latency, current, clock, loaded, slowest>>

ReadPeak(r) ==
  /\ pc[r] = "value"
  /\ loaded' = [loaded EXCEPT ![r] = Decay(peak, elapsed[r])]
  /\ Goto(r, "done")
  /\ UNCHANGED <<now, peak, lastUpdate, lock, latency, current, elapsed, clock, slowest>>

Update(u) ==
  \/ Load(u) \/ CasFirst(u) \/ TakeInstant(u) \/ StampFirst(u)
  \/ Lock(u) \/ CasUpdate(u) \/ Restamp(u)

Read(r) == ReadStamp(r) \/ ReadAge(r) \/ ReadPeak(r)

Next ==
  \/ \E u \in Updates : Update(u) \/ \E l \in Latencies : Measure(u, l)
  \/ \E r \in Readers : Read(r)
  \/ Tick

Spec == Init /\ [][Next]_vars

\* A thread that can take a step eventually does.
FairSpec == Spec /\ \A u \in Updates : WF_vars(Update(u))

--------------------------------------------------------------------------------
(* Properties *)

\* The variables have their types, and no recorded instant lies in the future.
TypeOK ==
  /\ now \in 0..MaxTime
  /\ lastUpdate \in 0..now
  /\ peak \in Nat
  /\ slowest \in 0..MaxLatency
  /\ pc \in [Threads -> {"idle", "load", "first", "now", "stamp", "lock", "cas", "restamp",
                         "age", "value", "done"}]
  /\ latency \in [Updates -> 0..MaxLatency]
  /\ current \in [Updates -> Nat]
  /\ elapsed \in [Threads -> 0..now]
  /\ clock \in [Threads -> 0..now]
  /\ loaded \in [Readers -> Nat]
  /\ lock \in Updates \cup {Free}

\* Neither the metric nor what a balancer reads of it ever exceeds the slowest answer
\* measured, whatever races and decays on the way (update_ewma, load): an endpoint is
\* never avoided for a latency it did not have.
NeverAboveMeasurements ==
  /\ peak <= slowest
  /\ \A r \in Readers : loaded[r] <= slowest

\* The peak is held: only the passing of time lowers the metric.  Neither a faster answer
\* nor an update that worked from an outdated value does (update_ewma).
PeakHolds == [][peak' < peak => \E u \in Updates : pc[u] = "cas" /\ elapsed[u] > 0]_vars

\* Every update ends: a lost race is repeated without the lock (update_ewma).
EveryUpdateEnds == \A u \in Updates : (pc[u] # "idle") ~> (pc[u] = "done")
================================================================================
