--------------------------- MODULE ForwardLifecycle ---------------------------
(***************************************************************************)
(* The life of a forwarded request and of the resource that covers it:     *)
(*   src/src/forward.rs    forward_with and proxy_request_on_stream,       *)
(*   src/src/lifecycle.rs  TunnelGuard, TunnelCancellation, retain and     *)
(*                         GuardedBody,                                    *)
(*   src/src/websocket.rs  bridge.                                         *)
(* Each forwarding attempt is a future that ends in an error response, in  *)
(* a response body, or in a detached tunnel task.  A resource moves from   *)
(* the slot shared by the clones of its TunnelGuard into the future, from  *)
(* there into the body or the tunnel, and is released where it is dropped. *)
(* Everything that runs on a task of its own (the future, the consumer of  *)
(* the body, the tunnel, the connection driver, hyper handing a transport  *)
(* over, the caller's cancellation) interleaves.                           *)
(***************************************************************************)
EXTENDS Naturals

CONSTANTS
  Attempts,         \* forwarding attempts
  Guards,           \* resources, one per TunnelGuard::new
  NoGuard,          \* the None of Option<Resource> and of a missing extension
  UpstreamTimeout   \* policy.upstream_timeout is Some

ASSUME NoGuardAssumption == NoGuard \notin Guards
ASSUME UpstreamTimeoutAssumption == UpstreamTimeout \in BOOLEAN

VARIABLES
  req,        \* req[a]: what distinguishes the requests, fixed from the start
  slot,       \* the guards whose Mutex<Option<Resource>> is still Some
  caller,     \* the guards with a clone outside the requests
  ext,        \* ext[a]: the guard clone in the request's extensions
  cancelled,  \* the caller's CancellationToken has been cancelled
  fut,        \* fut[a]: progress of the forward_with future
  futGuard,   \* futGuard[a]: forward_with's local `guard`
  body,       \* body[a]: the response body handed to the server
  bodyGuard,  \* bodyGuard[a]: the guard field of GuardedBody
  tunnel,     \* tunnel[a]: progress of the task spawned by bridge
  tunGuard,   \* tunGuard[a]: that task's `_guard`
  drained,    \* drained[a]: the copy directions that have reached EOF
  polling,    \* polling[a]: the select found the token unset and is polling the tunnel
  down,       \* down[a]: who owns the upgraded client transport
  up,         \* up[a]: who owns the upgraded upstream transport
  driver,     \* driver[a]: the connection task of proxy_request_on_stream
  connGuard,  \* connGuard[a]: who owns its ConnectionGuard
  took,       \* history: the resource attempt a took from its slot
  late,       \* history: polls of a running tunnel that ended after the cancellation
  released    \* history: how often resource g has been dropped

slotVars == <<slot, caller, ext>>
pollVars == <<polling, late>>
tunnelVars == <<tunnel, tunGuard, drained, pollVars, down, up>>
driverVars == <<driver, connGuard>>
vars == <<req, slot, caller, ext, cancelled, fut, futGuard, body, bodyGuard, tunnel,
          tunGuard, drained, polling, late, down, up, driver, connGuard, took, released>>

Option == Guards \cup {NoGuard}
Directions == {"toUpstream", "toClient"}

\* "rejected": CONNECT, a Via loop or a declared length over the cap.  "token": the
\* request carries a TunnelCancellation, which is without effect on any but an upgrade.
\* "stream": it goes through proxy_request_on_stream rather than through a pooled client.
Requests ==
  [kind : {"rejected", "plain"}, cancel : {"none"}, via : {"client", "stream"}]
    \cup [kind : {"upgrade"}, cancel : {"none", "token"}, via : {"client", "stream"}]

TypeOK ==
  /\ req \in [Attempts -> Requests]
  /\ slot \subseteq Guards
  /\ caller \subseteq Guards
  /\ ext \in [Attempts -> Option]
  /\ cancelled \in BOOLEAN
  /\ fut \in [Attempts -> {"new", "checking", "sending", "done", "dropped"}]
  /\ futGuard \in [Attempts -> Option]
  /\ body \in [Attempts -> {"none", "streaming", "ended", "dropped"}]
  /\ bodyGuard \in [Attempts -> Option]
  /\ tunnel \in [Attempts -> {"none", "waiting", "copying", "closing", "done"}]
  /\ tunGuard \in [Attempts -> Option]
  /\ drained \in [Attempts -> SUBSET Directions]
  /\ polling \in [Attempts -> BOOLEAN]
  /\ late \in [Attempts -> Nat]
  /\ down \in [Attempts -> {"none", "hyper", "tunnel", "closed"}]
  /\ up \in [Attempts -> {"none", "hyper", "tunnel", "closed"}]
  /\ driver \in [Attempts -> {"none", "running", "aborting", "ended"}]
  /\ connGuard \in [Attempts -> {"none", "future", "body"}]
  /\ took \in [Attempts -> Option]
  /\ released \in [Guards -> Nat]

\* Every request is built by the caller, which may clone one guard into several
\* requests (RetryLayer does) and may keep a clone of its own.
Init ==
  /\ req \in [Attempts -> Requests]
  /\ slot = Guards
  /\ caller = Guards
  /\ ext \in [Attempts -> Option]
  /\ cancelled = FALSE
  /\ fut = [a \in Attempts |-> "new"]
  /\ futGuard = [a \in Attempts |-> NoGuard]
  /\ body = [a \in Attempts |-> "none"]
  /\ bodyGuard = [a \in Attempts |-> NoGuard]
  /\ tunnel = [a \in Attempts |-> "none"]
  /\ tunGuard = [a \in Attempts |-> NoGuard]
  /\ drained = [a \in Attempts |-> {}]
  /\ polling = [a \in Attempts |-> FALSE]
  /\ late = [a \in Attempts |-> 0]
  /\ down = [a \in Attempts |-> "none"]
  /\ up = [a \in Attempts |-> "none"]
  /\ driver = [a \in Attempts |-> "none"]
  /\ connGuard = [a \in Attempts |-> "none"]
  /\ took = [a \in Attempts |-> NoGuard]
  /\ released = [g \in Guards |-> 0]

--------------------------------------------------------------------------------
(* Dropping values *)

\* An Option<Resource> goes out of scope: a Some runs the resource's Drop.
Drop(g) ==
  released' = IF g = NoGuard THEN released ELSE [released EXCEPT ![g] = @ + 1]

\* The last clone of a guard drops the resource if no attempt has taken it.
DropClone(g) ==
  IF g \in slot /\ g \notin caller' /\ \A a \in Attempts : ext'[a] # g
  THEN slot' = slot \ {g} /\ Drop(g)
  ELSE UNCHANGED <<slot, released>>

\* A ConnectionGuard that still has its handle aborts the driver; the runtime
\* carries the abort out later.
DetachDriver(a) ==                                              \* faulty: no Drop
  connGuard' = [connGuard EXCEPT ![a] = "none"] /\ UNCHANGED driver

AbortDriver(a) ==
  /\ connGuard' = [connGuard EXCEPT ![a] = "none"]
  /\ driver' = IF connGuard[a] # "none" /\ driver[a] = "running"
               THEN [driver EXCEPT ![a] = "aborting"] ELSE driver

--------------------------------------------------------------------------------
(* The caller *)

\* The middleware or the retry layer lets go of its clone of the guard.
CallerDropsClone(g) ==
  /\ g \in caller
  /\ caller' = caller \ {g}
  /\ UNCHANGED ext
  /\ DropClone(g)
  /\ UNCHANGED <<req, cancelled, fut, futGuard, body, bodyGuard, tunnelVars, driverVars,
                 took>>

\* A request that was never polled is dropped with the clone in its extensions.
DropRequest(a) ==
  /\ fut[a] = "new"
  /\ fut' = [fut EXCEPT ![a] = "dropped"]
  /\ ext' = [ext EXCEPT ![a] = NoGuard]
  /\ UNCHANGED caller
  /\ DropClone(ext[a])
  /\ UNCHANGED <<req, cancelled, futGuard, body, bodyGuard, tunnelVars, driverVars, took>>

Cancel ==
  /\ ~cancelled
  /\ cancelled' = TRUE
  /\ UNCHANGED <<req, slotVars, fut, futGuard, body, bodyGuard, tunnelVars, driverVars,
                 took, released>>

--------------------------------------------------------------------------------
(* forward_with *)

\* TunnelGuard::take on a slot: the resource goes to the first attempt that asks.
CloneResource(g) == g                                           \* faulty: shared, not taken

Take(g) == IF g \in slot THEN g ELSE NoGuard

\* The first poll removes the guard clone from the extensions and takes what is
\* still in its slot; the clone itself is dropped.
TakeGuard(a) ==
  /\ fut[a] = "new"
  /\ fut' = [fut EXCEPT ![a] = "checking"]
  /\ ext' = [ext EXCEPT ![a] = NoGuard]
  /\ futGuard' = [futGuard EXCEPT ![a] = Take(ext[a])]
  /\ took' = [took EXCEPT ![a] = Take(ext[a])]
  /\ slot' = slot \ {ext[a]}
  /\ UNCHANGED <<req, caller, cancelled, body, bodyGuard, tunnelVars, driverVars, released>>

\* CONNECT (501), a Via loop (508) or a declared length over the cap (413) return
\* early; the local guard goes with the future.
RejectEarly(a) ==
  /\ fut[a] = "checking"
  /\ req[a].kind = "rejected"
  /\ fut' = [fut EXCEPT ![a] = "done"]
  /\ futGuard' = [futGuard EXCEPT ![a] = NoGuard]
  /\ Drop(futGuard[a])
  /\ UNCHANGED <<req, slotVars, cancelled, body, bodyGuard, tunnelVars, driverVars, took>>

\* The forwarded request is built and `send` is called; an upgrade has registered
\* with hyper for the client transport before that.
StartSending(a) ==
  /\ fut[a] = "checking"
  /\ req[a].kind # "rejected"
  /\ fut' = [fut EXCEPT ![a] = "sending"]
  /\ down' = IF req[a].kind = "upgrade" THEN [down EXCEPT ![a] = "hyper"] ELSE down
  /\ UNCHANGED <<req, slotVars, cancelled, futGuard, body, bodyGuard, tunnel, tunGuard,
                 drained, pollVars, up, driverVars, took, released>>

\* proxy_request_on_stream: the handshake is done, the driver spawned and its
\* ConnectionGuard created, with no await in between.
SpawnDriver(a) ==
  /\ fut[a] = "sending"
  /\ req[a].via = "stream"
  /\ driver[a] = "none"
  /\ driver' = [driver EXCEPT ![a] = "running"]
  /\ connGuard' = [connGuard EXCEPT ![a] = "future"]
  /\ UNCHANGED <<req, slotVars, cancelled, fut, futGuard, body, bodyGuard, tunnelVars,
                 took, released>>

\* The future ends without a response from upstream: the send future goes first,
\* with its ConnectionGuard and the registration for the client transport, then
\* the local guard.
FutureEnds(a) ==
  /\ fut' = [fut EXCEPT ![a] = "done"]
  /\ futGuard' = [futGuard EXCEPT ![a] = NoGuard]
  /\ Drop(futGuard[a])
  /\ down' = [down EXCEPT ![a] = "none"]
  /\ AbortDriver(a)
  /\ UNCHANGED <<req, slotVars, cancelled, body, bodyGuard, tunnel, tunGuard, drained,
                 pollVars, up, took>>

\* Connection failure, handshake failure or any other client error: 502.
SendFails(a) ==
  /\ fut[a] = "sending"
  /\ FutureEnds(a)

\* Upgrades always have a deadline, other requests only with an upstream_timeout: 504.
HasDeadline(a) == req[a].kind = "upgrade" \/ UpstreamTimeout

DeadlineExpires(a) ==
  /\ fut[a] = "sending"
  /\ HasDeadline(a)
  /\ FutureEnds(a)

\* The server drops the future (client gone).
DropFuture(a) ==
  /\ fut[a] = "sending"
  /\ FutureEnds(a)

\* Response headers can only arrive over a connection that is up.
Connected(a) == req[a].via = "stream" => driver[a] = "running"

\* retain: a known-empty body drops the resource at once, any other body carries it.
RetainNothing(a, kind) == UNCHANGED bodyGuard /\ Drop(futGuard[a])  \* faulty: not wrapped

Retain(a, kind) ==
  /\ bodyGuard' = [bodyGuard EXCEPT ![a] = IF kind = "empty" THEN NoGuard ELSE futGuard[a]]
  /\ IF kind = "empty" THEN Drop(futGuard[a]) ELSE UNCHANGED released

\* ConnectionBody takes the ConnectionGuard along.
DisarmConnection(a) == connGuard' = [connGuard EXCEPT ![a] = "none"]  \* faulty: as for a 101

KeepConnection(a) ==
  connGuard' = IF req[a].via = "stream" THEN [connGuard EXCEPT ![a] = "body"] ELSE connGuard

\* An ordinary response, or a rejected upgrade.
Respond(a, kind) ==
  /\ fut[a] = "sending"
  /\ Connected(a)
  /\ fut' = [fut EXCEPT ![a] = "done"]
  /\ futGuard' = [futGuard EXCEPT ![a] = NoGuard]
  /\ body' = [body EXCEPT ![a] = IF kind = "empty" THEN "ended" ELSE "streaming"]
  /\ Retain(a, kind)
  /\ KeepConnection(a)
  /\ down' = [down EXCEPT ![a] = "none"]
  /\ UNCHANGED <<req, slotVars, cancelled, tunnel, tunGuard, drained, pollVars, up, driver,
                 took>>

\* A 101 that nobody asked for or that fails validation becomes a 502.  The stream
\* path has already disarmed its ConnectionGuard, so hyper is left to finish the
\* handover to a receiver that is gone.
RespondInvalid101(a) ==
  /\ fut[a] = "sending"
  /\ Connected(a)
  /\ fut' = [fut EXCEPT ![a] = "done"]
  /\ futGuard' = [futGuard EXCEPT ![a] = NoGuard]
  /\ Drop(futGuard[a])
  /\ down' = [down EXCEPT ![a] = "none"]
  /\ up' = [up EXCEPT ![a] = "hyper"]
  /\ connGuard' = [connGuard EXCEPT ![a] = "none"]
  /\ UNCHANGED <<req, slotVars, cancelled, body, bodyGuard, tunnel, tunGuard, drained, pollVars,
                 driver, took>>

\* bridge(.., guard.take(), ..): the resource moves into the tunnel task, so that the
\* retain that follows finds nothing.
LendToTunnel(a) ==                                              \* faulty: guard not taken
  tunGuard' = [tunGuard EXCEPT ![a] = futGuard[a]] /\ Drop(futGuard[a])

GiveToTunnel(a) ==
  tunGuard' = [tunGuard EXCEPT ![a] = futGuard[a]] /\ UNCHANGED released

\* The stream path has disarmed its ConnectionGuard: the driver completes the upgrade.
GiveConnectionToTunnel(a) ==                                    \* faulty: bridge keeps it armed
  connGuard' = [connGuard EXCEPT ![a] = "tunnel"]

ReleaseConnection(a) == connGuard' = [connGuard EXCEPT ![a] = "none"]

\* A valid 101: bridge spawns the tunnel task with the resource, the response goes
\* out with an empty, unguarded body.
RespondValid101(a) ==
  /\ fut[a] = "sending"
  /\ req[a].kind = "upgrade"
  /\ Connected(a)
  /\ fut' = [fut EXCEPT ![a] = "done"]
  /\ futGuard' = [futGuard EXCEPT ![a] = NoGuard]
  /\ GiveToTunnel(a)
  /\ tunnel' = [tunnel EXCEPT ![a] = "waiting"]
  /\ body' = [body EXCEPT ![a] = "ended"]
  /\ up' = [up EXCEPT ![a] = "hyper"]
  /\ ReleaseConnection(a)
  /\ UNCHANGED <<req, slotVars, cancelled, bodyGuard, drained, pollVars, down, driver, took>>

--------------------------------------------------------------------------------
(* The response body *)

\* GuardedBody::poll_frame sees EOF, an error, or a final frame after which the
\* body is known to be at its end; the resource goes at once.
BodyFinishes(a) ==
  /\ body[a] = "streaming"
  /\ body' = [body EXCEPT ![a] = "ended"]
  /\ bodyGuard' = [bodyGuard EXCEPT ![a] = NoGuard]
  /\ Drop(bodyGuard[a])
  /\ UNCHANGED <<req, slotVars, cancelled, fut, futGuard, tunnelVars, driverVars, took>>

\* The server drops the body, read to its end or not.  For a 101 this does nothing.
DropBody(a) ==
  /\ body[a] \in {"streaming", "ended"}
  /\ body' = [body EXCEPT ![a] = "dropped"]
  /\ bodyGuard' = [bodyGuard EXCEPT ![a] = NoGuard]
  /\ Drop(bodyGuard[a])
  /\ AbortDriver(a)
  /\ UNCHANGED <<req, slotVars, cancelled, fut, futGuard, tunnelVars, took>>

--------------------------------------------------------------------------------
(* hyper's side of an upgrade, and the connection driver *)

\* hyper hands the client transport over once the 101 is written; a receiver that
\* is gone drops it on arrival.
HandOverDown(a) ==
  /\ down[a] = "hyper"
  /\ tunnel[a] # "none"
  /\ down' = [down EXCEPT ![a] = IF tunnel[a] = "waiting" THEN "tunnel" ELSE "closed"]
  /\ UNCHANGED <<req, slotVars, cancelled, fut, futGuard, body, bodyGuard, tunnel, tunGuard,
                 drained, pollVars, up, driverVars, took, released>>

\* hyper hands the upstream transport over; that is the end of a stream's driver.
HandOverUp(a) ==
  /\ up[a] = "hyper"
  /\ up' = [up EXCEPT ![a] = IF tunnel[a] = "waiting" THEN "tunnel" ELSE "closed"]
  /\ driver' = IF req[a].via = "stream" THEN [driver EXCEPT ![a] = "ended"] ELSE driver
  /\ UNCHANGED <<req, slotVars, cancelled, fut, futGuard, body, bodyGuard, tunnel, tunGuard,
                 drained, pollVars, down, connGuard, took, released>>

\* A connection fails before its handover; the receiver sees the upgrade cancelled.
HandOverDownFails(a) ==
  /\ down[a] = "hyper"
  /\ tunnel[a] # "none"
  /\ down' = [down EXCEPT ![a] = "closed"]
  /\ UNCHANGED <<req, slotVars, cancelled, fut, futGuard, body, bodyGuard, tunnel, tunGuard,
                 drained, pollVars, up, driverVars, took, released>>

HandOverUpFails(a) ==
  /\ up[a] = "hyper"
  /\ up' = [up EXCEPT ![a] = "closed"]
  /\ driver' = IF req[a].via = "stream" THEN [driver EXCEPT ![a] = "ended"] ELSE driver
  /\ UNCHANGED <<req, slotVars, cancelled, fut, futGuard, body, bodyGuard, tunnel, tunGuard,
                 drained, pollVars, down, connGuard, took, released>>

\* The single-request connection ends by itself, or the runtime drops an aborted
\* driver together with the stream.
DriverEnds(a) ==
  /\ \/ driver[a] = "running" /\ up[a] = "none"
     \/ driver[a] = "aborting"
  /\ driver' = [driver EXCEPT ![a] = "ended"]
  /\ UNCHANGED <<req, slotVars, cancelled, fut, futGuard, body, bodyGuard, tunnelVars,
                 connGuard, took, released>>

--------------------------------------------------------------------------------
(* The tunnel task *)

\* The tunnel future is dropped or complete: the transports it owns go with it.
KeepTransports(a) == UNCHANGED <<down, up>>                      \* faulty: outlive _guard

DropTransports(a) ==
  /\ down' = IF down[a] = "tunnel" THEN [down EXCEPT ![a] = "closed"] ELSE down
  /\ up' = IF up[a] = "tunnel" THEN [up EXCEPT ![a] = "closed"] ELSE up

CancelSeen(a) == req[a].cancel = "token" /\ cancelled

\* The poll under way, if there is one, is the tunnel's last or returns Pending.
PollEnds(a) ==
  /\ polling' = [polling EXCEPT ![a] = FALSE]
  /\ late' = IF polling[a] /\ CancelSeen(a) THEN [late EXCEPT ![a] = @ + 1] ELSE late

\* The tunnel is over; its task has yet to drop the resource.
TunnelStops(a) ==
  /\ tunnel' = [tunnel EXCEPT ![a] = "closing"]
  /\ DropTransports(a)
  /\ PollEnds(a)
  /\ UNCHANGED <<req, slotVars, cancelled, fut, futGuard, body, bodyGuard, tunGuard, drained,
                 driverVars, took, released>>

\* The biased select asks the token first, on every poll of the task, and polls the
\* tunnel only if it is unset.  Nothing keeps other threads from cancelling it after that.
AlwaysUnset(a) == TRUE                                          \* faulty: not biased

TokenUnset(a) == ~CancelSeen(a)

SelectPolls(a) ==
  /\ req[a].cancel = "token"
  /\ tunnel[a] \in {"waiting", "copying"}
  /\ ~polling[a]
  /\ TokenUnset(a)
  /\ polling' = [polling EXCEPT ![a] = TRUE]
  /\ UNCHANGED <<req, slotVars, cancelled, fut, futGuard, body, bodyGuard, tunnel, tunGuard,
                 drained, late, down, up, driverVars, took, released>>

\* The tunnel makes progress while it is polled.  Without a token the task awaits it
\* directly, and where one poll ends and the next begins makes no difference.
TunnelPolled(a) == req[a].cancel = "none" \/ polling[a]

\* Nothing (more) is ready, as far as this poll could see.
TunnelPending(a) ==
  /\ polling[a]
  /\ PollEnds(a)
  /\ UNCHANGED <<req, slotVars, cancelled, fut, futGuard, body, bodyGuard, tunnel, tunGuard,
                 drained, down, up, driverVars, took, released>>

\* The select observes the cancellation, while waiting for upgrades or while copying.
CancelledWhileCopying(a) ==                                     \* faulty: covers copying only
  tunnel[a] = "copying" /\ ~polling[a] /\ CancelSeen(a) /\ TunnelStops(a)

TunnelCancelled(a) ==
  /\ tunnel[a] \in {"waiting", "copying"}
  /\ ~polling[a]
  /\ CancelSeen(a)
  /\ TunnelStops(a)

\* The task is torn down from outside (runtime shutdown, unwinding).
TunnelUnwinds(a) ==
  /\ tunnel[a] \in {"waiting", "copying"}
  /\ TunnelStops(a)

\* try_join has both transports.
UpgradesJoin(a) ==
  /\ tunnel[a] = "waiting"
  /\ TunnelPolled(a)
  /\ down[a] = "tunnel"
  /\ up[a] = "tunnel"
  /\ tunnel' = [tunnel EXCEPT ![a] = "copying"]
  /\ UNCHANGED <<req, slotVars, cancelled, fut, futGuard, body, bodyGuard, tunGuard, drained,
                 pollVars, down, up, driverVars, took, released>>

\* try_join fails as soon as one handover fails.
UpgradeFails(a) ==
  /\ tunnel[a] = "waiting"
  /\ TunnelPolled(a)
  /\ "closed" \in {down[a], up[a]}
  /\ TunnelStops(a)

\* Five seconds pass first; timeout polls the join before the timer.
WaitForever(a) == FALSE /\ UNCHANGED vars                       \* faulty: no timeout

UpgradeTimesOut(a) ==
  /\ tunnel[a] = "waiting"
  /\ TunnelPolled(a)
  /\ "hyper" \in {down[a], up[a]}
  /\ TunnelStops(a)

\* One direction reaches EOF and shuts the opposite writer down; the tunnel is over
\* when the other direction has drained too.
DirectionDrains(a, d) ==
  /\ tunnel[a] = "copying"
  /\ TunnelPolled(a)
  /\ d \notin drained[a]
  /\ drained' = [drained EXCEPT ![a] = @ \cup {d}]
  /\ IF drained'[a] = Directions
     THEN tunnel' = [tunnel EXCEPT ![a] = "closing"] /\ DropTransports(a) /\ PollEnds(a)
     ELSE UNCHANGED <<tunnel, pollVars, down, up>>
  /\ UNCHANGED <<req, slotVars, cancelled, fut, futGuard, body, bodyGuard, tunGuard,
                 driverVars, took, released>>

CopyFails(a) ==
  /\ tunnel[a] = "copying"
  /\ TunnelPolled(a)
  /\ TunnelStops(a)

\* The task ends and `_guard`, declared first, is dropped last; the task's other state is
\* gone before.
TunnelReleases(a) ==
  /\ tunnel[a] = "closing"
  /\ tunnel' = [tunnel EXCEPT ![a] = "done"]
  /\ tunGuard' = [tunGuard EXCEPT ![a] = NoGuard]
  /\ drained' = [drained EXCEPT ![a] = {}]
  /\ late' = [late EXCEPT ![a] = 0]
  /\ Drop(tunGuard[a])
  /\ UNCHANGED <<req, slotVars, cancelled, fut, futGuard, body, bodyGuard, polling, down, up,
                 driverVars, took>>

--------------------------------------------------------------------------------
CallerNext == Cancel \/ \E g \in Guards : CallerDropsClone(g)

FutureNext(a) ==
  \/ DropRequest(a) \/ TakeGuard(a) \/ RejectEarly(a) \/ StartSending(a) \/ SpawnDriver(a)
  \/ SendFails(a) \/ DeadlineExpires(a) \/ DropFuture(a)
  \/ \E kind \in {"empty", "streaming"} : Respond(a, kind)
  \/ RespondInvalid101(a) \/ RespondValid101(a)

BodyNext(a) == BodyFinishes(a) \/ DropBody(a)

HyperNext(a) ==
  \/ HandOverDown(a) \/ HandOverUp(a) \/ HandOverDownFails(a) \/ HandOverUpFails(a)
  \/ DriverEnds(a)

TunnelNext(a) ==
  \/ SelectPolls(a) \/ TunnelPending(a) \/ TunnelCancelled(a) \/ TunnelUnwinds(a)
  \/ UpgradesJoin(a) \/ UpgradeFails(a) \/ UpgradeTimesOut(a) \/ CopyFails(a)
  \/ TunnelReleases(a)
  \/ \E d \in Directions : DirectionDrains(a, d)

Next ==
  \/ CallerNext
  \/ \E a \in Attempts : FutureNext(a) \/ BodyNext(a) \/ HyperNext(a) \/ TunnelNext(a)

Spec == Init /\ [][Next]_vars

\* The runtime polls tasks that are woken and fires timers, and a poll returns.  Nothing
\* is assumed of the peers: upstream may never answer, copying may never end, hyper may
\* never hand a transport over, the server may hold a body forever.  A tunnel that waits
\* for its transports is polled again and again at the latest when its timer has fired,
\* and then no poll finds it pending for good: hence the strong fairness.
RuntimeFairness ==
  \A a \in Attempts :
    /\ WF_vars(TakeGuard(a))
    /\ WF_vars(RejectEarly(a) \/ StartSending(a))
    /\ WF_vars(DeadlineExpires(a))
    /\ WF_vars(SelectPolls(a) \/ TunnelCancelled(a))
    /\ WF_vars(TunnelPending(a))
    /\ SF_vars(UpgradesJoin(a) \/ UpgradeFails(a) \/ UpgradeTimesOut(a))
    /\ WF_vars(TunnelReleases(a))
    /\ WF_vars(driver[a] = "aborting" /\ DriverEnds(a))

FairSpec == Spec /\ RuntimeFairness

--------------------------------------------------------------------------------
(* Safety *)

Holds(a, g) == g \in {futGuard[a], bodyGuard[a], tunGuard[a]}

\* The attempt is doing the work its resource covers: the request is in the hands of
\* forward_with, the response body is being streamed, or the tunnel is up.
Working(a) ==
  \/ fut[a] \in {"checking", "sending"}
  \/ body[a] = "streaming"
  \/ tunnel[a] \in {"waiting", "copying"}

\* A resource is released exactly when it has left its slot and no future, body or
\* tunnel holds it any more: never twice (guard.take() before retain), never lost.
ReleasedExactlyOnce ==
  \A g \in Guards :
    released[g] = IF g \in slot \/ \E a \in Attempts : Holds(a, g) THEN 0 ELSE 1

\* The clones of one TunnelGuard feed one attempt: TunnelGuard::take empties the slot
\* for every other clone, also when retries run concurrently with a late first attempt.
OneTaker ==
  \A a, b \in Attempts : took[a] = took[b] /\ took[a] # NoGuard => a = b

\* A permit covers the whole of the work it admitted: the resource an attempt took is
\* not released while the request, the response body or the tunnel is still alive.
WorkIsCovered ==
  \A a \in Attempts : Working(a) /\ took[a] # NoGuard => released[took[a]] = 0

\* bridge declares `_guard` before the tunnel future so that the resource is released
\* only after the transports it owned were dropped, on every way out of the task.
TransportsDropFirst ==
  \A a \in Attempts :
    took[a] # NoGuard /\ released[took[a]] > 0 => "tunnel" \notin {down[a], up[a]}

\* A driver that nobody can abort any more (its future and its body are gone) is one
\* whose connection was upgraded, so hyper's handover ends it.
NoOrphanDriver ==
  \A a \in Attempts :
    driver[a] = "running" /\ connGuard[a] = "none" => up[a] = "hyper"

\* "Cancellation wins when observed ready alongside progress": however the caller's cancel
\* falls between the polls of the token, of the handovers and of the copying, the tunnel
\* gets no more than the rest of the poll that was under way (bridge's biased select).
CancellationWins == \A a \in Attempts : late[a] <= 1

--------------------------------------------------------------------------------
(* The inductive invariant behind the safety properties *)

\* Where the resource of an attempt is, by the stage the attempt has reached.
Placement ==
  \A a \in Attempts :
    /\ futGuard[a] = IF fut[a] \in {"checking", "sending"} THEN took[a] ELSE NoGuard
    /\ bodyGuard[a] = IF body[a] = "streaming" THEN took[a] ELSE NoGuard
    /\ tunGuard[a] = IF tunnel[a] \in {"waiting", "copying", "closing"} THEN took[a] ELSE NoGuard
    /\ fut[a] \in {"new", "dropped"} => took[a] = NoGuard
    /\ fut[a] # "done" => body[a] = "none" /\ tunnel[a] = "none"
    /\ body[a] = "streaming" => tunnel[a] = "none"

\* Nobody has taken what is still in its slot.
SlotsIntact == \A g \in Guards : g \in slot => \A a \in Attempts : took[a] # g

\* Only a tunnel that is up owns transports; only stream requests have a driver.
TransportsHeld ==
  \A a \in Attempts :
    /\ "tunnel" \in {down[a], up[a]} => tunnel[a] \in {"waiting", "copying"}
    /\ driver[a] # "none" => req[a].via = "stream"

\* A poll begins before the cancellation, and the tunnel is then still up.
PollsPrecede ==
  \A a \in Attempts :
    /\ polling[a] => late[a] = 0 /\ tunnel[a] \in {"waiting", "copying"}
    /\ late[a] > 0 => CancelSeen(a)
    /\ late[a] <= 1

OwnershipInv ==
  /\ Placement
  /\ SlotsIntact
  /\ OneTaker
  /\ ReleasedExactlyOnce
  /\ TransportsHeld
  /\ NoOrphanDriver

--------------------------------------------------------------------------------
(* The abstract specification this one implements *)

LeaseOf(g) ==
  IF g \in slot THEN "offered" ELSE IF \E a \in Attempts : Holds(a, g) THEN "held" ELSE "released"

HolderOf(g) ==
  IF \E a \in Attempts : took[a] = g THEN CHOOSE a \in Attempts : took[a] = g ELSE NoGuard

StageOf(a) ==
  IF fut[a] \in {"new", "dropped"} THEN "idle" ELSE IF Working(a) THEN "working" ELSE "over"

Lease == INSTANCE ResourceLease WITH
  Nobody <- NoGuard,
  lease <- [g \in Guards |-> LeaseOf(g)],
  holder <- [g \in Guards |-> HolderOf(g)],
  stage <- [a \in Attempts |-> StageOf(a)]

\* Futures, bodies and tunnels together keep the promise of TunnelGuard: one taker,
\* one release, and only once the taker's work is over.
ImplementsLease == Lease!Spec

--------------------------------------------------------------------------------
(* Liveness *)

\* An upgrade request is decided even if upstream never answers: it always has a
\* deadline (websocket_connect_timeout), whatever the policy says.
UpgradeIsDecided ==
  \A a \in Attempts :
    fut[a] = "sending" /\ req[a].kind = "upgrade" ~> fut[a] = "done"

\* The five-second timer bounds the wait for the handovers even if hyper never hands
\* a transport over.
UpgradeWaitEnds == \A a \in Attempts : tunnel[a] = "waiting" ~> tunnel[a] # "waiting"

\* No stage of an upgrade waits forever for upstream or hyper (forward_with, bridge).
UpgradeEnds == UpgradeIsDecided /\ UpgradeWaitEnds

\* Shutdown: once the token is cancelled every tunnel that carries it releases its
\* resource, without any help from the peers or from hyper.
CancelReleases ==
  \A a \in Attempts :
    CancelSeen(a) /\ tunnel[a] # "none" ~> tunnel[a] = "done" /\ tunGuard[a] = NoGuard

\* Dropping the future or the body of a stream request stops its driver unless the
\* connection was upgraded: the abort reaches a driver that is stuck on its peer.
DroppedStreamStops ==
  \A a \in Attempts :
    fut[a] = "done" /\ body[a] \in {"none", "dropped"} /\ up[a] = "none"
      ~> driver[a] \in {"none", "ended"}
================================================================================
