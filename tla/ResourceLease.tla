----------------------------- MODULE ResourceLease -----------------------------
(***************************************************************************)
(* What TunnelGuard promises its user (src/src/lifecycle.rs:12-38), without *)
(* futures, bodies, tunnels or transports: a resource is offered to         *)
(* forwarding attempts, at most one attempt takes it, and it is released    *)
(* once, when the work of the attempt that took it is over or when nobody   *)
(* can take it any more.  ForwardLifecycle implements this specification.   *)
(***************************************************************************)
CONSTANTS
  Attempts,   \* forwarding attempts
  Guards,     \* the resources, one per TunnelGuard::new
  Nobody      \* "no attempt"

VARIABLES
  lease,      \* lease[g]: "offered", "held" or "released"
  holder,     \* holder[g]: the attempt that took g, or Nobody
  stage       \* stage[a]: "idle", "working" or "over"

vars == <<lease, holder, stage>>

Init ==
  /\ lease = [g \in Guards |-> "offered"]
  /\ holder = [g \in Guards |-> Nobody]
  /\ stage = [a \in Attempts |-> "idle"]

\* An attempt starts work and takes the resource it was given.
Claim(a, g) ==
  /\ stage[a] = "idle"
  /\ lease[g] = "offered"
  /\ stage' = [stage EXCEPT ![a] = "working"]
  /\ lease' = [lease EXCEPT ![g] = "held"]
  /\ holder' = [holder EXCEPT ![g] = a]

\* An attempt starts work without a resource: it had none, or lost the race for it.
BeginBare(a) ==
  /\ stage[a] = "idle"
  /\ stage' = [stage EXCEPT ![a] = "working"]
  /\ UNCHANGED <<lease, holder>>

\* The work of an attempt ends; whatever it holds stays held for now.
Finish(a) ==
  /\ stage[a] = "working"
  /\ stage' = [stage EXCEPT ![a] = "over"]
  /\ UNCHANGED <<lease, holder>>

\* The work of an attempt ends and its resource is released in the same step.
FinishAndRelease(a, g) ==
  /\ stage[a] = "working"
  /\ lease[g] = "held"
  /\ holder[g] = a
  /\ stage' = [stage EXCEPT ![a] = "over"]
  /\ lease' = [lease EXCEPT ![g] = "released"]
  /\ UNCHANGED holder

\* A resource whose attempt is over is released.
Release(g) ==
  /\ lease[g] = "held"
  /\ holder[g] \in Attempts
  /\ stage[holder[g]] = "over"
  /\ lease' = [lease EXCEPT ![g] = "released"]
  /\ UNCHANGED <<holder, stage>>

\* Nobody can take the resource any more.
Abandon(g) ==
  /\ lease[g] = "offered"
  /\ lease' = [lease EXCEPT ![g] = "released"]
  /\ UNCHANGED <<holder, stage>>

Next ==
  \/ \E a \in Attempts : BeginBare(a) \/ Finish(a)
  \/ \E a \in Attempts, g \in Guards : Claim(a, g) \/ FinishAndRelease(a, g)
  \/ \E g \in Guards : Release(g) \/ Abandon(g)

Spec == Init /\ [][Next]_vars
================================================================================
