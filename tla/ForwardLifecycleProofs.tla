------------------------ MODULE ForwardLifecycleProofs ------------------------
(***************************************************************************)
(* What ForwardLifecycle guarantees for any number of attempts and          *)
(* resources, and that it implements ResourceLease.                         *)
(***************************************************************************)
EXTENDS ForwardLifecycle, TLAPS

(* Every variable keeps its type: the first half of the induction. *)
LEMMA TypeStep == TypeOK /\ [Next]_vars => TypeOK'
<1> SUFFICES ASSUME TypeOK, [Next]_vars PROVE TypeOK'
  OBVIOUS
<1> USE NoGuardAssumption DEF TypeOK, Option, Requests, slotVars, tunnelVars, pollVars, driverVars
<1>0. CASE UNCHANGED vars
  BY <1>0 DEF vars
<1>1. CASE Cancel
  BY <1>1 DEF Cancel
<1>2. ASSUME NEW g \in Guards, CallerDropsClone(g) PROVE TypeOK'
  BY <1>2 DEF CallerDropsClone, DropClone, Drop
<1> SUFFICES ASSUME NEW a \in Attempts,
                    FutureNext(a) \/ BodyNext(a) \/ HyperNext(a) \/ TunnelNext(a)
             PROVE TypeOK'
  BY <1>0, <1>1, <1>2 DEF Next, CallerNext
<1>3. CASE DropRequest(a)
  <2>1. slot' \subseteq Guards /\ released' \in [Guards -> Nat]
    BY <1>3 DEF DropRequest, DropClone, Drop
  <2> QED
    BY <1>3, <2>1 DEF DropRequest
<1>4. CASE TakeGuard(a)
  BY <1>4 DEF TakeGuard, Take
<1>5. CASE RejectEarly(a)
  BY <1>5 DEF RejectEarly, Drop
<1>6. CASE StartSending(a)
  BY <1>6 DEF StartSending
<1>7. CASE SpawnDriver(a)
  BY <1>7 DEF SpawnDriver
<1>8. CASE FutureEnds(a)
  BY <1>8 DEF FutureEnds, Drop, AbortDriver
<1>9. ASSUME NEW kind \in {"empty", "streaming"}, Respond(a, kind) PROVE TypeOK'
  BY <1>9 DEF Respond, Retain, KeepConnection, Drop
<1>10. CASE RespondInvalid101(a)
  BY <1>10 DEF RespondInvalid101, Drop
<1>11. CASE RespondValid101(a)
  BY <1>11 DEF RespondValid101, GiveToTunnel, ReleaseConnection
<1>12. CASE BodyFinishes(a)
  BY <1>12 DEF BodyFinishes, Drop
<1>13. CASE DropBody(a)
  BY <1>13 DEF DropBody, Drop, AbortDriver
<1>14. CASE HandOverDown(a) \/ HandOverDownFails(a)
  BY <1>14 DEF HandOverDown, HandOverDownFails
<1>15. CASE HandOverUp(a) \/ HandOverUpFails(a)
  <2>1. driver' = [driver EXCEPT ![a] = "ended"] \/ driver' = driver
    BY <1>15 DEF HandOverUp, HandOverUpFails
  <2>2. up' = [up EXCEPT ![a] = "tunnel"] \/ up' = [up EXCEPT ![a] = "closed"]
    BY <1>15 DEF HandOverUp, HandOverUpFails
  <2>3. driver' \in [Attempts -> {"none", "running", "aborting", "ended"}]
    BY <2>1
  <2>4. up' \in [Attempts -> {"none", "hyper", "tunnel", "closed"}]
    BY <2>2
  <2> QED
    BY <1>15, <2>3, <2>4 DEF HandOverUp, HandOverUpFails
<1>16. CASE DriverEnds(a)
  BY <1>16 DEF DriverEnds
<1>P. ASSUME PollEnds(a)
      PROVE  late' \in [Attempts -> Nat] /\ polling' \in [Attempts -> BOOLEAN]
  BY <1>P DEF PollEnds
<1>D. ASSUME DropTransports(a)
      PROVE  /\ down' \in [Attempts -> {"none", "hyper", "tunnel", "closed"}]
             /\ up' \in [Attempts -> {"none", "hyper", "tunnel", "closed"}]
  BY <1>D DEF DropTransports
<1>17. CASE TunnelStops(a)
  BY <1>17, <1>P, <1>D DEF TunnelStops
<1>18. CASE UpgradesJoin(a)
  BY <1>18 DEF UpgradesJoin
<1>19. ASSUME NEW d \in Directions, DirectionDrains(a, d) PROVE TypeOK'
  <2>1. drained' \in [Attempts -> SUBSET Directions]
    BY <1>19 DEF DirectionDrains
  <2>2. CASE UNCHANGED <<tunnel, pollVars, down, up>>
    BY <1>19, <2>1, <2>2 DEF DirectionDrains
  <2>3. CASE tunnel' = [tunnel EXCEPT ![a] = "closing"] /\ DropTransports(a) /\ PollEnds(a)
    BY <1>19, <1>P, <1>D, <2>1, <2>3 DEF DirectionDrains
  <2> QED
    BY <1>19, <2>2, <2>3 DEF DirectionDrains
<1>20. CASE TunnelReleases(a)
  BY <1>20 DEF TunnelReleases, Drop
<1>21. CASE SelectPolls(a)
  BY <1>21 DEF SelectPolls
<1>22. CASE TunnelPending(a)
  BY <1>22, <1>P DEF TunnelPending
<1> QED
  BY <1>3, <1>4, <1>5, <1>6, <1>7, <1>8, <1>9, <1>10, <1>11, <1>12, <1>13, <1>14, <1>15,
     <1>16, <1>17, <1>18, <1>19, <1>20, <1>21, <1>22
  DEF FutureNext, BodyNext, HyperNext, TunnelNext, SendFails, DeadlineExpires, DropFuture,
      TunnelCancelled, TunnelUnwinds, UpgradeFails, UpgradeTimesOut, CopyFails

(* The three guard fields follow the stage of their attempt: the resource is in the
   future while it runs, then in the streaming body or in the tunnel, never in two. *)
LEMMA PlacementStep == TypeOK /\ Placement /\ [Next]_vars => Placement'
<1> SUFFICES ASSUME TypeOK, Placement, [Next]_vars PROVE Placement'
  OBVIOUS
<1> USE NoGuardAssumption DEF TypeOK, Option, slotVars, tunnelVars, pollVars, driverVars, Placement
<1>0. CASE UNCHANGED vars
  BY <1>0 DEF vars
<1>1. CASE Cancel
  BY <1>1 DEF Cancel
<1>2. ASSUME NEW g \in Guards, CallerDropsClone(g) PROVE Placement'
  BY <1>2 DEF CallerDropsClone, DropClone, Drop
<1> SUFFICES ASSUME NEW a \in Attempts,
                    FutureNext(a) \/ BodyNext(a) \/ HyperNext(a) \/ TunnelNext(a)
             PROVE Placement'
  BY <1>0, <1>1, <1>2 DEF Next, CallerNext
<1>3. CASE DropRequest(a)
  BY <1>3 DEF DropRequest, DropClone, Drop
<1>4. CASE TakeGuard(a)
  BY <1>4 DEF TakeGuard, Take
<1>5. CASE RejectEarly(a)
  BY <1>5 DEF RejectEarly, Drop
<1>6. CASE StartSending(a)
  BY <1>6 DEF StartSending
<1>7. CASE SpawnDriver(a)
  BY <1>7 DEF SpawnDriver
<1>8. CASE FutureEnds(a) /\ fut[a] = "sending"
  BY <1>8 DEF FutureEnds, Drop, AbortDriver
<1>9. ASSUME NEW kind \in {"empty", "streaming"}, Respond(a, kind) PROVE Placement'
  BY <1>9 DEF Respond, Retain, KeepConnection, Drop
<1>10. CASE RespondInvalid101(a)
  BY <1>10 DEF RespondInvalid101, Drop
<1>11. CASE RespondValid101(a)
  BY <1>11 DEF RespondValid101, GiveToTunnel, ReleaseConnection
<1>12. CASE BodyFinishes(a)
  BY <1>12 DEF BodyFinishes, Drop
<1>13. CASE DropBody(a)
  BY <1>13 DEF DropBody, Drop, AbortDriver
<1>14. CASE HandOverDown(a) \/ HandOverDownFails(a)
  BY <1>14 DEF HandOverDown, HandOverDownFails
<1>15. CASE HandOverUp(a) \/ HandOverUpFails(a)
  BY <1>15 DEF HandOverUp, HandOverUpFails
<1>16. CASE DriverEnds(a)
  BY <1>16 DEF DriverEnds
<1>17. CASE TunnelStops(a) /\ tunnel[a] \in {"waiting", "copying"}
  BY <1>17 DEF TunnelStops, DropTransports, PollEnds
<1>18. CASE UpgradesJoin(a)
  BY <1>18 DEF UpgradesJoin
<1>19. ASSUME NEW d \in Directions, DirectionDrains(a, d) PROVE Placement'
  BY <1>19 DEF DirectionDrains, DropTransports, PollEnds
<1>20. CASE TunnelReleases(a)
  BY <1>20 DEF TunnelReleases, Drop
<1>21. CASE SelectPolls(a) \/ TunnelPending(a)
  BY <1>21 DEF SelectPolls, TunnelPending, PollEnds
<1> QED
  BY <1>3, <1>4, <1>5, <1>6, <1>7, <1>8, <1>9, <1>10, <1>11, <1>12, <1>13, <1>14, <1>15,
     <1>16, <1>17, <1>18, <1>19, <1>20, <1>21
  DEF FutureNext, BodyNext, HyperNext, TunnelNext, SendFails, DeadlineExpires, DropFuture,
      TunnelCancelled, TunnelUnwinds, UpgradeFails, UpgradeTimesOut, CopyFails

(* Only taking a resource and dropping the last clone touch slots or takers. *)
LEMMA TakerStep == TypeOK /\ SlotsIntact /\ OneTaker /\ [Next]_vars => (SlotsIntact /\ OneTaker)'
<1> SUFFICES ASSUME TypeOK, SlotsIntact, OneTaker, [Next]_vars PROVE (SlotsIntact /\ OneTaker)'
  OBVIOUS
<1> USE NoGuardAssumption DEF TypeOK, Option, SlotsIntact, OneTaker
<1>1. ASSUME NEW g \in Guards, CallerDropsClone(g) PROVE (SlotsIntact /\ OneTaker)'
  BY <1>1 DEF CallerDropsClone, DropClone
<1>2. ASSUME NEW a \in Attempts, DropRequest(a) PROVE (SlotsIntact /\ OneTaker)'
  BY <1>2 DEF DropRequest, DropClone
<1>3. ASSUME NEW a \in Attempts, TakeGuard(a) PROVE (SlotsIntact /\ OneTaker)'
  BY <1>3 DEF TakeGuard, Take
<1>4. CASE UNCHANGED <<slot, took>>
  BY <1>4
<1>5. \/ \E g \in Guards : CallerDropsClone(g)
      \/ \E a \in Attempts : DropRequest(a) \/ TakeGuard(a)
      \/ UNCHANGED <<slot, took>>
  BY DEF Next, CallerNext, FutureNext, BodyNext, HyperNext, TunnelNext, Cancel, RejectEarly,
         StartSending, SpawnDriver, SendFails, DeadlineExpires, DropFuture, FutureEnds, Respond,
         RespondInvalid101, RespondValid101, BodyFinishes, DropBody, HandOverDown, HandOverUp,
         HandOverDownFails, HandOverUpFails, DriverEnds, SelectPolls, TunnelPending,
         TunnelCancelled, TunnelUnwinds, TunnelStops, UpgradesJoin, UpgradeFails, UpgradeTimesOut, DirectionDrains, CopyFails,
         TunnelReleases, slotVars, vars
<1> QED
  BY <1>1, <1>2, <1>3, <1>4, <1>5

(* Each step leaves every resource where it is, moves it, or drops it where it was. *)
LEMMA ReleaseStep ==
  TypeOK /\ Placement /\ SlotsIntact /\ OneTaker /\ ReleasedExactlyOnce /\ [Next]_vars
    => ReleasedExactlyOnce'
<1> SUFFICES ASSUME TypeOK, Placement, SlotsIntact, OneTaker, ReleasedExactlyOnce,
                    [Next]_vars
             PROVE ReleasedExactlyOnce'
  OBVIOUS
<1> USE NoGuardAssumption DEF TypeOK, Option, slotVars, tunnelVars, pollVars, driverVars,
           Placement, SlotsIntact, OneTaker, ReleasedExactlyOnce, Holds
<1>0. CASE UNCHANGED vars
  BY <1>0 DEF vars
<1>1. CASE Cancel
  BY <1>1 DEF Cancel
<1>2. ASSUME NEW g \in Guards, CallerDropsClone(g) PROVE ReleasedExactlyOnce'
  BY <1>2 DEF CallerDropsClone, DropClone, Drop
<1> SUFFICES ASSUME NEW a \in Attempts,
                    FutureNext(a) \/ BodyNext(a) \/ HyperNext(a) \/ TunnelNext(a)
             PROVE ReleasedExactlyOnce'
  BY <1>0, <1>1, <1>2 DEF Next, CallerNext
<1>3. CASE DropRequest(a)
  BY <1>3 DEF DropRequest, DropClone, Drop
<1>4. CASE TakeGuard(a)
  BY <1>4 DEF TakeGuard, Take
<1>5. CASE RejectEarly(a)
  BY <1>5 DEF RejectEarly, Drop
<1>6. CASE StartSending(a)
  BY <1>6 DEF StartSending
<1>7. CASE SpawnDriver(a)
  BY <1>7 DEF SpawnDriver
<1>8. CASE FutureEnds(a) /\ fut[a] = "sending"
  BY <1>8 DEF FutureEnds, Drop, AbortDriver
<1>9. ASSUME NEW kind \in {"empty", "streaming"}, Respond(a, kind) PROVE ReleasedExactlyOnce'
  BY <1>9 DEF Respond, Retain, KeepConnection, Drop
<1>10. CASE RespondInvalid101(a)
  BY <1>10 DEF RespondInvalid101, Drop
<1>11. CASE RespondValid101(a)
  BY <1>11 DEF RespondValid101, GiveToTunnel, ReleaseConnection
<1>12. CASE BodyFinishes(a)
  BY <1>12 DEF BodyFinishes, Drop
<1>13. CASE DropBody(a)
  BY <1>13 DEF DropBody, Drop, AbortDriver
<1>14. CASE HandOverDown(a) \/ HandOverDownFails(a)
  BY <1>14 DEF HandOverDown, HandOverDownFails
<1>15. CASE HandOverUp(a) \/ HandOverUpFails(a)
  BY <1>15 DEF HandOverUp, HandOverUpFails
<1>16. CASE DriverEnds(a)
  BY <1>16 DEF DriverEnds
<1>17. CASE TunnelStops(a) /\ tunnel[a] \in {"waiting", "copying"}
  BY <1>17 DEF TunnelStops, DropTransports, PollEnds
<1>18. CASE UpgradesJoin(a)
  BY <1>18 DEF UpgradesJoin
<1>19. ASSUME NEW d \in Directions, DirectionDrains(a, d) PROVE ReleasedExactlyOnce'
  BY <1>19 DEF DirectionDrains, DropTransports, PollEnds
<1>20. CASE TunnelReleases(a)
  BY <1>20 DEF TunnelReleases, Drop
<1>21. CASE SelectPolls(a) \/ TunnelPending(a)
  BY <1>21 DEF SelectPolls, TunnelPending, PollEnds
<1> QED
  BY <1>3, <1>4, <1>5, <1>6, <1>7, <1>8, <1>9, <1>10, <1>11, <1>12, <1>13, <1>14, <1>15,
     <1>16, <1>17, <1>18, <1>19, <1>20, <1>21
  DEF FutureNext, BodyNext, HyperNext, TunnelNext, SendFails, DeadlineExpires, DropFuture,
      TunnelCancelled, TunnelUnwinds, UpgradeFails, UpgradeTimesOut, CopyFails

(* Transports are owned by tunnels that are up, and an unguarded driver is upgrading. *)
LEMMA TransportStep ==
  TypeOK /\ Placement /\ TransportsHeld /\ NoOrphanDriver /\ [Next]_vars
    => (TransportsHeld /\ NoOrphanDriver)'
<1> SUFFICES ASSUME TypeOK, Placement, TransportsHeld, NoOrphanDriver, [Next]_vars
             PROVE (TransportsHeld /\ NoOrphanDriver)'
  OBVIOUS
<1> USE NoGuardAssumption DEF TypeOK, Option, slotVars, tunnelVars, pollVars, driverVars,
           Placement, TransportsHeld, NoOrphanDriver
<1>0. CASE UNCHANGED vars
  BY <1>0 DEF vars
<1>1. CASE Cancel
  BY <1>1 DEF Cancel
<1>2. ASSUME NEW g \in Guards, CallerDropsClone(g) PROVE (TransportsHeld /\ NoOrphanDriver)'
  BY <1>2 DEF CallerDropsClone, DropClone, Drop
<1> SUFFICES ASSUME NEW a \in Attempts,
                    FutureNext(a) \/ BodyNext(a) \/ HyperNext(a) \/ TunnelNext(a)
             PROVE (TransportsHeld /\ NoOrphanDriver)'
  BY <1>0, <1>1, <1>2 DEF Next, CallerNext
<1>3. CASE DropRequest(a)
  BY <1>3 DEF DropRequest, DropClone, Drop
<1>4. CASE TakeGuard(a)
  BY <1>4 DEF TakeGuard, Take
<1>5. CASE RejectEarly(a)
  BY <1>5 DEF RejectEarly, Drop
<1>6. CASE StartSending(a)
  BY <1>6 DEF StartSending
<1>7. CASE SpawnDriver(a)
  BY <1>7 DEF SpawnDriver
<1>8. CASE FutureEnds(a) /\ fut[a] = "sending"
  BY <1>8 DEF FutureEnds, Drop, AbortDriver
<1>9. ASSUME NEW kind \in {"empty", "streaming"}, Respond(a, kind)
      PROVE  (TransportsHeld /\ NoOrphanDriver)'
  BY <1>9 DEF Respond, Retain, KeepConnection, Drop
<1>10. CASE RespondInvalid101(a)
  BY <1>10 DEF RespondInvalid101, Drop
<1>11. CASE RespondValid101(a)
  BY <1>11 DEF RespondValid101, GiveToTunnel, ReleaseConnection
<1>12. CASE BodyFinishes(a)
  BY <1>12 DEF BodyFinishes, Drop
<1>13. CASE DropBody(a)
  BY <1>13 DEF DropBody, Drop, AbortDriver
<1>14. CASE HandOverDown(a) \/ HandOverDownFails(a)
  BY <1>14 DEF HandOverDown, HandOverDownFails
<1>15. CASE HandOverUp(a) \/ HandOverUpFails(a)
  BY <1>15 DEF HandOverUp, HandOverUpFails
<1>16. CASE DriverEnds(a)
  BY <1>16 DEF DriverEnds
<1>17. CASE TunnelStops(a) /\ tunnel[a] \in {"waiting", "copying"}
  BY <1>17 DEF TunnelStops, DropTransports, PollEnds
<1>18. CASE UpgradesJoin(a)
  BY <1>18 DEF UpgradesJoin
<1>19. ASSUME NEW d \in Directions, DirectionDrains(a, d) PROVE (TransportsHeld /\ NoOrphanDriver)'
  BY <1>19 DEF DirectionDrains, DropTransports, PollEnds
<1>20. CASE TunnelReleases(a)
  BY <1>20 DEF TunnelReleases, Drop
<1>21. CASE SelectPolls(a) \/ TunnelPending(a)
  BY <1>21 DEF SelectPolls, TunnelPending, PollEnds
<1> QED
  BY <1>3, <1>4, <1>5, <1>6, <1>7, <1>8, <1>9, <1>10, <1>11, <1>12, <1>13, <1>14, <1>15,
     <1>16, <1>17, <1>18, <1>19, <1>20, <1>21
  DEF FutureNext, BodyNext, HyperNext, TunnelNext, SendFails, DeadlineExpires, DropFuture,
      TunnelCancelled, TunnelUnwinds, UpgradeFails, UpgradeTimesOut, CopyFails

(* A poll that the cancellation overtakes began before it, while the token was unset: the
   next one finds the token set and does not touch the tunnel. *)
LEMMA PollStep == TypeOK /\ PollsPrecede /\ [Next]_vars => PollsPrecede'
<1> SUFFICES ASSUME TypeOK, PollsPrecede, [Next]_vars PROVE PollsPrecede'
  OBVIOUS
<1> USE DEF TypeOK, PollsPrecede, CancelSeen
<1>1. CASE Cancel
  BY <1>1 DEF Cancel, tunnelVars, pollVars
<1>2. CASE UNCHANGED <<req, cancelled, tunnel, polling, late>>
  BY <1>2
<1> SUFFICES ASSUME NEW a \in Attempts, UNCHANGED <<req, cancelled>>,
                    \/ RespondValid101(a) \/ TunnelStops(a) \/ SelectPolls(a)
                    \/ TunnelPending(a) \/ UpgradesJoin(a) \/ TunnelReleases(a)
                    \/ \E d \in Directions : DirectionDrains(a, d)
             PROVE  PollsPrecede'
  BY <1>1, <1>2
  DEF Next, CallerNext, CallerDropsClone, FutureNext, BodyNext, HyperNext, TunnelNext,
      DropRequest, TakeGuard, RejectEarly, StartSending, SpawnDriver, SendFails, DeadlineExpires,
      DropFuture, FutureEnds, Respond, RespondInvalid101, RespondValid101, BodyFinishes, DropBody,
      HandOverDown, HandOverUp, HandOverDownFails, HandOverUpFails, DriverEnds, TunnelCancelled,
      TunnelUnwinds, TunnelStops, SelectPolls, TunnelPending, UpgradesJoin, UpgradeFails,
      UpgradeTimesOut, DirectionDrains, CopyFails, TunnelReleases, tunnelVars, pollVars, vars
<1>3. CASE RespondValid101(a)
  BY <1>3 DEF RespondValid101, GiveToTunnel, pollVars
<1>4. CASE TunnelStops(a)
  BY <1>4 DEF TunnelStops, PollEnds
<1>5. CASE SelectPolls(a)
  BY <1>5 DEF SelectPolls, TokenUnset
<1>6. CASE TunnelPending(a)
  BY <1>6 DEF TunnelPending, PollEnds
<1>7. CASE UpgradesJoin(a)
  BY <1>7 DEF UpgradesJoin, pollVars
<1>8. CASE TunnelReleases(a)
  BY <1>8 DEF TunnelReleases
<1>9. ASSUME NEW d \in Directions, DirectionDrains(a, d) PROVE PollsPrecede'
  BY <1>9 DEF DirectionDrains, PollEnds, pollVars
<1> QED
  BY <1>3, <1>4, <1>5, <1>6, <1>7, <1>8, <1>9

--------------------------------------------------------------------------------
(* The theorems *)

(* Type correctness: every variable of the forwarding model keeps its type. *)
THEOREM TypeCorrect == Spec => []TypeOK
<1>1. Init => TypeOK
  <2> SUFFICES ASSUME Init PROVE TypeOK
    OBVIOUS
  <2>1. drained \in [Attempts -> SUBSET Directions]
    BY DEF Init
  <2>2. released \in [Guards -> Nat]
    BY DEF Init
  <2> QED
    BY <2>1, <2>2 DEF Init, TypeOK, Option
<1> QED
  BY <1>1, TypeStep, PTL DEF Spec

(* The ownership invariant is inductive: it holds initially and every step of a future,
   a body, a tunnel, hyper or the caller preserves it. *)
THEOREM OwnershipInvariant == Spec => []OwnershipInv
<1>1. Init => OwnershipInv
  BY NoGuardAssumption
  DEF Init, OwnershipInv, Placement, SlotsIntact, OneTaker, ReleasedExactlyOnce, Holds,
      TransportsHeld, NoOrphanDriver
<1>2. TypeOK /\ OwnershipInv /\ [Next]_vars => OwnershipInv'
  BY PlacementStep, TakerStep, ReleaseStep, TransportStep DEF OwnershipInv
<1> QED
  BY <1>1, <1>2, TypeCorrect, PTL DEF Spec

(* A TunnelGuard's resource is released exactly once: never by two owners, and never
   left behind when its future, body or tunnel is gone. *)
THEOREM ReleaseTheorem == Spec => []ReleasedExactlyOnce
<1>1. OwnershipInv => ReleasedExactlyOnce
  BY DEF OwnershipInv
<1> QED
  BY <1>1, OwnershipInvariant, PTL

(* The clones of a TunnelGuard feed at most one forwarding attempt. *)
THEOREM OneTakerTheorem == Spec => []OneTaker
<1>1. OwnershipInv => OneTaker
  BY DEF OwnershipInv
<1> QED
  BY <1>1, OwnershipInvariant, PTL

(* The resource an attempt took outlives its work: forward_with, the streaming body and
   the tunnel are covered to their end. *)
THEOREM CoverageTheorem == Spec => []WorkIsCovered
<1>1. TypeOK /\ OwnershipInv => WorkIsCovered
  BY NoGuardAssumption
  DEF OwnershipInv, WorkIsCovered, Working, Placement, ReleasedExactlyOnce, Holds, TypeOK, Option
<1> QED
  BY <1>1, TypeCorrect, OwnershipInvariant, PTL

(* bridge releases the resource only after the transports it owned are gone. *)
THEOREM TeardownTheorem == Spec => []TransportsDropFirst
<1>1. TypeOK /\ OwnershipInv => TransportsDropFirst
  BY NoGuardAssumption
  DEF OwnershipInv, TransportsDropFirst, TransportsHeld, Placement, ReleasedExactlyOnce, Holds,
      TypeOK, Option
<1> QED
  BY <1>1, TypeCorrect, OwnershipInvariant, PTL

(* proxy_request_on_stream leaves no driver behind that nobody can stop, except one whose
   connection hyper is about to hand over. *)
THEOREM DriverTheorem == Spec => []NoOrphanDriver
<1>1. OwnershipInv => NoOrphanDriver
  BY DEF OwnershipInv
<1> QED
  BY <1>1, OwnershipInvariant, PTL

(* However the caller's cancel falls between the polls of the select, a tunnel gets no more
   than the rest of one poll after it. *)
THEOREM CancellationTheorem == Spec => []CancellationWins
<1>1. Init => PollsPrecede
  <2> SUFFICES ASSUME Init, NEW a \in Attempts
               PROVE  ~polling[a] /\ ~(late[a] > 0) /\ late[a] <= 1
    BY Zenon DEF PollsPrecede
  <2>1. ~polling[a]
    BY Zenon DEF Init
  <2>2. late[a] = 0
    BY DEF Init
  <2> QED
    BY <2>1, <2>2
<1>2. TypeOK /\ PollsPrecede /\ [Next]_vars => PollsPrecede'
  BY PollStep
<1>3. TypeOK /\ PollsPrecede => CancellationWins
  BY DEF PollsPrecede, CancellationWins
<1> QED
  BY <1>1, <1>2, <1>3, TypeCorrect, PTL DEF Spec

--------------------------------------------------------------------------------
(* ForwardLifecycle implements ResourceLease: every step of a future, a body, a tunnel,
   hyper or the caller is a step of the lease or leaves it alone. *)

(* The attempt that took a resource is its holder. *)
LEMMA HolderIsTaker ==
  ASSUME OneTaker, NEW a \in Attempts, NEW g \in Guards, took[a] = g
  PROVE  HolderOf(g) = a
<1>1. \A b \in Attempts : took[b] = g => b = a
  BY NoGuardAssumption DEF OneTaker
<1>2. (CHOOSE b \in Attempts : took[b] = g) = a
  BY <1>1
<1> QED
  BY <1>2 DEF HolderOf

(* A step that moves no resource into or out of a slot, takes none and starts or ends
   no work leaves the lease as it is. *)
LEMMA LeaseStutters ==
  ASSUME \A g \in Guards : LeaseOf(g)' = LeaseOf(g),
         \A a \in Attempts : StageOf(a)' = StageOf(a),
         took' = took
  PROVE  UNCHANGED Lease!vars
<1>1. \A g \in Guards : HolderOf(g)' = HolderOf(g)
  BY DEF HolderOf
<1> QED
  BY <1>1 DEF Lease!vars

(* A step in which attempt a ends its work, and drops what it took if it took anything. *)
LEMMA LeaseFinishes ==
  ASSUME TypeOK, OwnershipInv, NEW a \in Attempts,
         StageOf(a) = "working", StageOf(a)' = "over",
         \A b \in Attempts \ {a} : StageOf(b)' = StageOf(b),
         \A g \in Guards : LeaseOf(g)' = IF g = took[a] THEN "released" ELSE LeaseOf(g),
         took[a] # NoGuard => LeaseOf(took[a]) = "held",
         took' = took
  PROVE  Lease!Next
<1>1. \A g \in Guards : HolderOf(g)' = HolderOf(g)
  BY DEF HolderOf
<1>2. CASE took[a] = NoGuard
  <2>1. \A g \in Guards : LeaseOf(g)' = LeaseOf(g)
    BY <1>2, NoGuardAssumption
  <2>2. Lease!Finish(a)
    BY <1>1, <2>1 DEF Lease!Finish
  <2> QED
    BY <2>2 DEF Lease!Next
<1>3. CASE took[a] # NoGuard
  <2>1. took[a] \in Guards /\ HolderOf(took[a]) = a
    BY <1>3, HolderIsTaker, NoGuardAssumption DEF OwnershipInv, TypeOK, Option
  <2>2. Lease!FinishAndRelease(a, took[a])
    BY <1>1, <1>3, <2>1 DEF Lease!FinishAndRelease
  <2> QED
    BY <2>1, <2>2 DEF Lease!Next
<1> QED
  BY <1>2, <1>3

(* The same in terms of who holds what. *)
LEMMA HolderFinishes ==
  ASSUME TypeOK, OwnershipInv, NEW a \in Attempts,
         StageOf(a) = "working", StageOf(a)' = "over",
         \A b \in Attempts \ {a} : StageOf(b)' = StageOf(b),
         \A b \in Attempts, g \in Guards : Holds(b, g)' <=> Holds(b, g) /\ b # a,
         \A g \in Guards : Holds(a, g) <=> g = took[a],
         UNCHANGED <<slot, took>>
  PROVE  Lease!Next
<1> USE NoGuardAssumption
<1>1. \A b \in Attempts \ {a}, g \in Guards : Holds(b, g) => g # took[a]
  BY DEF Holds, OwnershipInv, Placement, OneTaker, TypeOK
<1>2. \A g \in Guards : g = took[a] => g \notin slot
  BY DEF OwnershipInv, SlotsIntact
<1>3. \A g \in Guards : LeaseOf(g)' = IF g = took[a] THEN "released" ELSE LeaseOf(g)
  BY <1>1, <1>2 DEF LeaseOf
<1>4. took[a] # NoGuard => LeaseOf(took[a]) = "held"
  BY <1>2 DEF LeaseOf, TypeOK, Option
<1> QED
  BY <1>3, <1>4, LeaseFinishes

(* A future that ends its work itself: it drops its guard, and the response, if there is
   one, has nothing to stream. *)
LEMMA FutureFinishes ==
  ASSUME TypeOK, OwnershipInv, NEW a \in Attempts,
         fut[a] \in {"checking", "sending"},
         fut' = [fut EXCEPT ![a] = "done"],
         futGuard' = [futGuard EXCEPT ![a] = NoGuard],
         body'[a] \in {"none", "ended"},
         \A b \in Attempts \ {a} : body'[b] = body[b],
         UNCHANGED <<slot, bodyGuard, tunnel, tunGuard, took>>
  PROVE  Lease!Next
<1> USE NoGuardAssumption
<1>1. StageOf(a) = "working" /\ StageOf(a)' = "over"
  BY DEF StageOf, Working, OwnershipInv, Placement, TypeOK
<1>2. \A b \in Attempts \ {a} : StageOf(b)' = StageOf(b)
  BY DEF StageOf, Working, TypeOK
<1>3. \A b \in Attempts, g \in Guards : Holds(b, g)' <=> Holds(b, g) /\ b # a
  BY DEF Holds, OwnershipInv, Placement, TypeOK
<1>4. \A g \in Guards : Holds(a, g) <=> g = took[a]
  BY DEF Holds, OwnershipInv, Placement, TypeOK
<1> QED
  BY <1>1, <1>2, <1>3, <1>4, HolderFinishes

(* A resource that leaves its slot with its last clone is abandoned. *)
LEMMA LeaseAbandons ==
  ASSUME TypeOK, OwnershipInv, NEW g \in Option, DropClone(g),
         UNCHANGED <<futGuard, bodyGuard, tunGuard, took>>,
         \A a \in Attempts : StageOf(a)' = StageOf(a)
  PROVE  [Lease!Next]_Lease!vars
<1>1. CASE UNCHANGED slot
  <2>1. \A h \in Guards : LeaseOf(h)' = LeaseOf(h)
    BY <1>1 DEF LeaseOf, Holds
  <2> QED
    BY <2>1, LeaseStutters
<1>2. CASE ~UNCHANGED slot
  <2>1. g \in slot /\ slot' = slot \ {g} /\ g \in Guards
    BY <1>2 DEF DropClone, TypeOK
  <2>2. \A a \in Attempts : ~Holds(a, g)
    BY <2>1, NoGuardAssumption DEF OwnershipInv, SlotsIntact, Placement, Holds, TypeOK
  <2>3. \A h \in Guards : HolderOf(h)' = HolderOf(h)
    BY DEF HolderOf
  <2>4. \A h \in Guards : LeaseOf(h)' = IF h = g THEN "released" ELSE LeaseOf(h)
    BY <2>1, <2>2 DEF LeaseOf, Holds
  <2>5. LeaseOf(g) = "offered"
    BY <2>1 DEF LeaseOf
  <2>6. Lease!Abandon(g)
    BY <2>1, <2>3, <2>4, <2>5 DEF Lease!Abandon
  <2> QED
    BY <2>1, <2>6 DEF Lease!Next
<1> QED
  BY <1>1, <1>2

(* Every step of ForwardLifecycle is a step of the lease or leaves it alone. *)
LEMMA LeaseStep ==
  TypeOK /\ OwnershipInv /\ [Next]_vars => [Lease!Next]_Lease!vars
<1> SUFFICES ASSUME TypeOK, OwnershipInv, [Next]_vars PROVE [Lease!Next]_Lease!vars
  OBVIOUS
<1> USE NoGuardAssumption DEF slotVars, tunnelVars, pollVars, driverVars
<1>0. CASE UNCHANGED vars
  BY <1>0, LeaseStutters DEF vars, LeaseOf, StageOf, Holds, Working
<1>1. CASE Cancel
  BY <1>1, LeaseStutters DEF Cancel, LeaseOf, StageOf, Holds, Working
<1>2. ASSUME NEW g \in Guards, CallerDropsClone(g) PROVE [Lease!Next]_Lease!vars
  BY <1>2, LeaseAbandons DEF CallerDropsClone, StageOf, Working, Option
<1> SUFFICES ASSUME NEW a \in Attempts,
                    FutureNext(a) \/ BodyNext(a) \/ HyperNext(a) \/ TunnelNext(a)
             PROVE [Lease!Next]_Lease!vars
  BY <1>0, <1>1, <1>2 DEF Next, CallerNext
<1>3. CASE DropRequest(a)
  <2>1. \A b \in Attempts : StageOf(b)' = StageOf(b)
    BY <1>3 DEF DropRequest, StageOf, Working, TypeOK
  <2> QED
    BY <1>3, <2>1, LeaseAbandons DEF DropRequest, TypeOK
<1>4. CASE TakeGuard(a)
  <2>1. /\ StageOf(a) = "idle" /\ StageOf(a)' = "working"
        /\ \A b \in Attempts \ {a} : StageOf(b)' = StageOf(b)
    BY <1>4 DEF TakeGuard, StageOf, Working, TypeOK
  <2>2. CASE ext[a] \in slot
    <3>1. PICK h \in Guards : h = ext[a]
      BY <2>2 DEF TypeOK
    <3>2. LeaseOf(h) = "offered"
      BY <2>2, <3>1 DEF LeaseOf
    <3>3. took' = [took EXCEPT ![a] = h] /\ took[a] = NoGuard
      BY <1>4, <2>2, <3>1 DEF TakeGuard, Take, OwnershipInv, Placement, TypeOK
    <3>4. \A g \in Guards : LeaseOf(g)' = IF g = h THEN "held" ELSE LeaseOf(g)
      BY <1>4, <2>2, <3>1 DEF TakeGuard, Take, LeaseOf, Holds, OwnershipInv, Placement, TypeOK
    <3>5. HolderOf(h)' = a
      <4>1. \A b \in Attempts : took'[b] = h <=> b = a
        BY <2>2, <3>1, <3>3 DEF OwnershipInv, SlotsIntact, TypeOK
      <4>2. (CHOOSE b \in Attempts : took'[b] = h) = a
        BY <4>1
      <4> QED
        BY <4>1, <4>2 DEF HolderOf
    <3>6. ASSUME NEW g \in Guards \ {h} PROVE HolderOf(g)' = HolderOf(g)
      <4>1. \A b \in Attempts : took'[b] = g <=> took[b] = g
        BY <3>3 DEF TypeOK
      <4>2. (CHOOSE b \in Attempts : took'[b] = g) = (CHOOSE b \in Attempts : took[b] = g)
        BY <4>1
      <4> QED
        BY <4>1, <4>2 DEF HolderOf
    <3>7. Lease!Claim(a, h)
      BY <2>1, <3>2, <3>4, <3>5, <3>6 DEF Lease!Claim
    <3> QED
      BY <3>7 DEF Lease!Next
  <2>3. CASE ext[a] \notin slot
    <3>1. took' = took /\ futGuard' = futGuard /\ slot' = slot
      BY <1>4, <2>3 DEF TakeGuard, Take, OwnershipInv, Placement, TypeOK
    <3>2. \A g \in Guards : LeaseOf(g)' = LeaseOf(g) /\ HolderOf(g)' = HolderOf(g)
      BY <1>4, <3>1 DEF TakeGuard, LeaseOf, Holds, HolderOf
    <3>3. Lease!BeginBare(a)
      BY <2>1, <3>2 DEF Lease!BeginBare
    <3> QED
      BY <3>3 DEF Lease!Next
  <2> QED
    BY <2>2, <2>3
<1>5. CASE RejectEarly(a)
  BY <1>5, FutureFinishes DEF RejectEarly, OwnershipInv, Placement
<1>6. CASE StartSending(a)
  BY <1>6, LeaseStutters DEF StartSending, LeaseOf, StageOf, Holds, Working, TypeOK
<1>7. CASE SpawnDriver(a)
  BY <1>7, LeaseStutters DEF SpawnDriver, LeaseOf, StageOf, Holds, Working
<1>8. CASE FutureEnds(a) /\ fut[a] = "sending"
  BY <1>8, FutureFinishes DEF FutureEnds, OwnershipInv, Placement
<1>9. CASE Respond(a, "empty") \/ RespondInvalid101(a)
  BY <1>9, FutureFinishes DEF Respond, Retain, RespondInvalid101, OwnershipInv, Placement, TypeOK
<1>10. CASE Respond(a, "streaming")
  BY <1>10, LeaseStutters
  DEF Respond, Retain, LeaseOf, StageOf, Holds, Working, OwnershipInv, Placement, TypeOK
<1>11. CASE RespondValid101(a)
  BY <1>11, LeaseStutters
  DEF RespondValid101, GiveToTunnel, LeaseOf, StageOf, Holds, Working, OwnershipInv, Placement,
      TypeOK
<1>12. CASE (BodyFinishes(a) \/ DropBody(a)) /\ body[a] = "streaming"
  <2>1. /\ body' = [body EXCEPT ![a] = "ended"] \/ body' = [body EXCEPT ![a] = "dropped"]
        /\ bodyGuard' = [bodyGuard EXCEPT ![a] = NoGuard]
        /\ UNCHANGED <<slot, fut, futGuard, tunnel, tunGuard, took>>
    BY <1>12 DEF BodyFinishes, DropBody
  <2>2. StageOf(a) = "working" /\ StageOf(a)' = "over"
    BY <1>12, <2>1 DEF StageOf, Working, OwnershipInv, Placement, TypeOK
  <2>3. \A b \in Attempts \ {a} : StageOf(b)' = StageOf(b)
    BY <2>1 DEF StageOf, Working, TypeOK
  <2>4. \A b \in Attempts, g \in Guards : Holds(b, g)' <=> Holds(b, g) /\ b # a
    BY <1>12, <2>1 DEF Holds, OwnershipInv, Placement, TypeOK
  <2>5. \A g \in Guards : Holds(a, g) <=> g = took[a]
    BY <1>12 DEF Holds, OwnershipInv, Placement, TypeOK
  <2> QED
    BY <2>1, <2>2, <2>3, <2>4, <2>5, HolderFinishes
<1>13. CASE DropBody(a) /\ body[a] # "streaming"
  BY <1>13, LeaseStutters
  DEF DropBody, LeaseOf, StageOf, Holds, Working, OwnershipInv, Placement, TypeOK
<1>14. CASE HandOverDown(a) \/ HandOverDownFails(a) \/ HandOverUp(a) \/ HandOverUpFails(a)
            \/ DriverEnds(a)
  BY <1>14, LeaseStutters
  DEF HandOverDown, HandOverDownFails, HandOverUp, HandOverUpFails, DriverEnds, LeaseOf, StageOf,
      Holds, Working
<1>15. CASE UpgradesJoin(a)
  BY <1>15, LeaseStutters DEF UpgradesJoin, LeaseOf, StageOf, Holds, Working, TypeOK
<1>20. CASE SelectPolls(a) \/ TunnelPending(a)
  BY <1>20, LeaseStutters DEF SelectPolls, TunnelPending, LeaseOf, StageOf, Holds, Working
<1>16. CASE /\ tunnel[a] \in {"waiting", "copying"} /\ tunnel' = [tunnel EXCEPT ![a] = "closing"]
            /\ UNCHANGED <<slot, fut, futGuard, body, bodyGuard, tunGuard, took>>
  <2>1. StageOf(a) = "working" /\ StageOf(a)' = "over"
    BY <1>16 DEF StageOf, Working, OwnershipInv, Placement, TypeOK
  <2>2. \A b \in Attempts \ {a} : StageOf(b)' = StageOf(b)
    BY <1>16 DEF StageOf, Working, TypeOK
  <2>3. \A g \in Guards : LeaseOf(g)' = LeaseOf(g) /\ HolderOf(g)' = HolderOf(g)
    BY <1>16 DEF LeaseOf, Holds, HolderOf
  <2>4. Lease!Finish(a)
    BY <2>1, <2>2, <2>3 DEF Lease!Finish
  <2> QED
    BY <2>4 DEF Lease!Next
<1>17. ASSUME NEW d \in Directions, DirectionDrains(a, d) PROVE [Lease!Next]_Lease!vars
  <2>1. CASE UNCHANGED tunnel
    BY <1>17, <2>1, LeaseStutters DEF DirectionDrains, LeaseOf, StageOf, Holds, Working
  <2>2. CASE tunnel' = [tunnel EXCEPT ![a] = "closing"]
    BY <1>16, <1>17, <2>2 DEF DirectionDrains
  <2> QED
    BY <1>17, <2>1, <2>2 DEF DirectionDrains
<1>18. CASE TunnelReleases(a)
  <2>1. \A b \in Attempts : StageOf(b)' = StageOf(b)
    BY <1>18 DEF TunnelReleases, StageOf, Working, TypeOK
  <2>2. \A g \in Guards : LeaseOf(g)' = IF g = took[a] THEN "released" ELSE LeaseOf(g)
    BY <1>18 DEF TunnelReleases, LeaseOf, Holds, OwnershipInv, Placement, SlotsIntact, OneTaker,
                 TypeOK, Option
  <2>3. CASE took[a] = NoGuard
    BY <1>18, <2>1, <2>2, <2>3, LeaseStutters DEF TunnelReleases
  <2>4. CASE took[a] # NoGuard
    <3>1. took[a] \in Guards /\ HolderOf(took[a]) = a
      BY <2>4, HolderIsTaker DEF OwnershipInv, TypeOK, Option
    <3>2. LeaseOf(took[a]) = "held" /\ StageOf(a) = "over"
      BY <1>18, <3>1 DEF TunnelReleases, LeaseOf, StageOf, Working, Holds, OwnershipInv, Placement,
                         SlotsIntact, TypeOK
    <3>3. \A g \in Guards : HolderOf(g)' = HolderOf(g)
      BY <1>18 DEF TunnelReleases, HolderOf
    <3>4. Lease!Release(took[a])
      BY <2>1, <2>2, <3>1, <3>2, <3>3 DEF Lease!Release
    <3> QED
      BY <3>1, <3>4 DEF Lease!Next
  <2> QED
    BY <2>3, <2>4
<1>19. CASE TunnelStops(a) /\ tunnel[a] \in {"waiting", "copying"}
  BY <1>16, <1>19 DEF TunnelStops
<1> QED
  BY <1>3, <1>4, <1>5, <1>6, <1>7, <1>8, <1>9, <1>10, <1>11, <1>12, <1>13, <1>14, <1>15, <1>17,
     <1>18, <1>19, <1>20
  DEF FutureNext, BodyNext, HyperNext, TunnelNext, SendFails, DeadlineExpires, DropFuture,
      BodyFinishes, TunnelCancelled, TunnelUnwinds, UpgradeFails, UpgradeTimesOut, CopyFails

(* The futures, bodies and tunnels of the proxy implement the lease that TunnelGuard's
   documentation describes. *)
THEOREM LeaseTheorem == Spec => ImplementsLease
<1>1. Init => Lease!Init
  BY NoGuardAssumption
  DEF Init, Lease!Init, LeaseOf, HolderOf, StageOf
<1> QED
  BY <1>1, LeaseStep, TypeCorrect, OwnershipInvariant, PTL DEF Spec, Lease!Spec, ImplementsLease
================================================================================
