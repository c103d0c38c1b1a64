----------------------------- MODULE RoutingProofs -----------------------------
(***************************************************************************)
(* What Routing guarantees for any mounts, policies and requests: bodies,   *)
(* balancing, the headers that report where a request came from, and the    *)
(* URIs it is forwarded to.  The last rest on what UpstreamUri's string     *)
(* operations do to the segments of a path, for paths of any length.        *)
(***************************************************************************)
EXTENDS Routing, SequenceLemmas

--------------------------------------------------------------------------------
(* Balancing *)

\* Neighbouring counts use different upstreams.
LEMMA NextDiffers ==
  ASSUME NEW n \in Nat \ {0}, NEW a \in Nat, NEW b \in Nat, a < b, b - a < n
  PROVE  NextProxy(a, n) # NextProxy(b, n)
<1> DEFINE p == a \div n
           q == b \div n
<1>1. /\ p \in Nat /\ q \in Nat
      /\ a = n * p + (a % n) /\ b = n * q + (b % n)
      /\ a % n \in 0..(n - 1) /\ b % n \in 0..(n - 1)
  OBVIOUS
<1> SUFFICES ASSUME a % n = b % n PROVE FALSE
  BY <1>1 DEF NextProxy
<1> HIDE DEF p, q
<1>2. b - a = n * q - n * p
  BY <1>1
<1>3. CASE q <= p
  <2>1. n * q <= n * p
    BY <1>1, <1>3
  <2> QED
    BY <1>1, <1>2, <2>1
<1>4. CASE q >= p + 1
  <2>1. n * q >= n * (p + 1) /\ n * (p + 1) = n * p + n
    BY <1>1, <1>4
  <2> QED
    BY <1>1, <1>2, <2>1
<1> QED
  BY <1>1, <1>3, <1>4

Picks == [count : Nat, target : Nat]

\* The counter never runs ahead of the selections, nor one selection of another.
PicksInv ==
  /\ counter \in [Balanced -> 0..(CounterMod - 1)]
  /\ picks \in [Balanced -> Seq(Picks)]
  /\ \A s \in Balanced :
       /\ \A i \in DOMAIN picks[s] :
            /\ picks[s][i].target = NextProxy(picks[s][i].count, Len(Servers[s].targets))
            /\ picks[s][i].target \in DOMAIN Servers[s].targets
            /\ counter[s] <= picks[s][i].count + (Len(picks[s]) + 1 - i)
       /\ \A i, j \in DOMAIN picks[s] :
            i < j => picks[s][j].count <= picks[s][i].count + (j - i)

\* A selection, by the request at hand or by another one.
LEMMA SelectStep ==
  ASSUME PicksInv, NEW s \in Balanced, Servers[s].targets # <<>>, Select(s)
  PROVE  PicksInv'
<1> DEFINE n == Len(Servers[s].targets)
           c == counter[s]
           old == picks[s]
           pick == [count |-> c, target |-> NextProxy(c, n)]
           new == Append(old, pick)
<1>1. n \in Nat \ {0} /\ DOMAIN Servers[s].targets = 1..n
  <2>1. Servers[s].targets \in Seq([server : STRING, path : Seq(STRING), query : STRING])
    BY ServersAssumption DEF Balanced
  <2> QED
    BY <2>1
<1>2. c \in Nat /\ (c + 1) % CounterMod \in 0..(CounterMod - 1) /\ (c + 1) % CounterMod <= c + 1
  <2>1. c \in 0..(CounterMod - 1)
    BY DEF PicksInv
  <2> HIDE DEF c
  <2>2. c \in Nat
    BY <2>1, CounterAssumption
  <2> QED
    BY <2>2, CounterAssumption
<1>3. NextProxy(c, n) \in 1..n /\ pick \in Picks
  BY <1>1, <1>2 DEF NextProxy, Picks
<1>4. counter' = [counter EXCEPT ![s] = (c + 1) % CounterMod] /\ picks' = [picks EXCEPT ![s] = new]
  BY DEF Select
<1>5. /\ counter' \in [Balanced -> 0..(CounterMod - 1)]
      /\ counter'[s] = (c + 1) % CounterMod /\ picks'[s] = new
      /\ \A t \in Balanced \ {s} : counter'[t] = counter[t] /\ picks'[t] = picks[t]
  BY <1>2, <1>4 DEF PicksInv
<1>6. /\ old \in Seq(Picks)
      /\ new \in Seq(Picks)
      /\ Len(old) \in Nat
      /\ Len(new) = Len(old) + 1
      /\ DOMAIN new = 1..(Len(old) + 1)
      /\ DOMAIN old = 1..Len(old)
      /\ new[Len(old) + 1] = pick
      /\ \A i \in 1..Len(old) : new[i] = old[i] /\ old[i].count \in Nat
  <2> DEFINE P == Picks
  <2>1. old \in Seq(P) /\ pick \in P
    BY <1>3 DEF PicksInv
  <2>2. \A p \in P : p.count \in Nat
    BY DEF Picks
  <2> HIDE DEF P, old, pick
  <2> QED
    BY <2>1, <2>2 DEF P
<1>7. picks' \in [Balanced -> Seq(Picks)]
  BY <1>4, <1>6 DEF PicksInv
<1>8. \A i \in 1..Len(old) :
        /\ old[i].target = NextProxy(old[i].count, n)
        /\ old[i].target \in DOMAIN Servers[s].targets
        /\ c <= old[i].count + (Len(old) + 1 - i)
  BY <1>6 DEF PicksInv
<1>9. \A i, j \in 1..Len(old) : i < j => old[j].count <= old[i].count + (j - i)
  BY <1>6 DEF PicksInv
<1>10. pick.count = c /\ pick.target = NextProxy(c, n)
  OBVIOUS
<1> HIDE DEF new, old, pick, c, n
<1>11. ASSUME NEW i \in DOMAIN new
       PROVE  /\ new[i].target = NextProxy(new[i].count, n)
              /\ new[i].target \in DOMAIN Servers[s].targets
              /\ (c + 1) % CounterMod <= new[i].count + (Len(new) + 1 - i)
  <2>1. CASE i = Len(old) + 1
    <3>1. Len(new) + 1 - i = 1 /\ new[i].count = c
      BY <1>6, <1>10, <2>1
    <3>2. new[i].target = NextProxy(new[i].count, n) /\ new[i].target \in DOMAIN Servers[s].targets
      BY <1>1, <1>3, <1>6, <1>10, <2>1
    <3>3. (c + 1) % CounterMod <= new[i].count + (Len(new) + 1 - i)
      BY <1>2, <3>1
    <3> QED
      BY <3>2, <3>3
  <2>2. CASE i \in 1..Len(old)
    <3>1. Len(new) + 1 - i = (Len(old) + 1 - i) + 1 /\ new[i] = old[i]
      BY <1>6, <2>2
    <3>2. c + 1 <= new[i].count + ((Len(old) + 1 - i) + 1)
      BY <1>2, <1>6, <1>8, <2>2, <3>1
    <3>3. new[i].target = NextProxy(new[i].count, n) /\ new[i].target \in DOMAIN Servers[s].targets
      BY <1>6, <1>8, <2>2, <3>1
    <3>4. (c + 1) % CounterMod <= new[i].count + (Len(new) + 1 - i)
      <4> DEFINE wrapped == (c + 1) % CounterMod
      <4>1. wrapped \in Nat /\ wrapped <= c + 1
        <5>1. wrapped \in 0..(CounterMod - 1) /\ CounterMod \in Nat
          BY <1>2, CounterAssumption
        <5> QED
          BY <1>2, <5>1
      <4>2. new[i].count \in Nat /\ i \in Nat
        BY <1>6, <2>2, <3>1
      <4> HIDE DEF wrapped
      <4> QED
        BY <1>2, <1>6, <3>1, <3>2, <4>1, <4>2
    <3> QED
      BY <3>3, <3>4
  <2> QED
    BY <1>6, <2>1, <2>2
<1>12. ASSUME NEW i \in DOMAIN new, NEW j \in DOMAIN new, i < j
       PROVE  new[j].count <= new[i].count + (j - i)
  <2>1. i \in 1..Len(old) /\ new[i] = old[i]
    BY <1>6, <1>12
  <2>2. CASE j = Len(old) + 1
    BY <1>6, <1>8, <1>10, <2>1, <2>2
  <2>3. CASE j \in 1..Len(old)
    BY <1>6, <1>9, <1>12, <2>1, <2>3
  <2> QED
    BY <1>6, <2>2, <2>3
<1>13. ASSUME NEW t \in Balanced
       PROVE  /\ \A i \in DOMAIN picks'[t] :
                   /\ picks'[t][i].target = NextProxy(picks'[t][i].count, Len(Servers[t].targets))
                   /\ picks'[t][i].target \in DOMAIN Servers[t].targets
                   /\ counter'[t] <= picks'[t][i].count + (Len(picks'[t]) + 1 - i)
              /\ \A i, j \in DOMAIN picks'[t] :
                   i < j => picks'[t][j].count <= picks'[t][i].count + (j - i)
  <2>1. CASE t = s
    BY <1>5, <1>11, <1>12, <2>1 DEF n
  <2>2. CASE t # s
    <3>1. picks'[t] = picks[t] /\ counter'[t] = counter[t]
      BY <1>5, <2>2
    <3> QED
      BY <3>1 DEF PicksInv
  <2> QED
    BY <2>1, <2>2
<1> QED
  BY <1>5, <1>7, <1>13 DEF PicksInv

\* The selections of consecutive requests are consecutive, so neighbours differ.
LEMMA PicksSpread == PicksInv => SpreadEvenly
<1> SUFFICES ASSUME PicksInv, NEW s \in Balanced,
                    NEW i \in DOMAIN picks[s], NEW j \in DOMAIN picks[s],
                    i < j, j - i < Len(Servers[s].targets),
                    picks[s][i].count < picks[s][j].count
             PROVE  picks[s][i].target # picks[s][j].target
  BY DEF SpreadEvenly
<1> DEFINE n == Len(Servers[s].targets)
           a == picks[s][i].count
           b == picks[s][j].count
<1>1. picks[s] \in Seq(Picks) /\ i \in Nat /\ j \in Nat
  BY DEF PicksInv
<1>2. a \in Nat /\ b \in Nat
  <2>1. picks[s][i] \in Picks /\ picks[s][j] \in Picks
    BY <1>1
  <2> QED
    BY <2>1 DEF Picks
<1>3. n \in Nat
  <2>1. Servers[s].targets \in Seq([server : STRING, path : Seq(STRING), query : STRING])
    BY ServersAssumption DEF Balanced
  <2> QED
    BY <2>1
<1>4. picks[s][i].target = NextProxy(a, n) /\ picks[s][j].target = NextProxy(b, n)
  BY DEF PicksInv
<1>5. b <= a + (j - i)
  BY DEF PicksInv
<1>6. a < b /\ j - i < n /\ i < j
  OBVIOUS
<1> HIDE DEF n, a, b
<1>7. n \in Nat \ {0} /\ b - a < n
  BY <1>1, <1>2, <1>3, <1>5, <1>6
<1> QED
  BY <1>2, <1>4, <1>6, <1>7, NextDiffers

--------------------------------------------------------------------------------
(* The inductive invariant *)

\* The provers do not find that a string literal is in STRING.
Names == STRING \cup {NoValue, "client"}

Elements == [for : Names, host : Names, proto : Names]

\* The scenario, which no step changes.
ScenarioInv ==
  /\ client \in RequestRecords
  /\ policy \in [DOMAIN Servers -> PolicyRecords]

\* The hops, which begin and end where the request was and is.
TrailInv ==
  /\ trail \in Seq(Range(trail))
  /\ \A i \in DOMAIN trail : trail[i].server \in DOMAIN Servers
  /\ trail # <<>> => at = trail[Len(trail)].target.server

\* The request is the client's until a hop rewrites it; then it names no header to drop
\* any more, and has a host.
RequestInv ==
  /\ DOMAIN req = DOMAIN client
  /\ req.size = client.size /\ req.declared = client.declared
  /\ {req.host, req.authority, req.xfh} \subseteq Names
  /\ req.xff \in Seq(Names)
  /\ req.fwd \in Seq(Elements)
  /\ trail = <<>> => req = client
  /\ trail # <<>> => req.nominated = {} /\ req.host # NoValue

OwnXff == Survives(client, "x-forwarded-for", client.xff, <<>>)

OwnFwd == Survives(client, "forwarded", client.fwd, <<>>)

Peers == [k \in DOMAIN Reporting |-> Neighbour(Reporting[k])]

Streams == [passed : Nat, state : {"open", "ended", "failed"}]

\* A body of declared length is under way only where all of it is within the caps.
FlowInv ==
  /\ flow \in Seq(Streams)
  /\ \A i \in DOMAIN flow : flow[i].passed <= client.size
  /\ Len(flow) = Len(trail)
  /\ client.declared =>
       \A i \in DOMAIN trail : ~OverCap(client.size, policy[trail[i].server].cap)
  /\ BodyWithinCaps

\* What the hops have added to the forwarding headers.
ReportedInv ==
  trail # <<>> =>
    /\ req.xff = OwnXff \o Peers
    /\ Len(req.fwd) = Len(OwnFwd) + Len(Reporting)
    /\ \A i \in 1..Len(OwnFwd) : req.fwd[i] = OwnFwd[i]
    /\ \A k \in 1..Len(Reporting) :
         /\ req.fwd[Len(OwnFwd) + k].for = Neighbour(Reporting[k])
         /\ req.fwd[Len(OwnFwd) + k].host =
              IF Len(OwnFwd) + k = 1 THEN ClientHost(trail[Reporting[1]].in) ELSE NoValue
         /\ req.fwd[Len(OwnFwd) + k].proto =
              IF Len(OwnFwd) + k = 1 THEN policy[trail[Reporting[1]].server].scheme ELSE NoValue

IInv ==
  /\ ScenarioInv /\ TrailInv /\ RequestInv /\ PicksInv
  /\ status \in {0, 200, 404, 413, 500, 502, 503}
  /\ FlowInv
  /\ ReportedInv
  /\ OriginalHostReported
  /\ ProtoIsFirst
  /\ HostFollowsPolicy

\* A request that has just arrived.
LEMMA InitInv == Init => IInv
<1> SUFFICES ASSUME Init PROVE IInv
  OBVIOUS
<1>1. ScenarioInv
  BY ScenariosAssumption DEF Init, ScenarioInv
<1>2. TrailInv
  <2>1. trail = <<>>
    BY DEF Init
  <2> QED
    BY <2>1 DEF TrailInv
<1>3. RequestInv
  <2>1. req = client /\ trail = <<>>
    BY DEF Init
  <2>2. /\ {client.host, client.authority, client.xfh} \subseteq STRING
        /\ client.xff \in Seq(STRING)
        /\ client.fwd \in Seq([for : STRING, host : STRING, proto : STRING])
    BY <1>1 DEF ScenarioInv, RequestRecords
  <2>3. client.xff \in Seq(Names)
    BY <2>2 DEF Names
  <2>4. client.fwd \in Seq(Elements)
    <3> DEFINE R == [for : STRING, host : STRING, proto : STRING]
               E == Elements
    <3>1. \A e \in R : e \in E
      BY DEF Names, Elements
    <3>2. client.fwd \in Seq(R)
      BY <2>2
    <3> HIDE DEF R, E
    <3>3. client.fwd \in Seq(E)
      BY <3>1, <3>2
    <3> QED
      BY <3>3 DEF E
  <2>5. {client.host, client.authority, client.xfh} \subseteq Names
    BY <2>2 DEF Names
  <2> QED
    BY <2>1, <2>3, <2>4, <2>5 DEF RequestInv
<1>4. PicksInv
  <2>1. counter = [s \in Balanced |-> 0] /\ picks = [s \in Balanced |-> <<>>]
    BY DEF Init
  <2>2. 0 \in 0..(CounterMod - 1)
    BY CounterAssumption
  <2>3. \A s \in Balanced : picks[s] = <<>>
    BY <2>1
  <2>4. picks \in [Balanced -> Seq(Picks)]
    BY <2>1
  <2> QED
    BY <2>1, <2>2, <2>3, <2>4 DEF PicksInv
<1>5. status = 0 /\ trail = <<>> /\ flow = <<>>
  BY DEF Init
<1>6. FlowInv
  BY <1>5 DEF FlowInv, BodyWithinCaps
<1> QED
  BY <1>1, <1>2, <1>3, <1>4, <1>5, <1>6
  DEF IInv, ReportedInv, OriginalHostReported, ProtoIsFirst, HostFollowsPolicy

--------------------------------------------------------------------------------
(* Steps that leave the request where it is *)

Stays == UNCHANGED <<policy, client, at, req, trail>>

\* What is said of the request and of the hops behind it stays true.
LEMMA RequestStays ==
  ASSUME IInv, Stays
  PROVE  /\ ScenarioInv' /\ TrailInv' /\ RequestInv' /\ ReportedInv'
         /\ OriginalHostReported' /\ ProtoIsFirst' /\ HostFollowsPolicy'
<1> USE DEF Stays
<1>1. ScenarioInv' /\ TrailInv' /\ RequestInv'
  BY DEF IInv, ScenarioInv, TrailInv, RequestInv
<1>2. OriginalHostReported' /\ ProtoIsFirst' /\ HostFollowsPolicy'
  BY DEF IInv, OriginalHostReported, ProtoIsFirst, HostFollowsPolicy
<1>3. ReportedInv'
  <2>1. Reporting' = Reporting /\ OwnXff' = OwnXff /\ OwnFwd' = OwnFwd
    BY DEF Reporting, Reports, OwnXff, OwnFwd
  <2>2. \A i : Neighbour(i)' = Neighbour(i)
    BY DEF Neighbour
  <2>3. Peers' = Peers
    BY <2>1, <2>2 DEF Peers
  <2> QED
    BY <2>1, <2>2, <2>3 DEF IInv, ReportedInv
<1> QED
  BY <1>1, <1>2, <1>3

\* An answer, or a selection for another request, changes neither the request nor its body.
LEMMA AnswerStep ==
  ASSUME IInv, Stays, flow' = flow,
         status' \in {0, 200, 404, 413, 500, 502, 503},
         status' = 413 =>
           status = 413 \/ (req.declared /\ OverCap(req.size, policy[at].cap)),
         status' = 502 => status = 502 \/ \E i \in DOMAIN flow : flow[i].state = "failed",
         PicksInv'
  PROVE  IInv'
<1> DEFINE Exceeds(s) == OverCap(client.size, policy[s].cap)
<1>1. FlowInv
  BY DEF IInv
<1>2. BodyWithinCaps
  BY <1>1 DEF FlowInv
<1>3. status' = 413 => client.declared /\ Exceeds(at)
  <2>1. req.size = client.size /\ req.declared = client.declared
    BY DEF IInv, RequestInv
  <2> QED
    BY <1>2, <2>1 DEF BodyWithinCaps
<1>4. status' = 502 => \E i \in DOMAIN trail : Exceeds(trail[i].server)
  <2>1. ASSUME NEW i \in DOMAIN flow, flow[i].state = "failed"
        PROVE  \E j \in DOMAIN trail : Exceeds(trail[j].server)
    <3>1. PICK j \in 1..i : Exceeds(trail[j].server)
      BY <1>2, <2>1 DEF BodyWithinCaps
    <3>2. DOMAIN flow = 1..Len(flow) /\ Len(flow) \in Nat /\ Len(flow) = Len(trail)
      BY <1>1 DEF FlowInv
    <3>3. DOMAIN trail = 1..Len(trail)
      <4>1. trail \in Seq(Range(trail))
        BY DEF IInv, TrailInv
      <4> QED
        BY <4>1
    <3>4. j \in DOMAIN trail
      BY <3>2, <3>3
    <3> QED
      BY <3>1, <3>4
  <2> QED
    BY <1>2, <2>1 DEF BodyWithinCaps
<1> HIDE DEF Exceeds
<1>5. FlowInv'
  <2>1. policy' = policy /\ client' = client /\ at' = at /\ trail' = trail /\ flow' = flow
    BY DEF Stays
  <2> QED
    BY <1>1, <1>2, <1>3, <1>4, <2>1 DEF FlowInv, BodyWithinCaps, Exceeds
<1> QED
  BY <1>5, RequestStays DEF IInv

\* OtherRequest leaves the answer open as well.
LEMMA StayingSteps ==
  ASSUME IInv,
         \/ Unmatched \/ NoUpstream \/ BadTarget \/ TooLarge \/ Arrive \/ BodyFails
         \/ \E s \in Balanced : OtherRequest(s)
         \/ UNCHANGED vars
  PROVE  IInv'
<1>0. PicksInv
  BY DEF IInv
<1>1. CASE Unmatched \/ NoUpstream \/ BadTarget \/ Arrive \/ BodyFails
  <2>1. /\ Stays /\ flow' = flow /\ status' \in {404, 503, 500, 200, 502}
        /\ status' = 502 => \E i \in DOMAIN flow : flow[i].state = "failed"
        /\ UNCHANGED <<counter, picks>>
    BY <1>1 DEF Unmatched, NoUpstream, BadTarget, Arrive, BodyFails, Answer, Stays
  <2>2. PicksInv'
    BY <1>0, <2>1 DEF PicksInv
  <2> QED
    BY <2>1, <2>2, AnswerStep
<1>2. CASE TooLarge
  <2>1. /\ Stays /\ flow' = flow /\ status' = 413
        /\ req.declared /\ OverCap(req.size, policy[at].cap)
        /\ SelectIfBalanced /\ Mount.targets # <<>>
    BY <1>2 DEF TooLarge, DeclaredTooLarge, Ready, Answer, Stays
  <2>2. PicksInv'
    <3>1. CASE at \in Balanced
      BY <1>0, <2>1, <3>1, SelectStep DEF SelectIfBalanced, Mount
    <3>2. CASE at \notin Balanced
      BY <1>0, <2>1, <3>2 DEF SelectIfBalanced, PicksInv
    <3> QED
      BY <3>1, <3>2
  <2> QED
    BY <2>1, <2>2, AnswerStep
<1>3. ASSUME NEW s \in Balanced, OtherRequest(s) PROVE IInv'
  <2>1. Stays /\ flow' = flow /\ status' = status /\ Servers[s].targets # <<>> /\ Select(s)
    BY <1>3 DEF OtherRequest, Stays
  <2>2. PicksInv'
    BY <1>0, <2>1, SelectStep
  <2>3. status \in {0, 200, 404, 413, 500, 502, 503}
    BY DEF IInv
  <2> QED
    BY <2>1, <2>2, <2>3, AnswerStep
<1>4. CASE UNCHANGED vars
  <2>1. Stays /\ flow' = flow /\ status' = status /\ UNCHANGED <<counter, picks>>
    BY <1>4 DEF vars, Stays
  <2>2. PicksInv'
    BY <1>0, <2>1 DEF PicksInv
  <2>3. status \in {0, 200, 404, 413, 500, 502, 503}
    BY DEF IInv
  <2> QED
    BY <2>1, <2>2, <2>3, AnswerStep
<1> QED
  BY <1>1, <1>2, <1>3, <1>4

--------------------------------------------------------------------------------
(* The body *)

\* What is over a cap is no less so when there is more of it.
LEMMA MoreIsOver ==
  ASSUME NEW a \in Nat, NEW b \in Nat, a <= b, NEW cap \in SUBSET Nat, OverCap(a, cap)
  PROVE  OverCap(b, cap)
<1>1. PICK max \in cap : a > max
  BY DEF OverCap
<1> QED
  BY <1>1 DEF OverCap

\* A stream may change within the caps, end when it is complete, and fail over a cap.
LEMMA StreamChanges ==
  ASSUME IInv, NEW i \in DOMAIN flow, NEW stream \in Streams, StreamStep(i, stream),
         stream.passed <= client.size,
         \A j \in 1..i : ~OverCap(stream.passed, policy[trail[j].server].cap),
         stream.state = "ended" => stream.passed = client.size,
         stream.state = "failed" =>
           ~client.declared /\ \E j \in 1..i : OverCap(client.size, policy[trail[j].server].cap)
  PROVE  IInv'
<1>1. Stays /\ status' = status /\ UNCHANGED <<counter, picks>>
  BY DEF StreamStep, Stays
<1>2. FlowInv /\ BodyWithinCaps /\ PicksInv /\ status \in {0, 200, 404, 413, 500, 502, 503}
  BY DEF IInv, FlowInv
<1>3. /\ flow' \in Seq(Streams) /\ Len(flow') = Len(flow) /\ DOMAIN flow' = DOMAIN flow
      /\ flow'[i] = stream /\ \A k \in DOMAIN flow \ {i} : flow'[k] = flow[k]
  BY <1>2 DEF FlowInv, StreamStep
<1>4. ASSUME NEW k \in DOMAIN flow
      PROVE  /\ flow'[k].passed <= client.size
             /\ \A j \in 1..k : ~OverCap(flow'[k].passed, policy[trail[j].server].cap)
             /\ flow'[k].state = "ended" => flow'[k].passed = client.size
             /\ flow'[k].state = "failed" =>
                  /\ ~client.declared
                  /\ \E j \in 1..k : OverCap(client.size, policy[trail[j].server].cap)
  <2>1. CASE k = i
    BY <1>3, <2>1
  <2>2. CASE k # i
    <3>1. flow'[k] = flow[k]
      BY <1>3, <2>2
    <3> QED
      BY <1>2, <3>1 DEF FlowInv, BodyWithinCaps
  <2> QED
    BY <2>1, <2>2
<1>5. BodyWithinCaps'
  BY <1>1, <1>2, <1>3, <1>4 DEF Stays, BodyWithinCaps
<1>6. FlowInv'
  BY <1>1, <1>2, <1>3, <1>4, <1>5 DEF Stays, FlowInv
<1>7. PicksInv'
  BY <1>1, <1>2 DEF PicksInv
<1> QED
  BY <1>1, <1>2, <1>6, <1>7, RequestStays DEF IInv

\* A hop passes on no more than it received, which is within the caps of the hops before it.
LEMMA StreamSteps ==
  ASSUME IInv, NEW i \in DOMAIN flow, Frame(i) \/ BodyEnds(i) \/ BodyBreaks(i)
  PROVE  IInv'
<1> DEFINE Cap(j) == policy[trail[j].server].cap
           cap == Cap(i)
           size == client.size
           received == Received(i)
<1>1. FlowInv /\ BodyWithinCaps
  BY DEF IInv, FlowInv
<1>2. size \in Nat /\ \A s \in DOMAIN Servers : policy[s].cap \in SUBSET Nat
  BY DEF IInv, ScenarioInv, RequestRecords, PolicyRecords
<1>3. /\ Len(flow) \in Nat /\ DOMAIN flow = 1..Len(flow) /\ i \in Nat /\ i >= 1
      /\ \A k \in DOMAIN flow : flow[k] \in Streams
  BY <1>1 DEF FlowInv
<1>4. \A j \in 1..i : j \in DOMAIN flow /\ j \in DOMAIN trail
  <2>1. DOMAIN trail = 1..Len(flow)
    <3>1. trail \in Seq(Range(trail)) /\ Len(trail) = Len(flow)
      BY <1>1 DEF IInv, TrailInv, FlowInv
    <3> QED
      BY <3>1
  <2> QED
    BY <1>3, <2>1
<1>5. \A j \in 1..i : Cap(j) \in SUBSET Nat
  BY <1>2, <1>4 DEF IInv, TrailInv
<1>6. i \in 1..i
  BY <1>3
<1>7. flow[i].passed \in Nat /\ flow[i].state \in {"open", "ended", "failed"}
  BY <1>3 DEF Streams
<1>8. /\ flow[i].passed <= size /\ \A j \in 1..i : ~OverCap(flow[i].passed, Cap(j))
  BY <1>1 DEF FlowInv, BodyWithinCaps
<1>9. /\ received \in Nat /\ received <= size
      /\ \A j \in 1..i : j # i => ~OverCap(received, Cap(j))
  <2>1. CASE i = 1
    BY <1>2, <2>1 DEF Received
  <2>2. CASE i # 1
    <3>1. received = flow[i - 1].passed /\ i - 1 \in DOMAIN flow
      BY <1>3, <2>2 DEF Received
    <3>2. flow[i - 1].passed \in Nat
      BY <1>3, <3>1 DEF Streams
    <3>3. flow[i - 1].passed <= size /\ \A j \in 1..i - 1 : ~OverCap(flow[i - 1].passed, Cap(j))
      BY <1>1, <3>1 DEF FlowInv, BodyWithinCaps
    <3>4. \A j \in 1..i : j # i => j \in 1..i - 1
      BY <1>3
    <3> QED
      BY <3>1, <3>2, <3>3, <3>4
  <2> QED
    BY <2>1, <2>2
<1>10. CASE Frame(i)
  <2>1. PICK k \in 1..received - flow[i].passed : StreamStep(i, Limited(flow[i], k, cap))
    BY <1>10 DEF Frame
  <2> DEFINE more == flow[i].passed + k
  <2>2. more \in Nat /\ more <= received /\ more <= size
    BY <1>2, <1>7, <1>9
  <2>3. flow[i].state = "open"
    BY <1>10 DEF Frame
  <2> HIDE DEF received, size, more, Cap
  <2>4. CASE OverCap(more, cap)
    <3> DEFINE stream == [flow[i] EXCEPT !.state = "failed"]
    <3>1. StreamStep(i, stream)
      BY <2>1, <2>4 DEF Limited, more
    <3>2. stream \in Streams /\ stream.passed = flow[i].passed /\ stream.state = "failed"
      BY <1>3 DEF Streams
    <3>3. OverCap(size, cap)
      BY <1>2, <1>5, <1>6, <2>2, <2>4, MoreIsOver
    <3>4. ~client.declared
      BY <1>1, <1>4, <1>6, <3>3 DEF FlowInv, Cap, size
    <3> HIDE DEF stream
    <3> QED
      BY <1>6, <1>8, <3>1, <3>2, <3>3, <3>4, StreamChanges DEF Cap, size
  <2>5. CASE ~OverCap(more, cap)
    <3> DEFINE stream == [flow[i] EXCEPT !.passed = more]
    <3>1. StreamStep(i, stream)
      BY <2>1, <2>5 DEF Limited, more
    <3>2. stream \in Streams /\ stream.passed = more /\ stream.state = "open"
      BY <1>3, <2>2, <2>3 DEF Streams
    <3>3. ASSUME NEW j \in 1..i, OverCap(more, Cap(j)) PROVE FALSE
      <4>1. j # i
        BY <2>5, <3>3
      <4>2. OverCap(received, Cap(j))
        BY <1>5, <1>9, <2>2, <3>3, MoreIsOver
      <4> QED
        BY <1>9, <4>1, <4>2
    <3> HIDE DEF stream
    <3> QED
      BY <2>2, <3>1, <3>2, <3>3, StreamChanges DEF Cap, size
  <2> QED
    BY <2>4, <2>5
<1>11. CASE BodyEnds(i)
  <2> DEFINE stream == [flow[i] EXCEPT !.state = "ended"]
  <2>1. StreamStep(i, stream) /\ received = flow[i].passed
    BY <1>11 DEF BodyEnds
  <2>2. stream \in Streams /\ stream.passed = flow[i].passed /\ stream.state = "ended"
    BY <1>3 DEF Streams
  <2>3. received = size
    <3>1. CASE i = 1
      BY <3>1 DEF Received
    <3>2. CASE i # 1
      <4>1. i - 1 \in DOMAIN flow /\ flow[i - 1].state = "ended" /\ received = flow[i - 1].passed
        BY <1>3, <1>11, <3>2 DEF BodyEnds, Received
      <4> QED
        BY <1>1, <4>1 DEF BodyWithinCaps
    <3> QED
      BY <3>1, <3>2
  <2> HIDE DEF stream
  <2> QED
    BY <1>8, <2>1, <2>2, <2>3, StreamChanges
<1>12. CASE BodyBreaks(i)
  <2> DEFINE stream == [flow[i] EXCEPT !.state = "failed"]
  <2>1. StreamStep(i, stream) /\ i - 1 \in DOMAIN flow /\ flow[i - 1].state = "failed"
    BY <1>3, <1>12 DEF BodyBreaks
  <2>2. stream \in Streams /\ stream.passed = flow[i].passed /\ stream.state = "failed"
    BY <1>3 DEF Streams
  <2>3. ~client.declared /\ \E j \in 1..i - 1 : OverCap(size, Cap(j))
    BY <1>1, <2>1 DEF BodyWithinCaps
  <2>4. \E j \in 1..i : OverCap(size, Cap(j))
    BY <1>3, <2>3
  <2> HIDE DEF stream
  <2> QED
    BY <1>8, <2>1, <2>2, <2>3, <2>4, StreamChanges
<1> QED
  BY <1>10, <1>11, <1>12

--------------------------------------------------------------------------------
(* The places of the reporting hops *)

Places(n) == [i \in 1..n |-> i]

\* A selection of places is a sequence of places.
LEMMA PlacesFiltered ==
  ASSUME NEW n \in Nat, NEW S
  PROVE  Filter(Places(n), S) \in Seq(1..n)
<1> DEFINE T == 1..n
           places == Places(n)
<1>1. places \in Seq(T)
  BY DEF Places
<1> HIDE DEF T, places
<1>2. Filter(places, S) \in Seq(T)
  BY ONLY <1>1, FilterType
<1> QED
  BY <1>2 DEF T, places

\* One place more, for sets that agree on the earlier ones.
LEMMA PlacesGrow ==
  ASSUME NEW n \in Nat, NEW A, NEW B, (1..n) \cap A = (1..n) \cap B
  PROVE  Filter(Places(n + 1), B) =
           IF n + 1 \in B THEN Append(Filter(Places(n), A), n + 1) ELSE Filter(Places(n), A)
<1> DEFINE places == Places(n)
           x == n + 1
<1>1. places \in Seq(Nat) /\ x \in Nat
  BY DEF Places
<1>2. Range(places) = 1..n
  BY DEF Range, Places
<1>3. Places(n + 1) = Append(places, x)
  <2>1. Len(places) = n /\ \A i \in 1..n : places[i] = i
    BY DEF Places
  <2>2. Append(places, x) \in Seq(Nat) /\ Places(n + 1) \in Seq(Nat) /\ Len(Places(n + 1)) = n + 1
    BY <1>1 DEF Places
  <2>3. Len(Append(places, x)) = n + 1
    BY <1>1, <2>1
  <2>4. \A i \in 1..(n + 1) : Places(n + 1)[i] = i
    BY DEF Places
  <2>5. \A i \in 1..(n + 1) : Append(places, x)[i] = i
    <3> HIDE DEF places
    <3>1. Append(places, x)[n + 1] = n + 1
      BY <1>1, <2>1
    <3>2. \A i \in 1..n : Append(places, x)[i] = i
      BY <1>1, <2>1
    <3>3. \A i \in 1..(n + 1) : i = n + 1 \/ i \in 1..n
      OBVIOUS
    <3> QED
      BY <3>1, <3>2, <3>3
  <2> QED
    BY <2>2, <2>3, <2>4, <2>5, SeqEqual
<1> HIDE DEF places, x
<1>4. Filter(Append(places, x), B) =
        IF x \in B THEN Append(Filter(places, B), x) ELSE Filter(places, B)
  BY ONLY <1>1, FilterAppend
<1>5. Range(places) \cap A = Range(places) \cap B
  BY <1>2
<1>6. Filter(places, A) = Filter(places, B)
  BY ONLY <1>1, <1>5, FilterAgrees
<1> QED
  BY <1>3, <1>4, <1>6 DEF places, x

--------------------------------------------------------------------------------
(* A hop *)

TargetRecords == [server : STRING, path : Seq(STRING), query : STRING]

\* The target that is chosen exists and has an authority.
LEMMA TargetNamed ==
  ASSUME IInv, Ready
  PROVE  /\ at \in DOMAIN Servers
         /\ Target(at).server \in STRING \ {NoValue}
         /\ \E i \in DOMAIN Servers[at].targets : Target(at) = Servers[at].targets[i]
<1> DEFINE targets == Servers[at].targets
           n == Len(targets)
           i == IF at \in Balanced THEN NextProxy(counter[at], n) ELSE 1
<1>1. at \in DOMAIN Servers /\ targets # <<>>
  BY DEF Ready, Serving, Mount
<1>2. targets \in Seq(TargetRecords) /\ (Servers[at].balanced \/ n = 1)
  BY <1>1, ServersAssumption DEF TargetRecords
<1>3. n \in Nat \ {0} /\ DOMAIN targets = 1..n
  BY <1>1, <1>2
<1>4. i \in DOMAIN targets
  <2>1. CASE at \in Balanced
    <3>1. counter[at] \in 0..(CounterMod - 1)
      BY <2>1 DEF IInv, PicksInv
    <3>2. counter[at] \in Nat
      BY <3>1, CounterAssumption
    <3> HIDE DEF n
    <3>3. NextProxy(counter[at], n) \in 1..n
      BY <1>3, <3>2 DEF NextProxy
    <3> QED
      BY <1>3, <2>1, <3>3
  <2>2. CASE at \notin Balanced
    BY <1>1, <1>3, <2>2
  <2> QED
    BY <2>1, <2>2
<1>5. Target(at) = targets[i]
  BY DEF Target
<1> HIDE DEF i
<1>6. targets[i] \in TargetRecords
  BY <1>2, <1>4
<1>7. targets[i].server \in STRING
  BY <1>6 DEF TargetRecords
<1>8. targets[i].server # NoValue
  <2>1. CASE IsProxy(Mount)
    BY <1>1, <1>4, <2>1, ServersAssumption DEF IsProxy, Mount
  <2>2. CASE ~IsProxy(Mount)
    BY <1>5, <2>2 DEF Ready, Resolvable
  <2> QED
    BY <2>1, <2>2
<1> QED
  BY <1>1, <1>4, <1>5, <1>7, <1>8

Fields == BuildForwardHeaders(req, Peer, policy[at], Target(at).server)

\* What Forward does to the request and the trail, apart from the path.
LEMMA HopTaken ==
  ASSUME IInv, Forward
  PROVE  /\ DOMAIN req' = DOMAIN req
         /\ req'.size = req.size /\ req'.declared = req.declared
         /\ req'.nominated = {}
         /\ req'.authority \in {NoValue, Target(at).server}
         /\ req'.host = Fields.host
         /\ req'.xff = Fields.xff
         /\ req'.fwd = Fields.fwd
         /\ req'.xfh = Fields.xfh
         /\ req'.xfp = Fields.xfp
         /\ at' = Target(at).server
         /\ \E hop : /\ hop.server = at /\ hop.target = Target(at) /\ hop.in = req
                     /\ trail' = Append(trail, hop)
         /\ policy' = policy /\ client' = client /\ status' = 0 /\ status = 0
         /\ flow' = Append(flow, [passed |-> 0,
                                  state |-> IF req.declared /\ req.size = 0 THEN "ended" ELSE "open"])
         /\ Ready /\ ~DeclaredTooLarge
         /\ SelectIfBalanced
<1>1. DOMAIN req = {"path", "query", "host", "authority", "xff", "fwd", "xfh", "xfp",
                    "nominated", "size", "declared"}
  BY DEF IInv, RequestInv, ScenarioInv, RequestRecords
<1>2. /\ Ready /\ ~DeclaredTooLarge /\ SelectIfBalanced
      /\ flow' = Append(flow, [passed |-> 0,
                               state |-> IF req.declared /\ req.size = 0 THEN "ended" ELSE "open"])
      /\ policy' = policy /\ client' = client /\ status' = status
      /\ at' = Target(at).server
  BY DEF Forward
<1>3. status = 0
  BY <1>2 DEF Ready, Serving
<1> DEFINE uri == UpstreamFor(Mount, Target(at), req)
           hop == [server |-> at, target |-> Target(at), in |-> req, out |-> uri]
<1>4. trail' = Append(trail, hop)
  BY DEF Forward
<1>5. hop.server = at /\ hop.target = Target(at) /\ hop.in = req
  OBVIOUS
<1>6. PICK authority \in {NoValue, Target(at).server} :
         req' = [req EXCEPT !.path = uri.path, !.query = uri.query,
                            !.host = Fields.host, !.authority = authority,
                            !.xff = Fields.xff, !.fwd = Fields.fwd,
                            !.xfh = Fields.xfh, !.xfp = Fields.xfp,
                            !.nominated = {}]
  BY DEF Forward, Fields
<1> HIDE DEF uri, hop
<1>7. /\ DOMAIN req' = DOMAIN req
      /\ req'.size = req.size
      /\ req'.declared = req.declared
  BY <1>1, <1>6
<1>8. /\ req'.nominated = {}
      /\ req'.authority = authority
      /\ req'.host = Fields.host
  BY <1>1, <1>6
<1>9. /\ req'.xff = Fields.xff
      /\ req'.fwd = Fields.fwd
      /\ req'.xfh = Fields.xfh
      /\ req'.xfp = Fields.xfp
  BY <1>1, <1>6
<1> QED
  BY <1>2, <1>3, <1>4, <1>5, <1>7, <1>8, <1>9

\* The trail a hop longer.
LEMMA TrailGrows ==
  ASSUME IInv, Forward
  PROVE  /\ Len(trail) \in Nat
         /\ DOMAIN trail = 1..Len(trail)
         /\ DOMAIN trail' = 1..(Len(trail) + 1)
         /\ Len(trail') = Len(trail) + 1
         /\ trail' # <<>>
         /\ \A i \in 1..Len(trail) : trail'[i] = trail[i]
         /\ trail'[Len(trail) + 1].server = at
         /\ trail'[Len(trail) + 1].target = Target(at)
         /\ trail'[Len(trail) + 1].in = req
         /\ trail' \in Seq(Range(trail'))
<1>1. PICK hop : /\ hop.server = at /\ hop.target = Target(at) /\ hop.in = req
                 /\ trail' = Append(trail, hop)
  BY HopTaken
<1> DEFINE T == Range(trail) \cup {hop}
           s == trail
           new == trail'
<1>2. s \in Seq(T) /\ hop \in T
  <2>1. trail \in Seq(Range(trail))
    BY DEF IInv, TrailInv
  <2> QED
    BY <2>1
<1>3. new = Append(s, hop)
  BY <1>1
<1> HIDE DEF T, s, new
<1>4. new \in Seq(T)
  BY <1>2, <1>3
<1>5. new \in Seq(Range(new))
  BY ONLY <1>4, SeqOfRange
<1>6. /\ Len(s) \in Nat /\ DOMAIN s = 1..Len(s) /\ DOMAIN new = 1..(Len(s) + 1)
      /\ Len(new) = Len(s) + 1 /\ new # <<>>
      /\ \A i \in 1..Len(s) : new[i] = s[i]
      /\ new[Len(s) + 1] = hop
  BY <1>2, <1>3
<1> QED
  BY <1>1, <1>5, <1>6 DEF s, new

\* The hops after one more.
LEMMA ForwardTrail ==
  ASSUME IInv, Forward
  PROVE  TrailInv'
<1>1. \A i \in 1..(Len(trail) + 1) : trail'[i].server \in DOMAIN Servers
  <2>1. \A i \in 1..Len(trail) : trail'[i].server \in DOMAIN Servers
    BY TrailGrows DEF IInv, TrailInv
  <2>2. trail'[Len(trail) + 1].server \in DOMAIN Servers
    BY TrailGrows, TargetNamed, HopTaken
  <2>3. \A i \in 1..(Len(trail) + 1) : i \in 1..Len(trail) \/ i = Len(trail) + 1
    BY TrailGrows
  <2> QED
    BY <2>1, <2>2, <2>3
<1>2. at' = trail'[Len(trail')].target.server
  BY TrailGrows, HopTaken
<1> QED
  BY <1>1, <1>2, TrailGrows DEF TrailInv

\* A hop that knows its peer reports its neighbour.
LEMMA PeerNamed ==
  ASSUME IInv, Forward, NEW n, n = Len(trail) + 1
  PROVE  /\ Peer \in Names
         /\ policy[at].knowsPeer => Peer # NoValue /\ Peer = Neighbour(n)'
         /\ ~policy[at].knowsPeer => Peer = NoValue
<1>1. CASE ~policy[at].knowsPeer
  <2>1. Peer = NoValue
    BY <1>1 DEF Peer
  <2> QED
    BY <1>1, <2>1 DEF NoValue, Names
<1>2. CASE policy[at].knowsPeer /\ trail = <<>>
  <2>1. n = 1
    BY <1>2
  <2>2. Peer = "client" /\ Neighbour(n)' = "client"
    BY <1>2, <2>1 DEF Peer, Neighbour
  <2> QED
    BY <1>2, <2>2 DEF NoValue, Names
<1>3. CASE policy[at].knowsPeer /\ trail # <<>>
  <2>1. Len(trail) \in Nat \ {0}
    <3>1. trail \in Seq(Range(trail))
      BY DEF IInv, TrailInv
    <3> QED
      BY <1>3, <3>1
  <2>2. Peer = trail[Len(trail)].server
    BY <1>3 DEF Peer, Last
  <2>3. Peer \in DOMAIN Servers
    BY <2>1, <2>2, TrailGrows DEF IInv, TrailInv
  <2>4. Neighbour(n)' = trail'[Len(trail)].server
    BY <2>1 DEF Neighbour
  <2>5. trail'[Len(trail)] = trail[Len(trail)]
    BY <2>1, TrailGrows
  <2> QED
    BY <1>3, <2>2, <2>3, <2>4, <2>5, ServersAssumption DEF Names
<1> QED
  BY <1>1, <1>2, <1>3

\* The places of the reporting hops are places of the trail.
LEMMA ReportingPlaces ==
  ASSUME IInv
  PROVE  /\ Len(trail) \in Nat /\ DOMAIN trail = 1..Len(trail)
         /\ Reporting = Filter(Places(Len(trail)), {i \in DOMAIN trail : Reports(trail[i].server)})
         /\ Reporting \in Seq(1..Len(trail))
<1> DEFINE n == Len(trail)
           A == {i \in DOMAIN trail : Reports(trail[i].server)}
<1>1. n \in Nat /\ DOMAIN trail = 1..n
  <2>1. trail \in Seq(Range(trail))
    BY DEF IInv, TrailInv
  <2> QED
    BY <2>1
<1>2. Reporting = Filter(Places(n), A)
  BY <1>1 DEF Reporting, Places
<1> HIDE DEF n, A
<1>3. Filter(Places(n), A) \in Seq(1..n)
  BY ONLY <1>1, PlacesFiltered
<1> QED
  BY <1>1, <1>2, <1>3 DEF n, A

\* The hop itself comes last of those that report, if it reports.
LEMMA ReportingGrows ==
  ASSUME IInv, Forward
  PROVE  /\ Reporting \in Seq(1..Len(trail))
         /\ Reporting' = IF Reports(at) THEN Append(Reporting, Len(trail) + 1) ELSE Reporting
<1> DEFINE n == Len(trail)
           A == {i \in DOMAIN trail : Reports(trail[i].server)}
           B == {i \in DOMAIN trail' : Reports(trail'[i].server)}
<1>1. n \in Nat /\ DOMAIN trail = 1..n /\ DOMAIN trail' = 1..(n + 1)
  BY TrailGrows
<1>2. Reporting = Filter(Places(n), A) /\ Reporting \in Seq(1..n)
  BY ReportingPlaces
<1>3. Reporting' = Filter(Places(n + 1), B)
  <2>1. \A s : Reports(s)' <=> Reports(s)
    BY HopTaken DEF Reports
  <2>2. {i \in DOMAIN trail : Reports(trail[i].server)}' = B
    BY <2>1
  <2>3. [i \in DOMAIN trail |-> i]' = Places(n + 1)
    BY <1>1 DEF Places
  <2> QED
    BY <2>2, <2>3 DEF Reporting
<1>4. (1..n) \cap A = (1..n) \cap B
  <2>1. \A i \in 1..n : trail'[i] = trail[i]
    BY TrailGrows
  <2>2. \A i \in 1..n : i \in 1..(n + 1)
    BY <1>1
  <2> QED
    BY <1>1, <2>1, <2>2
<1>5. n + 1 \in B <=> Reports(at)
  BY <1>1, TrailGrows
<1> HIDE DEF n, A, B
<1>6. Filter(Places(n + 1), B) =
        IF n + 1 \in B THEN Append(Filter(Places(n), A), n + 1) ELSE Filter(Places(n), A)
  BY ONLY <1>1, <1>4, PlacesGrow
<1> QED
  BY <1>2, <1>3, <1>5, <1>6 DEF n

\* The types that BuildForwardHeaders keeps, and what it does to each header.
LEMMA FieldsBuilt ==
  ASSUME IInv, Forward
  PROVE  LET xff == Survives(req, "x-forwarded-for", req.xff, <<>>)
             fwd == Survives(req, "forwarded", req.fwd, <<>>)
             xfh == Survives(req, "x-forwarded-host", req.xfh, NoValue)
             xfp == Survives(req, "x-forwarded-proto", req.xfp, NoValue)
         IN  /\ Reports(at) => Peer # NoValue
             /\ xff \in Seq(Names) /\ fwd \in Seq(Elements)
             /\ Fields.host \in Names \ {NoValue} /\ Fields.xfh \in Names
             /\ Fields.xff \in Seq(Names) /\ Fields.fwd \in Seq(Elements)
             /\ Fields.host = ForwardedHost(req, policy[at], Target(at).server)
             /\ Fields.xff = IF Reports(at) THEN Append(xff, Peer) ELSE xff
             /\ Fields.xfh = IF policy[at].append THEN OrElse(xfh, ClientHost(req)) ELSE xfh
             /\ Fields.xfp = IF policy[at].append THEN OrElse(xfp, policy[at].scheme) ELSE xfp
             /\ ~Reports(at) => Fields.fwd = fwd
             /\ Reports(at) =>
                  \E e : /\ Fields.fwd = Append(fwd, e)
                         /\ e.for = Peer
                         /\ e.host = IF fwd = <<>> THEN ClientHost(req) ELSE NoValue
                         /\ e.proto = IF fwd = <<>> THEN policy[at].scheme ELSE NoValue
<1> DEFINE xff == Survives(req, "x-forwarded-for", req.xff, <<>>)
           fwd == Survives(req, "forwarded", req.fwd, <<>>)
           xfh == Survives(req, "x-forwarded-host", req.xfh, NoValue)
           xfp == Survives(req, "x-forwarded-proto", req.xfp, NoValue)
           to == Target(at).server
<1>0. at \in DOMAIN Servers /\ to \in Names /\ to # NoValue
  BY TargetNamed, HopTaken DEF Names
<1>1. /\ req.host \in Names /\ req.authority \in Names /\ req.xfh \in Names
      /\ req.xff \in Seq(Names) /\ req.fwd \in Seq(Elements)
  BY DEF IInv, RequestInv
<1>2. policy[at].scheme \in Names /\ policy[at] \in PolicyRecords
  BY <1>0 DEF IInv, ScenarioInv, PolicyRecords, Names
<1>3. /\ Peer \in Names
      /\ Peer # NoValue <=> policy[at].knowsPeer
  BY PeerNamed
<1>4. Reports(at) <=> policy[at].append /\ Peer # NoValue
  BY <1>3 DEF Reports
<1>5. xff \in Seq(Names) /\ fwd \in Seq(Elements) /\ xfh \in Names /\ NoValue \in Names
  BY <1>1 DEF Survives, Names
<1>6. ClientHost(req) \in Names
  BY <1>1 DEF ClientHost, OrElse
<1>7. /\ Fields.host = ForwardedHost(req, policy[at], to)
      /\ Fields.xff = IF Reports(at) THEN Append(xff, Peer) ELSE xff
      /\ Fields.xfh = IF policy[at].append THEN OrElse(xfh, ClientHost(req)) ELSE xfh
      /\ Fields.xfp = IF policy[at].append THEN OrElse(xfp, policy[at].scheme) ELSE xfp
      /\ Fields.fwd = IF Reports(at)
                      THEN AppendForwarded(fwd, Peer, ClientHost(req), policy[at].scheme) ELSE fwd
  BY <1>4 DEF Fields, BuildForwardHeaders, AppendPeer
<1>8. Fields.host \in Names \ {NoValue}
  BY <1>0, <1>1, <1>5, <1>7 DEF ForwardedHost, HostHeader, OrElse, Survives
<1>9. Fields.xfh \in Names
  BY <1>5, <1>6, <1>7 DEF OrElse
<1>10. Fields.xff \in Seq(Names)
  <2> HIDE DEF xff
  <2> QED
    BY <1>3, <1>5, <1>7
<1> DEFINE e == [for   |-> Peer,
                 host  |-> IF fwd = <<>> THEN ClientHost(req) ELSE NoValue,
                 proto |-> IF fwd = <<>> THEN policy[at].scheme ELSE NoValue]
<1>11. AppendForwarded(fwd, Peer, ClientHost(req), policy[at].scheme) = Append(fwd, e)
  BY DEF AppendForwarded
<1>12. e \in Elements
  BY <1>2, <1>3, <1>5, <1>6 DEF Elements
<1>13. /\ e.for = Peer /\ e.host = IF fwd = <<>> THEN ClientHost(req) ELSE NoValue
       /\ e.proto = IF fwd = <<>> THEN policy[at].scheme ELSE NoValue
  OBVIOUS
<1> HIDE DEF e, fwd, xff, xfh, xfp
<1>14. Fields.fwd \in Seq(Elements)
  BY <1>5, <1>7, <1>11, <1>12
<1> QED
  BY <1>4, <1>5, <1>7, <1>8, <1>9, <1>10, <1>11, <1>13, <1>14 DEF fwd, xff, xfh, xfp

\* The request as the next hop gets it.
LEMMA ForwardRequest ==
  ASSUME IInv, Forward
  PROVE  RequestInv'
<1>1. /\ DOMAIN req' = DOMAIN req /\ req'.nominated = {} /\ client' = client
      /\ req'.size = req.size /\ req'.declared = req.declared
      /\ req'.host = Fields.host /\ req'.xfh = Fields.xfh
      /\ req'.xff = Fields.xff /\ req'.fwd = Fields.fwd
      /\ req'.authority \in {NoValue, Target(at).server}
  BY HopTaken
<1>2. req'.authority \in Names
  BY <1>1, TargetNamed, HopTaken DEF Names
<1>3. /\ Fields.host \in Names \ {NoValue} /\ Fields.xfh \in Names
      /\ Fields.xff \in Seq(Names) /\ Fields.fwd \in Seq(Elements)
  BY FieldsBuilt
<1>4. DOMAIN req = DOMAIN client /\ req.size = client.size /\ req.declared = client.declared
  BY DEF IInv, RequestInv
<1>5. trail' # <<>>
  BY TrailGrows
<1> QED
  BY <1>1, <1>2, <1>3, <1>4, <1>5 DEF RequestInv

\* Of a body that a hop begins to pass on nothing has passed, and all of it is within the caps
\* if its length is declared.
LEMMA ForwardFlow ==
  ASSUME IInv, Forward
  PROVE  FlowInv'
<1> DEFINE n == Len(trail)
           begun == [passed |-> 0,
                     state  |-> IF req.declared /\ req.size = 0 THEN "ended" ELSE "open"]
           Cap(i) == policy[trail'[i].server].cap
<1>1. client.size \in Nat /\ \A s \in DOMAIN Servers : policy[s].cap \subseteq Nat
  BY DEF IInv, ScenarioInv, RequestRecords, PolicyRecords
<1>2. FlowInv /\ BodyWithinCaps /\ req.size = client.size /\ req.declared = client.declared
  BY DEF IInv, RequestInv, FlowInv
<1>3. begun \in Streams
  BY DEF Streams
<1>4. flow' = Append(flow, begun)
  BY HopTaken
<1>5. begun.passed = 0 /\ begun.state # "failed" /\ (begun.state = "ended" => client.size = 0)
  BY <1>2
<1> HIDE DEF begun
<1>6. /\ n \in Nat /\ DOMAIN trail = 1..n /\ DOMAIN trail' = 1..n + 1 /\ Len(trail') = n + 1
      /\ \A i \in 1..n : trail'[i] = trail[i]
      /\ trail'[n + 1].server = at
  BY TrailGrows
<1>7. /\ flow \in Seq(Streams) /\ Len(flow) = n /\ DOMAIN flow = 1..n
      /\ flow' \in Seq(Streams) /\ Len(flow') = n + 1 /\ DOMAIN flow' = 1..n + 1
      /\ \A i \in 1..n : flow'[i] = flow[i]
      /\ flow'[n + 1] = begun
  <2>1. flow \in Seq(Streams) /\ Len(flow) = n
    BY <1>2 DEF FlowInv
  <2> HIDE DEF n
  <2> QED
    BY <1>3, <1>4, <1>6, <2>1
<1>8. \A i \in 1..n + 1 : Cap(i) \subseteq Nat
  <2>1. \A i \in 1..n + 1 : trail'[i].server \in DOMAIN Servers
    BY <1>6, ForwardTrail DEF TrailInv
  <2> QED
    BY <1>1, <2>1
<1>9. \A i \in 1..n : Cap(i) = policy[trail[i].server].cap
  BY <1>6
<1>10. Cap(n + 1) = policy[at].cap
  BY <1>6
<1>11. \A i \in 1..n + 1 : i \in 1..n \/ i = n + 1
  BY <1>6
<1> HIDE DEF n, Cap
<1>12. client.declared => \A i \in 1..n + 1 : ~OverCap(client.size, Cap(i))
  <2>1. client.declared => \A i \in 1..n : ~OverCap(client.size, Cap(i))
    BY <1>2, <1>6, <1>9 DEF FlowInv
  <2>2. client.declared => ~OverCap(client.size, Cap(n + 1))
    BY <1>2, <1>10, HopTaken DEF DeclaredTooLarge
  <2> QED
    BY <1>11, <2>1, <2>2
<1>13. ASSUME NEW i \in 1..n + 1
       PROVE  /\ flow'[i].passed <= client.size
              /\ \A j \in 1..i : ~OverCap(flow'[i].passed, Cap(j))
              /\ flow'[i].state = "ended" => flow'[i].passed = client.size
              /\ flow'[i].state = "failed" =>
                   ~client.declared /\ \E j \in 1..i : OverCap(client.size, Cap(j))
  <2>1. CASE i \in 1..n
    <3>1. flow'[i] = flow[i] /\ \A j \in 1..i : j \in 1..n
      BY <1>6, <1>7, <2>1
    <3>2. /\ flow[i].passed <= client.size
          /\ \A j \in 1..i : ~OverCap(flow[i].passed, policy[trail[j].server].cap)
          /\ flow[i].state = "ended" => flow[i].passed = client.size
          /\ flow[i].state = "failed" =>
               /\ ~client.declared
               /\ \E j \in 1..i : OverCap(client.size, policy[trail[j].server].cap)
      BY <1>2, <1>7, <2>1 DEF FlowInv, BodyWithinCaps
    <3> QED
      BY <1>9, <3>1, <3>2
  <2>2. CASE i = n + 1
    <3>1. \A j \in 1..i : ~OverCap(0, Cap(j))
      BY <1>8, <2>2 DEF OverCap
    <3> QED
      BY <1>1, <1>5, <1>7, <2>2, <3>1
  <2> QED
    BY <1>11, <2>1, <2>2
<1>14. policy' = policy /\ client' = client /\ status' = 0
  BY HopTaken
<1>15. BodyWithinCaps'
  BY <1>7, <1>13, <1>14 DEF BodyWithinCaps, Cap
<1> QED
  BY <1>6, <1>7, <1>12, <1>13, <1>14, <1>15 DEF FlowInv, Cap

\* A first hop that appends and has connect info names the host; those behind it find it
\* named.
LEMMA ForwardOriginalHost ==
  ASSUME IInv, Forward
  PROVE  OriginalHostReported'
<1> DEFINE named == OrElse(client.host, client.authority)
<1> SUFFICES ASSUME named # NoValue,
                    policy[trail'[1].server].append, policy[trail'[1].server].knowsPeer,
                    Survives(client, "x-forwarded-host", client.xfh, NoValue) = NoValue
             PROVE  req'.xfh = named
  BY HopTaken DEF OriginalHostReported
<1>1. req'.xfh = Fields.xfh
  BY HopTaken
<1>2. CASE trail = <<>>
  <2>1. req = client /\ Len(trail) = 0
    BY <1>2 DEF IInv, RequestInv
  <2>2. policy[at].append
    BY <2>1, TrailGrows
  <2>3. Fields.xfh = OrElse(NoValue, ClientHost(client))
    BY <2>1, <2>2, FieldsBuilt
  <2> QED
    BY <1>1, <2>3 DEF OrElse, ClientHost
<1>3. CASE trail # <<>>
  <2>1. 1 \in 1..Len(trail)
    <3>1. trail \in Seq(Range(trail))
      BY DEF IInv, TrailInv
    <3> QED
      BY <1>3, <3>1
  <2>2. trail'[1] = trail[1]
    BY <2>1, TrailGrows
  <2>3. req.xfh = named
    BY <1>3, <2>2 DEF IInv, OriginalHostReported
  <2>4. Survives(req, "x-forwarded-host", req.xfh, NoValue) = named
    BY <1>3, <2>3 DEF IInv, RequestInv, Survives
  <2>5. Fields.xfh = named
    BY <2>4, FieldsBuilt DEF OrElse
  <2> QED
    BY <1>1, <2>5
<1> QED
  BY <1>2, <1>3

\* The first hop that appends and has a scheme names it; those behind it find it named.
LEMMA ForwardProto ==
  ASSUME IInv, Forward
  PROVE  ProtoIsFirst'
<1> DEFINE n == Len(trail)
           own == Survives(client, "x-forwarded-proto", client.xfp, NoValue)
           got == Survives(req, "x-forwarded-proto", req.xfp, NoValue)
           Told(i) == policy[trail[i].server].append /\ policy[trail[i].server].scheme # NoValue
           Tells(i) == policy[trail'[i].server].append /\ policy[trail'[i].server].scheme # NoValue
           Scheme(i) == policy[trail'[i].server].scheme
<1>1. /\ n \in Nat /\ DOMAIN trail = 1..n /\ DOMAIN trail' = 1..n + 1
      /\ \A i \in 1..n : trail'[i] = trail[i]
      /\ trail'[n + 1].server = at
  BY TrailGrows
<1>2. req'.xfp = IF policy[at].append THEN OrElse(got, policy[at].scheme) ELSE got
  BY HopTaken, FieldsBuilt
<1>3. trail = <<>> => n = 0 /\ got = own
  BY DEF IInv, RequestInv
<1>4. trail # <<>> => got = req.xfp
  BY DEF IInv, RequestInv, Survives
<1>5. trail # <<>> =>
        IF own # NoValue THEN req.xfp = own
        ELSE \/ req.xfp = NoValue /\ \A i \in 1..n : ~Told(i)
             \/ \E i \in 1..n : /\ Told(i) /\ \A j \in 1..i - 1 : ~Told(j)
                              /\ req.xfp = policy[trail[i].server].scheme
  BY <1>1 DEF IInv, ProtoIsFirst
<1>6. \A i \in 1..n : (Tells(i) <=> Told(i)) /\ Scheme(i) = policy[trail[i].server].scheme
  BY <1>1
<1>7. /\ Tells(n + 1) <=> policy[at].append /\ policy[at].scheme # NoValue
      /\ Scheme(n + 1) = policy[at].scheme
  BY <1>1
<1>8. Tells(n + 1) => req'.xfp = OrElse(got, Scheme(n + 1))
  BY <1>2, <1>7
<1>9. ~Tells(n + 1) => req'.xfp = got
  BY <1>2, <1>7 DEF OrElse
<1>10. \A i \in 1..n : Tells(i) => Scheme(i) # NoValue
  OBVIOUS
\* Before the hop, counting what the client sent as told already.
<1>11. IF own # NoValue THEN got = own
       ELSE \/ got = NoValue /\ \A i \in 1..n : ~Tells(i)
            \/ \E i \in 1..n : /\ Tells(i) /\ \A j \in 1..i - 1 : ~Tells(j)
                             /\ got = Scheme(i)
  <2>1. CASE trail = <<>>
    <3>1. 1..n = {}
      BY <1>3, <2>1
    <3> QED
      BY <1>3, <2>1, <3>1
  <2>2. CASE trail # <<>>
    <3>1. \A i \in 1..n : \A j \in 1..i - 1 : j \in 1..n
      BY <1>1
    <3> HIDE DEF n, own, got, Told, Tells, Scheme
    <3>2. CASE own # NoValue
      BY <1>4, <1>5, <2>2, <3>2
    <3>3. CASE own = NoValue /\ req.xfp = NoValue /\ \A i \in 1..n : ~Told(i)
      BY <1>4, <1>6, <2>2, <3>3
    <3>4. ASSUME own = NoValue,
                 NEW i \in 1..n, Told(i), \A j \in 1..i - 1 : ~Told(j),
                 req.xfp = policy[trail[i].server].scheme
          PROVE  Tells(i) /\ (\A j \in 1..i - 1 : ~Tells(j)) /\ got = Scheme(i)
      BY <1>4, <1>6, <2>2, <3>1, <3>4
    <3> QED
      BY <1>5, <2>2, <3>2, <3>3, <3>4
  <2> QED
    BY <2>1, <2>2
<1>12. \A i \in 1..n + 1 : i \in 1..n \/ i = n + 1
  BY <1>1
<1>13. n + 1 \in 1..n + 1 /\ (n + 1) - 1 = n /\ \A i \in 1..n : i \in 1..n + 1
  BY <1>1
<1> HIDE DEF n, own, got, Told, Tells, Scheme
<1>14. IF own # NoValue THEN req'.xfp = own
       ELSE \/ req'.xfp = NoValue /\ \A i \in 1..n + 1 : ~Tells(i)
            \/ \E i \in 1..n + 1 : /\ Tells(i) /\ \A j \in 1..i - 1 : ~Tells(j)
                                 /\ req'.xfp = Scheme(i)
  <2>1. CASE own # NoValue
    BY <1>8, <1>9, <1>11, <2>1 DEF OrElse
  <2>2. CASE own = NoValue /\ got = NoValue /\ \A i \in 1..n : ~Tells(i)
    <3>1. CASE Tells(n + 1)
      <4>1. req'.xfp = Scheme(n + 1)
        BY <1>8, <2>2, <3>1 DEF OrElse
      <4>2. \A j \in 1..(n + 1) - 1 : ~Tells(j)
        BY <1>13, <2>2
      <4> QED
        BY <1>13, <2>2, <3>1, <4>1, <4>2
    <3>2. CASE ~Tells(n + 1)
      BY <1>9, <1>12, <2>2, <3>2
    <3> QED
      BY <3>1, <3>2
  <2>3. ASSUME own = NoValue, NEW i \in 1..n, Tells(i), \A j \in 1..i - 1 : ~Tells(j),
               got = Scheme(i)
        PROVE  req'.xfp = Scheme(i)
    <3>1. got # NoValue
      BY <1>10, <2>3
    <3> QED
      BY <1>8, <1>9, <2>3, <3>1 DEF OrElse
  <2> QED
    BY <1>11, <1>13, <2>1, <2>2, <2>3
<1>15. policy' = policy /\ client' = client
  BY HopTaken
<1> QED
  BY <1>1, <1>14, <1>15 DEF ProtoIsFirst, own, Tells, Scheme

\* A hop replaces Host by its target, or keeps what the hops before it left.
LEMMA ForwardHost ==
  ASSUME IInv, Forward
  PROVE  HostFollowsPolicy'
<1> DEFINE n == Len(trail)
           to == Target(at).server
           preserves(i) == policy[trail[i].server].preserveHost
           Kept(i) == policy[trail'[i].server].preserveHost
           clients == OrElse(Survives(client, "host", client.host, NoValue), client.authority)
<1>1. /\ n \in Nat /\ DOMAIN trail = 1..n /\ DOMAIN trail' = 1..(n + 1)
      /\ \A i \in 1..n : trail'[i] = trail[i]
      /\ trail'[n + 1].server = at /\ trail'[n + 1].target = Target(at)
  BY TrailGrows
<1>2. req'.host = ForwardedHost(req, policy[at], to)
  BY HopTaken, FieldsBuilt
<1>3. \A i \in 1..n : Kept(i) <=> preserves(i)
  BY <1>1
<1>4. Kept(n + 1) <=> policy[at].preserveHost
  BY <1>1
<1>5. ~Kept(n + 1) => req'.host = to
  BY <1>2, <1>4 DEF ForwardedHost, HostHeader, OrElse
<1>6. trail # <<>> /\ Kept(n + 1) => req'.host = req.host
  BY <1>2, <1>4 DEF IInv, RequestInv, ForwardedHost, HostHeader, OrElse, Survives
<1>7. trail = <<>> /\ Kept(n + 1) => req'.host = OrElse(clients, to)
  <2>1. trail = <<>> => req = client
    BY DEF IInv, RequestInv
  <2> QED
    BY <1>2, <1>4, <2>1 DEF ForwardedHost, HostHeader
<1>8. /\ \A i \in 1..n : ~preserves(i) /\ (\A j \in 1..n : j > i => preserves(j)) =>
           req.host = trail[i].target.server
      /\ trail # <<>> /\ (\A i \in 1..n : preserves(i)) =>
           req.host = OrElse(clients, trail[1].target.server)
  BY <1>1 DEF IInv, HostFollowsPolicy
<1>9. trail # <<>> => 1 \in 1..n
  <2>1. trail \in Seq(Range(trail))
    BY DEF IInv, TrailInv
  <2> QED
    BY <2>1
<1>10. trail = <<>> => n = 0
  OBVIOUS
<1> HIDE DEF n, preserves, Kept, clients, to
<1>11. ASSUME NEW i \in 1..(n + 1), ~Kept(i), \A j \in 1..(n + 1) : j > i => Kept(j)
       PROVE  req'.host = trail'[i].target.server
  <2>1. CASE i = n + 1
    BY <1>1, <1>5, <1>11, <2>1 DEF to
  <2>2. CASE i \in 1..n
    <3>1. n + 1 > i /\ n + 1 \in 1..(n + 1) /\ trail # <<>>
      BY <1>1, <1>10, <2>2
    <3>2. req'.host = req.host
      BY <1>6, <1>11, <3>1
    <3>3. \A j \in 1..n : j > i => preserves(j)
      <4>1. \A j \in 1..n : j \in 1..(n + 1)
        BY <1>1
      <4> QED
        BY <1>3, <1>11, <4>1
    <3>4. req.host = trail[i].target.server
      BY <1>3, <1>8, <1>11, <2>2, <3>3
    <3> QED
      BY <1>1, <2>2, <3>2, <3>4
  <2> QED
    BY <1>1, <2>1, <2>2
<1>12. ASSUME \A i \in 1..(n + 1) : Kept(i)
       PROVE  req'.host = OrElse(clients, trail'[1].target.server)
  <2>1. Kept(n + 1) /\ \A i \in 1..n : Kept(i)
    <3>1. n + 1 \in 1..(n + 1) /\ \A i \in 1..n : i \in 1..(n + 1)
      BY <1>1
    <3> QED
      BY <1>12, <3>1
  <2>2. CASE trail = <<>>
    <3>1. trail'[1].target.server = to
      BY <1>1, <1>10, <2>2 DEF to
    <3> QED
      BY <1>7, <2>1, <2>2, <3>1
  <2>3. CASE trail # <<>>
    <3>1. \A i \in 1..n : preserves(i)
      BY <1>3, <2>1
    <3>2. trail'[1] = trail[1]
      BY <1>1, <1>9, <2>3
    <3> QED
      BY <1>6, <1>8, <2>1, <2>3, <3>1, <3>2
  <2> QED
    BY <2>2, <2>3
<1>13. policy' = policy /\ client' = client
  BY HopTaken
<1> QED
  BY <1>1, <1>11, <1>12, <1>13 DEF HostFollowsPolicy, Kept, clients

\* What the headers report after a hop is what they reported before, and the neighbour of a
\* hop that reports.
LEMMA ForwardReported ==
  ASSUME IInv, Forward
  PROVE  ReportedInv'
<1> DEFINE n == Len(trail)
           xff == Survives(req, "x-forwarded-for", req.xff, <<>>)
           fwd == Survives(req, "forwarded", req.fwd, <<>>)
           own == Len(OwnFwd)
           R == Reporting
           grown == Reporting'
           m == Len(R)
\* The headers as they leave BuildForwardHeaders' stripping.
<1>1. /\ client.xff \in Seq(STRING)
      /\ client.fwd \in Seq([for : STRING, host : STRING, proto : STRING])
  BY DEF IInv, ScenarioInv, RequestRecords
<1>2. OwnXff \in Seq(Names) /\ own \in Nat
  <2>0. OwnXff = client.xff \/ OwnXff = <<>>
    BY DEF OwnXff, Survives
  <2>1. OwnXff \in Seq(STRING)
    <3> DEFINE T == STRING
    <3> HIDE DEF T
    <3>1. client.xff \in Seq(T) /\ <<>> \in Seq(T)
      BY <1>1 DEF T
    <3> QED
      BY <2>0, <3>1 DEF T
  <2>2. OwnFwd = client.fwd \/ OwnFwd = <<>>
    BY DEF OwnFwd, Survives
  <2>3. Len(OwnFwd) \in Nat
    BY <1>1, <2>2
  <2> QED
    BY <2>1, <2>3 DEF Names
<1>3. n \in Nat /\ R \in Seq(1..n) /\ m \in Nat /\ DOMAIN R = 1..m
  BY TrailGrows, ReportingGrows
<1>4. grown = IF Reports(at) THEN Append(R, n + 1) ELSE R
  BY ReportingGrows
<1>5. trail = <<>> => n = 0 /\ R = <<>> /\ m = 0
  <2> SUFFICES ASSUME trail = <<>> PROVE n = 0 /\ R = <<>> /\ m = 0
    OBVIOUS
  <2>1. n = 0 /\ 1..n = {}
    OBVIOUS
  <2>2. R \in Seq({})
    BY <1>3, <2>1
  <2> QED
    BY <2>1, <2>2
<1>6. xff \in Seq(Names) /\ fwd \in Seq(Elements)
  BY FieldsBuilt
\* Before the hop, counting what the client sent as reported already.
<1>7. /\ xff = OwnXff \o Peers
      /\ Len(fwd) = own + m
      /\ \A i \in 1..own : fwd[i] = OwnFwd[i]
      /\ \A k \in 1..m :
           /\ fwd[own + k].for = Neighbour(R[k])
           /\ fwd[own + k].host = IF own + k = 1 THEN ClientHost(trail[R[1]].in) ELSE NoValue
           /\ fwd[own + k].proto = IF own + k = 1 THEN policy[trail[R[1]].server].scheme ELSE NoValue
  <2>1. CASE trail = <<>>
    <3>1. req = client
      BY <2>1 DEF IInv, RequestInv
    <3>2. xff = OwnXff /\ fwd = OwnFwd
      BY <3>1 DEF OwnXff, OwnFwd
    <3>3. Peers = <<>>
      BY <1>5, <2>1 DEF Peers
    <3>4. 1..m = {}
      BY <1>5, <2>1
    <3> HIDE DEF xff, fwd, own, R, m
    <3> QED
      BY <1>2, <1>5, <2>1, <3>2, <3>3, <3>4 DEF own
  <2>2. CASE trail # <<>>
    <3>1. xff = req.xff /\ fwd = req.fwd
      BY <2>2 DEF IInv, RequestInv, Survives
    <3> QED
      BY <2>2, <3>1 DEF IInv, ReportedInv
  <2> QED
    BY <2>1, <2>2
<1>8. /\ req'.xff = IF Reports(at) THEN Append(xff, Peer) ELSE xff
      /\ ~Reports(at) => req'.fwd = fwd
      /\ Reports(at) => \E e : /\ req'.fwd = Append(fwd, e)
                               /\ e.for = Peer
                               /\ e.host = IF fwd = <<>> THEN ClientHost(req) ELSE NoValue
                               /\ e.proto = IF fwd = <<>> THEN policy[at].scheme ELSE NoValue
  BY HopTaken, FieldsBuilt
<1>9. OwnXff' = OwnXff /\ OwnFwd' = OwnFwd /\ policy' = policy
  BY HopTaken DEF OwnXff, OwnFwd
<1>10. /\ trail'[n + 1].in = req /\ trail'[n + 1].server = at /\ \A i \in 1..n : trail'[i] = trail[i]
  BY TrailGrows
<1> DEFINE Behind(i) == IF i = 1 THEN "client" ELSE trail'[i - 1].server
<1>11. /\ \A i : Neighbour(i)' = Behind(i)
       /\ \A i \in 1..n : Behind(i) = Neighbour(i)
       /\ Reports(at) => Behind(n + 1) = Peer
  <2>1. \A i : Neighbour(i)' = Behind(i)
    BY DEF Neighbour
  <2>2. \A i \in 1..n : i = 1 \/ i - 1 \in 1..n
    BY <1>3
  <2>3. \A i \in 1..n : Behind(i) = Neighbour(i)
    BY <1>10, <2>2 DEF Neighbour
  <2>4. PICK next : next = n + 1
    OBVIOUS
  <2>5. Reports(at) => Peer = Neighbour(next)'
    BY <2>4, PeerNamed DEF Reports
  <2> QED
    BY <2>1, <2>3, <2>4, <2>5
<1> DEFINE later == [k \in DOMAIN grown |-> Behind(grown[k])]
<1>12. Peers' = later
  BY <1>11 DEF Peers
<1>13. \A i \in 1..n : Neighbour(i) \in Names
  <2> SUFFICES ASSUME NEW i \in 1..n PROVE Neighbour(i) \in Names
    OBVIOUS
  <2>1. CASE i = 1
    BY <2>1 DEF Neighbour, Names
  <2>2. CASE i # 1
    <3>1. i - 1 \in DOMAIN trail
      BY <1>3, <2>2, TrailGrows
    <3>2. trail[i - 1].server \in DOMAIN Servers
      BY <3>1 DEF IInv, TrailInv
    <3> QED
      BY <2>2, <3>2, ServersAssumption DEF Neighbour, Names
  <2> QED
    BY <2>1, <2>2
<1>14. Peers \in Seq(Names) /\ DOMAIN Peers = 1..m /\ \A k \in 1..m : Peers[k] = Neighbour(R[k])
  <2>1. \A k \in 1..m : R[k] \in 1..n
    BY <1>3
  <2> QED
    BY <1>3, <1>13, <2>1 DEF Peers
<1>15. Peer \in Names
  <2>1. PICK next : next = Len(trail) + 1
    OBVIOUS
  <2> QED
    BY <2>1, PeerNamed
<1> HIDE DEF n, xff, fwd, own, R, grown, m, Behind
\* What is left to show, in terms of the trail and of the hops that report now.
<1>16. ASSUME /\ req'.xff = OwnXff \o later
              /\ Len(req'.fwd) = own + Len(grown)
              /\ \A i \in 1..own : req'.fwd[i] = OwnFwd[i]
              /\ \A k \in 1..Len(grown) :
                   /\ req'.fwd[own + k].for = Behind(grown[k])
                   /\ req'.fwd[own + k].host =
                        IF own + k = 1 THEN ClientHost(trail'[grown[1]].in) ELSE NoValue
                   /\ req'.fwd[own + k].proto =
                        IF own + k = 1 THEN policy[trail'[grown[1]].server].scheme ELSE NoValue
       PROVE  ReportedInv'
  <2> HIDE DEF later
  <2> QED
    BY <1>9, <1>11, <1>12, <1>16 DEF ReportedInv, grown, own
<1>17. CASE ~Reports(at)
  <2>1. grown = R /\ req'.xff = xff /\ req'.fwd = fwd
    BY <1>4, <1>8, <1>17
  <2>2. \A k \in 1..m : R[k] \in 1..n
    BY <1>3
  <2>3. later = Peers
    <3>1. later = [k \in 1..m |-> Behind(R[k])]
      BY <1>3, <2>1
    <3>2. Peers = [k \in 1..m |-> Neighbour(R[k])]
      BY <1>3 DEF Peers, R
    <3> QED
      BY <1>11, <2>2, <3>1, <3>2
  <2>4. m # 0 => trail'[R[1]] = trail[R[1]]
    BY <1>3, <1>10, <2>2
  <2>5. \A k \in 1..m : Behind(R[k]) = Neighbour(R[k])
    BY <1>11, <2>2
  <2>6. Len(grown) = m
    BY <2>1 DEF m
  <2> HIDE DEF later
  <2>7. \A k \in 1..m : /\ fwd[own + k].for = Behind(R[k])
                        /\ fwd[own + k].host =
                             IF own + k = 1 THEN ClientHost(trail'[R[1]].in) ELSE NoValue
                        /\ fwd[own + k].proto =
                             IF own + k = 1 THEN policy[trail'[R[1]].server].scheme ELSE NoValue
    BY <1>3, <1>7, <2>4, <2>5
  <2> QED
    BY <1>7, <1>16, <2>1, <2>3, <2>6, <2>7
<1>18. CASE Reports(at)
  <2>1. grown = Append(R, n + 1) /\ req'.xff = Append(xff, Peer)
    BY <1>4, <1>8, <1>18
  <2>2. /\ Len(grown) = m + 1 /\ DOMAIN grown = 1..(m + 1) /\ grown[m + 1] = n + 1
        /\ \A k \in 1..m : grown[k] = R[k] /\ R[k] \in 1..n
    <3> DEFINE T == 1..(n + 1)
               last == n + 1
    <3>1. R \in Seq(T) /\ last \in T
      BY <1>3
    <3> HIDE DEF T, last
    <3>2. /\ Len(Append(R, last)) = Len(R) + 1 /\ DOMAIN Append(R, last) = 1..(Len(R) + 1)
          /\ Append(R, last)[Len(R) + 1] = last
          /\ \A k \in 1..Len(R) : Append(R, last)[k] = R[k]
      BY <3>1
    <3>3. \A k \in 1..m : R[k] \in 1..n
      BY <1>3
    <3> QED
      BY <2>1, <3>2, <3>3 DEF m, last
  <2>3. later = Append(Peers, Peer)
    <3>1. \A k \in 1..m : later[k] = Peers[k]
      BY <1>3, <1>11, <1>14, <2>2
    <3>2. later[m + 1] = Peer
      BY <1>3, <1>11, <1>18, <2>2
    <3>3. DOMAIN later = 1..(m + 1)
      BY <2>2
    <3> HIDE DEF later
    <3>4. later = [k \in 1..(m + 1) |-> later[k]]
      BY <3>3 DEF later
    <3>5. \A k \in 1..(m + 1) : k \in 1..m \/ k = m + 1
      BY <1>3
    <3>6. \A k \in 1..(m + 1) : later[k] = Append(Peers, Peer)[k]
      BY <1>3, <1>14, <1>15, <3>1, <3>2, <3>5
    <3>7. Append(Peers, Peer) \in Seq(Names) /\ Len(Append(Peers, Peer)) = m + 1
      BY <1>3, <1>14, <1>15
    <3>8. \A k \in 1..(m + 1) : later[k] \in Names
      BY <3>6, <3>7
    <3>9. later \in Seq(Names) /\ Len(later) = m + 1
      BY <1>3, <3>4, <3>8
    <3> QED
      BY <3>6, <3>7, <3>9, SeqEqual
  <2>4. req'.xff = OwnXff \o later
    <3> DEFINE T == Names
               a == OwnXff
               b == Peers
               x == Peer
    <3>1. a \in Seq(T) /\ b \in Seq(T) /\ x \in T
      BY <1>2, <1>14, <1>15
    <3>2. req'.xff = Append(a \o b, x) /\ later = Append(b, x)
      BY <1>7, <2>1, <2>3
    <3> HIDE DEF T, a, b, x, later
    <3>3. a \o Append(b, x) = Append(a \o b, x)
      BY ONLY <3>1, AppendOfConcat
    <3> QED
      BY <3>2, <3>3 DEF a
  <2>5. PICK e : /\ req'.fwd = Append(fwd, e)
                 /\ e.for = Peer
                 /\ e.host = IF fwd = <<>> THEN ClientHost(req) ELSE NoValue
                 /\ e.proto = IF fwd = <<>> THEN policy[at].scheme ELSE NoValue
    BY <1>8, <1>18
  <2> HIDE DEF later
  <2>6. /\ Len(req'.fwd) = own + (m + 1)
        /\ req'.fwd[own + (m + 1)] = e
        /\ \A i \in 1..(own + m) : req'.fwd[i] = fwd[i]
    <3> DEFINE longer == req'.fwd
    <3>1. fwd \in Seq(Elements) /\ Len(fwd) = own + m /\ own \in Nat /\ m \in Nat
      BY <1>2, <1>3, <1>6, <1>7
    <3>2. longer = Append(fwd, e)
      BY <2>5
    <3> HIDE DEF longer
    <3>3. /\ Len(longer) = own + (m + 1)
          /\ longer[own + (m + 1)] = e
          /\ \A i \in 1..(own + m) : longer[i] = fwd[i]
      BY ONLY <3>1, <3>2
    <3> QED
      BY ONLY <3>3 DEF longer
  <2>7. \A i \in 1..own : req'.fwd[i] = OwnFwd[i]
    BY <1>2, <1>3, <1>7, <2>6
  <2>8. ASSUME NEW k \in 1..(m + 1)
        PROVE  /\ req'.fwd[own + k].for = Behind(grown[k])
               /\ req'.fwd[own + k].host =
                    IF own + k = 1 THEN ClientHost(trail'[grown[1]].in) ELSE NoValue
               /\ req'.fwd[own + k].proto =
                    IF own + k = 1 THEN policy[trail'[grown[1]].server].scheme ELSE NoValue
    <3>1. CASE k = m + 1
      <4>1. req'.fwd[own + k] = e /\ grown[k] = n + 1
        BY <2>2, <2>6, <3>1
      <4>2. own + k = 1 <=> fwd = <<>>
        BY <1>2, <1>3, <1>6, <1>7, <3>1
      <4>3. own + k = 1 => trail'[grown[1]].in = req /\ trail'[grown[1]].server = at
        <5>1. own + k = 1 => grown[1] = n + 1
          BY <1>2, <1>3, <2>2, <3>1
        <5> QED
          BY <1>10, <5>1
      <4>4. Behind(grown[k]) = Peer
        BY <1>11, <1>18, <4>1
      <4> QED
        BY <2>5, <4>1, <4>2, <4>3, <4>4
    <3>2. CASE k \in 1..m
      <4>0. own + k \in 1..(own + m)
        BY <1>2, <1>3, <3>2
      <4>1. req'.fwd[own + k] = fwd[own + k] /\ grown[k] = R[k]
        BY <2>2, <2>6, <3>2, <4>0
      <4>2. Behind(grown[k]) = Neighbour(R[k])
        BY <1>11, <2>2, <3>2, <4>1
      <4>3. trail'[grown[1]] = trail[R[1]]
        BY <1>3, <1>10, <2>2, <3>2
      <4> QED
        BY <1>7, <3>2, <4>1, <4>2, <4>3
    <3> QED
      BY <1>3, <3>1, <3>2
  <2> QED
    BY <1>16, <2>2, <2>4, <2>6, <2>7, <2>8
<1> QED
  BY <1>17, <1>18

--------------------------------------------------------------------------------
(* Segments *)

\* The recursion of Segments.
SegmentsUpTo(path) ==
  CHOOSE f : f = [n \in 0..Len(path) |-> IF n = 0 THEN <<>> ELSE Read(f[n - 1], path[n])]

\* A token more keeps the segments sequences.
LEMMA ReadType ==
  ASSUME NEW T, NEW segments \in Seq(Seq(T)), NEW x \in T
  PROVE  Read(segments, x) \in Seq(Seq(T))
<1>1. <<>> \in Seq(T) /\ <<>> \in Seq(Seq(T))
  OBVIOUS
<1>2. ASSUME segments # <<>>
      PROVE  Append(Front(segments), Append(Last(segments), x)) \in Seq(Seq(T))
  <2>1. Front(segments) \in Seq(Seq(T)) /\ Last(segments) \in Seq(T)
    BY <1>2 DEF Front, Last
  <2>2. Append(Last(segments), x) \in Seq(T)
    BY <2>1
  <2> QED
    BY <2>1, <2>2
<1> QED
  BY <1>1, <1>2 DEF Read

\* Segments is what its recursion says, prefix by prefix.
LEMMA SegmentsUnfold ==
  ASSUME NEW T, NEW s \in Seq(T)
  PROVE  /\ Segments(s) = SegmentsUpTo(s)[Len(s)]
         /\ SegmentsUpTo(s) \in [0..Len(s) -> Seq(Seq(T))]
         /\ SegmentsUpTo(s)[0] = <<>>
         /\ \A n \in 1..Len(s) : SegmentsUpTo(s)[n] = Read(SegmentsUpTo(s)[n - 1], s[n])
<1> DEFINE len == Len(s)
           V == Seq(Seq(T))
           empty == <<>>
           step == [p \in (1..len) \X V |-> Read(p[2], s[p[1]])]
           Def(f) == [n \in 0..len |-> IF n = 0 THEN empty ELSE Read(f[n - 1], s[n])]
           h == SegmentsUpTo(s)
<1>1. len \in Nat /\ empty \in V /\ \A i \in 1..len : s[i] \in T
  OBVIOUS
<1>2. \A i \in 1..len, v \in V : Read(v, s[i]) \in V
  BY ReadType
<1>3. Segments(s) = h[len] /\ h = CHOOSE f : f = Def(f)
  BY DEF Segments, SegmentsUpTo
<1> HIDE DEF len, V, empty, h
<1>4. step \in [(1..len) \X V -> V] /\ \A i \in 1..len, v \in V : step[<<i, v>>] = Read(v, s[i])
  BY <1>2
<1> HIDE DEF step
<1>5. PICK f \in [0..len -> V] : Recurs(f, len, empty, step)
  BY ONLY <1>1, <1>4, RecursionOnPrefixes
<1>6. f[0] = empty /\ \A i \in 1..len : f[i] = Read(f[i - 1], s[i])
  <2>1. \A i \in 1..len : f[i - 1] \in V
    BY <1>1
  <2> QED
    BY <1>4, <1>5, <2>1 DEF Recurs
<1>7. f = Def(f)
  <2>1. \A n \in 0..len : n = 0 \/ n \in 1..len
    BY <1>1
  <2>2. \A n \in 0..len : f[n] = Def(f)[n]
    BY <1>6, <2>1
  <2> QED
    BY <2>2
<1>8. h = Def(h)
  BY <1>3, <1>7
<1>9. h[0] = empty /\ \A i \in 1..len : h[i] = Read(h[i - 1], s[i])
  <2>1. \A n \in 0..len : h[n] = Def(h)[n]
    BY <1>8
  <2>2. 0 \in 0..len /\ \A i \in 1..len : i \in 0..len /\ i # 0
    BY <1>1
  <2> QED
    BY <2>1, <2>2
<1>10. \A i \in 0..len : h[i] = f[i]
  <2>1. SameSteps(h, f, len)
    BY <1>6, <1>9 DEF SameSteps
  <2> QED
    BY ONLY <1>1, <2>1, Unfolding
<1>11. h \in [0..len -> V]
  <2>1. DOMAIN h = 0..len /\ h = [n \in 0..len |-> h[n]]
    BY <1>8
  <2> QED
    BY <1>10, <2>1
<1> QED
  BY <1>3, <1>9, <1>11 DEF len, V, empty, h

\* The segments are sequences of tokens.
LEMMA SegmentsType ==
  ASSUME NEW T, NEW s \in Seq(T)
  PROVE  Segments(s) \in Seq(Seq(T))
<1>1. Len(s) \in 0..Len(s)
  OBVIOUS
<1>2. Segments(s) = SegmentsUpTo(s)[Len(s)] /\ SegmentsUpTo(s) \in [0..Len(s) -> Seq(Seq(T))]
  BY SegmentsUnfold
<1> QED
  BY ONLY <1>1, <1>2

\* An empty path has none.
LEMMA SegmentsEmpty == Segments(<<>>) = <<>>
<1> DEFINE empty == <<>>
           T == {}
<1>1. empty \in Seq(T) /\ Len(empty) = 0
  OBVIOUS
<1> HIDE DEF empty, T
<1>2. Segments(empty) = SegmentsUpTo(empty)[Len(empty)] /\ SegmentsUpTo(empty)[0] = <<>>
  BY ONLY <1>1, SegmentsUnfold
<1> QED
  BY <1>1, <1>2 DEF empty

\* Segments reads one token after the other.
LEMMA SegmentsAppend ==
  ASSUME NEW T, NEW s \in Seq(T), NEW x \in T
  PROVE  Segments(Append(s, x)) = Read(Segments(s), x)
<1> DEFINE t == Append(s, x)
           f == SegmentsUpTo(s)
           g == SegmentsUpTo(t)
           len == Len(s)
<1>1. t \in Seq(T) /\ Len(t) = len + 1 /\ t[len + 1] = x /\ \A i \in 1..len : t[i] = s[i]
  OBVIOUS
<1>2. len \in Nat /\ Len(s) = len
  OBVIOUS
<1> HIDE DEF t, len
<1>3. Segments(s) = f[len] /\ f[0] = <<>> /\ \A n \in 1..len : f[n] = Read(f[n - 1], s[n])
  BY <1>2, SegmentsUnfold
<1>4. /\ Segments(t) = g[len + 1] /\ g[0] = <<>>
      /\ \A n \in 1..len + 1 : g[n] = Read(g[n - 1], t[n])
  BY <1>1, SegmentsUnfold
<1> HIDE DEF f, g
<1>5. \A i \in 0..len : g[i] = f[i]
  <2>1. \A n \in 1..len : n \in 1..len + 1
    BY <1>2
  <2>2. SameSteps(g, f, len)
    BY <1>1, <1>3, <1>4, <2>1 DEF SameSteps
  <2> QED
    BY ONLY <1>2, <2>2, Unfolding
<1>6. g[len + 1] = Read(g[len], x)
  <2>1. len + 1 \in 1..len + 1 /\ (len + 1) - 1 = len
    BY <1>2
  <2> QED
    BY <1>1, <1>4, <2>1
<1>7. g[len] = f[len]
  BY <1>2, <1>5
<1> QED
  BY <1>3, <1>4, <1>6, <1>7 DEF t

\* A path that begins with a slash.
Rooted(path) == IsPrefix(<<Slash>>, path)

\* That is, its first token is one.
LEMMA RootedFirst ==
  ASSUME NEW T, NEW s \in Seq(T)
  PROVE  Rooted(s) <=> Len(s) >= 1 /\ s[1] = Slash
<1> DEFINE one == <<Slash>>
           l == SubSeq(one, 1, 1)
           r == SubSeq(s, 1, 1)
<1>1. one \in Seq({Slash}) /\ Len(one) = 1 /\ one[1] = Slash
  OBVIOUS
<1>2. Rooted(s) <=> 1 <= Len(s) /\ l = r
  BY <1>1 DEF Rooted, IsPrefix
<1> HIDE DEF one
<1>3. 1 \in 0..Len(one)
  BY <1>1
<1>4. l \in Seq({Slash}) /\ Len(l) = 1 /\ \A i \in 1..1 : l[i] = one[i]
  BY ONLY <1>1, <1>3, Taken
<1>5. ASSUME Len(s) >= 1 PROVE l = r <=> s[1] = Slash
  <2>1. 1 \in 0..Len(s)
    BY <1>5
  <2>2. r \in Seq(T) /\ Len(r) = 1 /\ \A i \in 1..1 : r[i] = s[i]
    BY ONLY <2>1, Taken
  <2> HIDE DEF l, r
  <2>3. l[1] = Slash /\ r[1] = s[1]
    BY <1>1, <1>4, <2>2
  <2>4. \A i \in 1..1 : i = 1
    OBVIOUS
  <2>5. s[1] = Slash => l = r
    BY <1>4, <2>2, <2>3, <2>4, SeqEqual
  <2> QED
    BY <2>3, <2>5
<1>6. Len(s) \in Nat
  OBVIOUS
<1> QED
  BY <1>2, <1>5, <1>6

\* What begins with a slash still does when more follows.
LEMMA RootedConcat ==
  ASSUME NEW T, NEW s \in Seq(T), NEW t \in Seq(T), Rooted(s)
  PROVE  Rooted(s \o t)
<1>1. Len(s) >= 1 /\ s[1] = Slash
  BY RootedFirst
<1> DEFINE u == s \o t
<1>2. u \in Seq(T) /\ Len(u) >= 1 /\ u[1] = Slash
  BY <1>1
<1> HIDE DEF u
<1>3. Rooted(u)
  BY <1>2, RootedFirst
<1> QED
  BY <1>3 DEF u

\* All but the last token of a path, which is empty or still begins with the slash.
LEMMA RootedFront ==
  ASSUME NEW T, NEW s \in Seq(T), NEW x \in T, Rooted(Append(s, x))
  PROVE  IF s = <<>> THEN x = Slash ELSE Rooted(s)
<1> DEFINE u == Append(s, x)
<1>1. u \in Seq(T) /\ Len(u) = Len(s) + 1 /\ u[Len(u)] = x /\ \A i \in 1..Len(s) : u[i] = s[i]
  OBVIOUS
<1>2. u[1] = Slash
  <2> HIDE DEF u
  <2> QED
    BY <1>1, RootedFirst DEF u
<1> HIDE DEF u
<1>3. CASE s = <<>>
  BY <1>1, <1>2, <1>3
<1>4. CASE s # <<>>
  <2>1. Len(s) >= 1
    BY <1>4
  <2>2. s[1] = Slash
    BY <1>1, <1>2, <2>1
  <2> QED
    BY <1>4, <2>1, <2>2, RootedFirst
<1> QED
  BY <1>3, <1>4

\* A token after a segment has begun changes the last segment only.
LEMMA ReadConcat ==
  ASSUME NEW T, NEW a \in Seq(Seq(T)), NEW b \in Seq(Seq(T)), NEW x \in T,
         b # <<>> \/ x = Slash
  PROVE  Read(a \o b, x) = a \o Read(b, x)
<1> DEFINE V == Seq(T)
           none == <<>>
<1>1. none \in V
  OBVIOUS
<1>2. a \in Seq(V)
  OBVIOUS
<1>3. b \in Seq(V)
  OBVIOUS
<1>4. CASE x = Slash
  <2>1. Read(a \o b, x) = Append(a \o b, none) /\ Read(b, x) = Append(b, none)
    BY <1>4 DEF Read
  <2> HIDE DEF V, none
  <2>2. a \o Append(b, none) = Append(a \o b, none)
    BY ONLY <1>1, <1>2, <1>3, AppendOfConcat
  <2> QED
    BY <2>1, <2>2
<1>5. CASE x # Slash /\ b # <<>>
  <2> DEFINE c == a \o b
             y == Append(Last(b), x)
             f == Front(b)
  <2>1. c # <<>> /\ c \in Seq(V)
    BY <1>5
  <2>2. Last(c) = Last(b) /\ Last(b) \in V
    BY <1>5 DEF Last
  <2>3. Front(c) = a \o f /\ f \in Seq(V)
    <3> DEFINE n == Len(a)
               m == Len(b)
               l == SubSeq(c, 1, n + m - 1)
               r == a \o SubSeq(b, 1, m - 1)
    <3>1. n \in Nat /\ m \in Nat \ {0} /\ Len(c) = n + m /\ Len(b) = m
      BY <1>5
    <3>2. l \in Seq(V) /\ Len(l) = n + m - 1 /\ \A i \in 1..n + m - 1 : l[i] = c[i]
      BY <2>1, <3>1
    <3>3. m - 1 \in 0..Len(b)
      BY <3>1
    <3>4. /\ SubSeq(b, 1, m - 1) \in Seq(V)
          /\ Len(SubSeq(b, 1, m - 1)) = m - 1
          /\ \A i \in 1..m - 1 : SubSeq(b, 1, m - 1)[i] = b[i]
      <4> HIDE DEF V, m
      <4> QED
        BY ONLY <1>3, <3>3, Taken
    <3>5. Front(c) = l /\ a \o Front(b) = r /\ Front(b) \in Seq(V)
      BY <3>1, <3>4 DEF Front
    <3>6. \A i \in 1..n : i \in 1..n + m - 1 /\ c[i] = a[i]
      BY <3>1
    <3>7. \A i \in 1..m : n + i \in 1..n + m /\ c[n + i] = b[i]
      OBVIOUS
    <3> HIDE DEF m
    <3>8. r \in Seq(V) /\ Len(r) = n + m - 1 /\ \A i \in 1..n : r[i] = a[i]
      BY <3>1, <3>4
    <3>9. \A i \in 1..m - 1 : r[n + i] = b[i]
      BY <3>1, <3>4
    <3> HIDE DEF c, l, r, n
    <3>10. ASSUME NEW i \in 1..n + m - 1 PROVE l[i] = r[i]
      <4>1. CASE i <= n
        <5>1. i \in 1..n
          BY <3>1, <4>1
        <5> QED
          BY <3>2, <3>6, <3>8, <5>1
      <4>2. CASE ~ (i <= n)
        <5>1. i - n \in 1..m - 1 /\ i - n \in 1..m /\ n + (i - n) = i
          BY <3>1, <4>2
        <5> QED
          BY <3>2, <3>7, <3>9, <5>1
      <4> QED
        BY <4>1, <4>2
    <3>11. l = r
      BY <3>2, <3>8, <3>10, SeqEqual
    <3> QED
      BY <3>5, <3>11
  <2>4. y \in V
    BY <2>2
  <2>5. Read(c, x) = Append(Front(c), y) /\ Read(b, x) = Append(f, y)
    BY <1>5, <2>1, <2>2 DEF Read
  <2>6. f \in Seq(V)
    BY <2>3
  <2> HIDE DEF y, V, f
  <2>7. a \o Append(f, y) = Append(a \o f, y)
    BY ONLY <1>2, <2>4, <2>6, AppendOfConcat
  <2> QED
    BY <2>3, <2>5, <2>7 DEF c
<1> QED
  BY <1>4, <1>5

\* A path that begins with a slash has a segment.
LEMMA SegmentsSome ==
  ASSUME NEW T, NEW s \in Seq(T), Rooted(s)
  PROVE  Segments(s) # <<>>
<1> DEFINE P == {q \in Seq(T) : Rooted(q) => Segments(q) # <<>>}
<1>1. <<>> \in P
  <2> DEFINE empty == <<>>
  <2>1. empty \in Seq(T)
    OBVIOUS
  <2>2. ~ (Len(empty) >= 1)
    OBVIOUS
  <2> HIDE DEF empty
  <2>3. ~Rooted(empty)
    BY ONLY <2>1, <2>2, RootedFirst
  <2> QED
    BY <2>1, <2>3 DEF empty
<1>2. ASSUME NEW q \in Seq(T), NEW x \in T, q \in P PROVE Append(q, x) \in P
  <2> SUFFICES ASSUME Rooted(Append(q, x)) PROVE Segments(Append(q, x)) # <<>>
    OBVIOUS
  <2>1. IF q = <<>> THEN x = Slash ELSE Rooted(q)
    BY RootedFront
  <2>2. Segments(Append(q, x)) = Read(Segments(q), x)
    BY SegmentsAppend
  <2>3. Segments(q) \in Seq(Seq(T))
    BY SegmentsType
  <2>4. x = Slash \/ Segments(q) # <<>>
    BY <1>2, <2>1
  <2> DEFINE V == Seq(T)
             ss == Segments(q)
             y == Append(Last(ss), x)
             none == <<>>
  <2>5. ss \in Seq(V) /\ none \in V
    BY <2>3
  <2> HIDE DEF ss
  <2>6. ss # <<>> => Front(ss) \in Seq(V) /\ y \in V
    BY <2>5 DEF Front, Last
  <2>7. Read(ss, x) = IF x = Slash THEN Append(ss, none) ELSE Append(Front(ss), y)
    BY <2>4 DEF ss, Read
  <2> HIDE DEF V, y, none
  <2>8. Append(ss, none) # <<>>
    BY <2>5
  <2>9. ss # <<>> => Append(Front(ss), y) # <<>>
    BY <2>6
  <2> QED
    BY <2>2, <2>4, <2>7, <2>8, <2>9 DEF ss
<1> HIDE DEF P
<1>3. Seq(T) \subseteq P
  BY ONLY <1>1, <1>2, InductionOnSeq
<1> QED
  BY <1>3 DEF P

\* A path that continues at a segment boundary has the segments of both parts.
LEMMA SegmentsConcat ==
  ASSUME NEW T, NEW s \in Seq(T), NEW t \in Seq(T), t = <<>> \/ Rooted(t)
  PROVE  Segments(s \o t) = Segments(s) \o Segments(t)
<1> DEFINE P == {q \in Seq(T) : q = <<>> \/ Rooted(q) =>
                                  Segments(s \o q) = Segments(s) \o Segments(q)}
<1>0. Segments(s) \in Seq(Seq(T))
  BY SegmentsType
<1>1. <<>> \in P
  <2>1. s \o <<>> = s /\ Segments(s) \o <<>> = Segments(s)
    BY <1>0
  <2>2. Segments(s \o <<>>) = Segments(s) \o Segments(<<>>)
    BY <2>1, SegmentsEmpty
  <2>3. <<>> \in Seq(T)
    OBVIOUS
  <2> QED
    BY <2>2, <2>3
<1>2. ASSUME NEW q \in Seq(T), NEW x \in T, q \in P PROVE Append(q, x) \in P
  <2> DEFINE r == Append(q, x)
             u == s \o q
             a == Segments(s)
             b == Segments(q)
  <2>0. r \in Seq(T) /\ r # <<>> /\ u \in Seq(T)
    OBVIOUS
  <2> SUFFICES ASSUME Rooted(r) PROVE Segments(s \o r) = a \o Segments(r)
    BY <2>0
  <2>1. IF q = <<>> THEN x = Slash ELSE Rooted(q)
    BY RootedFront
  <2>2. s \o r = Append(u, x)
    BY AppendOfConcat
  <2>3. Segments(Append(u, x)) = Read(Segments(u), x)
    BY ONLY <2>0, x \in T, SegmentsAppend
  <2>4. Segments(u) = a \o b
    BY <1>2, <2>1
  <2>5. b \in Seq(Seq(T))
    BY SegmentsType
  <2>6. b # <<>> \/ x = Slash
    BY <2>1, SegmentsSome
  <2>7. Segments(r) = Read(b, x)
    BY SegmentsAppend
  <2> HIDE DEF a, b, u, r
  <2>8. a \in Seq(Seq(T))
    BY <1>0 DEF a
  <2>9. Read(a \o b, x) = a \o Read(b, x)
    BY ONLY <2>5, <2>6, <2>8, x \in T, ReadConcat
  <2> QED
    BY <2>2, <2>3, <2>4, <2>7, <2>9
<1> HIDE DEF P
<1>3. Seq(T) \subseteq P
  BY ONLY <1>1, <1>2, InductionOnSeq
<1> QED
  BY <1>3 DEF P

\* What a token was added to, and which, can be read off the segments.
LEMMA ReadInjective ==
  ASSUME NEW T, NEW a \in Seq(Seq(T)), NEW b \in Seq(Seq(T)), NEW x \in T, NEW y \in T,
         a # <<>> \/ x = Slash, b # <<>> \/ y = Slash, Read(a, x) = Read(b, y)
  PROVE  a = b /\ x = y
<1> DEFINE V == Seq(T)
           none == <<>>
           fa == Front(a)
           fb == Front(b)
           la == Last(a)
           lb == Last(b)
           ya == Append(la, x)
           yb == Append(lb, y)
<1>1. none \in V
  OBVIOUS
<1>2. a \in Seq(V)
  OBVIOUS
<1>3. b \in Seq(V)
  OBVIOUS
<1>4. Read(a, x) = IF x = Slash THEN Append(a, none) ELSE Append(fa, ya)
  BY DEF Read
<1>5. Read(b, y) = IF y = Slash THEN Append(b, none) ELSE Append(fb, yb)
  BY DEF Read
<1>6. ASSUME a # <<>>
      PROVE  /\ fa \in Seq(V) /\ la \in V /\ a = Append(fa, la)
             /\ ya \in V /\ ya # none
  <2> HIDE DEF V
  <2>1. fa \in Seq(V) /\ la \in V /\ a = Append(fa, la)
    BY <1>2, <1>6, FrontAndLast
  <2> HIDE DEF la
  <2>2. ya \in V /\ ya # none
    BY <2>1, AppendProperties DEF V
  <2> QED
    BY <2>1, <2>2
<1>7. ASSUME b # <<>>
      PROVE  /\ fb \in Seq(V) /\ lb \in V /\ b = Append(fb, lb)
             /\ yb \in V /\ yb # none
  <2> HIDE DEF V
  <2>1. fb \in Seq(V) /\ lb \in V /\ b = Append(fb, lb)
    BY <1>3, <1>7, FrontAndLast
  <2> HIDE DEF lb
  <2>2. yb \in V /\ yb # none
    BY <2>1, AppendProperties DEF V
  <2> QED
    BY <2>1, <2>2
<1> HIDE DEF V, none, fa, fb, la, lb
<1>8. CASE x = Slash /\ y = Slash
  <2>1. Append(a, none) = Append(b, none)
    BY <1>4, <1>5, <1>8
  <2>2. a = b
    BY ONLY <1>1, <1>2, <1>3, <2>1, AppendInjective
  <2> QED
    BY <1>8, <2>2
<1>9. CASE x = Slash /\ y # Slash
  <2>1. Append(a, none) = Append(fb, yb) /\ b # <<>>
    BY <1>4, <1>5, <1>9
  <2>2. fb \in Seq(V) /\ yb \in V /\ yb # none
    BY <1>7, <2>1
  <2> HIDE DEF yb
  <2>3. none = yb
    BY ONLY <1>1, <1>2, <2>1, <2>2, AppendInjective
  <2> QED
    BY <2>2, <2>3
<1>10. CASE x # Slash /\ y = Slash
  <2>1. Append(fa, ya) = Append(b, none) /\ a # <<>>
    BY <1>4, <1>5, <1>10
  <2>2. fa \in Seq(V) /\ ya \in V /\ ya # none
    BY <1>6, <2>1
  <2> HIDE DEF ya
  <2>3. none = ya
    BY ONLY <1>1, <1>3, <2>1, <2>2, AppendInjective
  <2> QED
    BY <2>2, <2>3
<1>11. CASE x # Slash /\ y # Slash
  <2>1. Append(fa, ya) = Append(fb, yb) /\ a # <<>> /\ b # <<>>
    BY <1>4, <1>5, <1>11
  <2>2. fa \in Seq(V) /\ ya \in V /\ la \in Seq(T) /\ a = Append(fa, la)
    BY <1>6, <2>1 DEF V
  <2>3. fb \in Seq(V) /\ yb \in V /\ lb \in Seq(T) /\ b = Append(fb, lb)
    BY <1>7, <2>1 DEF V
  <2>4. fa = fb /\ ya = yb
    <3> HIDE DEF ya, yb
    <3> QED
      BY ONLY <2>1, <2>2, <2>3, AppendInjective
  <2>5. Append(la, x) = Append(lb, y)
    BY <2>4
  <2>6. la = lb /\ x = y
    BY ONLY <2>2, <2>3, <2>5, x \in T, y \in T, AppendInjective
  <2> QED
    BY <2>2, <2>3, <2>4, <2>6
<1> QED
  BY <1>8, <1>9, <1>10, <1>11

\* No two paths have the same segments: what the reference says of the segments of an upstream
\* URI leaves no choice of the path transform_uri or build_upstream_uri may write.
THEOREM SegmentsInjective ==
  ASSUME NEW T, NEW s \in Seq(T), NEW t \in Seq(T), Rooted(s), Rooted(t),
         Segments(s) = Segments(t)
  PROVE  s = t
<1> DEFINE P == {q \in Seq(T) :
                   \A a \in Seq(T) : Rooted(q) /\ Rooted(a) /\ Segments(a) = Segments(q) => a = q}
<1>1. <<>> \in P
  <2> DEFINE empty == <<>>
  <2>1. empty \in Seq(T)
    OBVIOUS
  <2>2. ~ (Len(empty) >= 1)
    OBVIOUS
  <2> HIDE DEF empty
  <2>3. ~Rooted(empty)
    BY ONLY <2>1, <2>2, RootedFirst
  <2> QED
    BY <2>1, <2>3 DEF empty
<1>2. ASSUME NEW q \in Seq(T), NEW x \in T, q \in P PROVE Append(q, x) \in P
  <2> DEFINE r == Append(q, x)
  <2>1. r \in Seq(T)
    OBVIOUS
  <2> SUFFICES ASSUME NEW a \in Seq(T), Rooted(r), Rooted(a), Segments(a) = Segments(r)
               PROVE  a = r
    BY <2>1
  <2>2. a # <<>>
    <3>1. Len(a) >= 1
      BY RootedFirst
    <3> QED
      BY <3>1
  <2> DEFINE c == Front(a)
             y == Last(a)
  <2>3. c \in Seq(T) /\ y \in T /\ a = Append(c, y)
    BY <2>2, FrontAndLast
  <2> HIDE DEF c, y
  <2>4. IF q = <<>> THEN x = Slash ELSE Rooted(q)
    BY RootedFront
  <2>5. IF c = <<>> THEN y = Slash ELSE Rooted(c)
    BY <2>3, RootedFront
  <2>6. Segments(a) = Read(Segments(c), y) /\ Segments(r) = Read(Segments(q), x)
    BY <2>3, SegmentsAppend
  <2>7. q # <<>> => Segments(q) # <<>>
    BY <2>4, SegmentsSome
  <2>8. c # <<>> => Segments(c) # <<>>
    BY <2>3, <2>5, SegmentsSome
  <2> DEFINE qs == Segments(q)
             cs == Segments(c)
  <2>9. qs \in Seq(Seq(T))
    BY SegmentsType
  <2>10. cs \in Seq(Seq(T))
    BY <2>3, SegmentsType
  <2>11. (qs # <<>> \/ x = Slash) /\ (cs # <<>> \/ y = Slash) /\ Read(qs, x) = Read(cs, y)
    BY <2>4, <2>5, <2>6, <2>7, <2>8
  <2> HIDE DEF qs, cs
  <2>12. qs = cs /\ x = y
    BY ONLY <2>3, <2>9, <2>10, <2>11, x \in T, ReadInjective
  <2>13. c = q
    <3>1. CASE q = <<>> \/ c = <<>>
      BY <2>7, <2>8, <2>12, <3>1, SegmentsEmpty DEF qs, cs
    <3>2. CASE q # <<>> /\ c # <<>>
      BY <1>2, <2>3, <2>4, <2>5, <2>12, <3>2 DEF qs, cs
    <3> QED
      BY <3>1, <3>2
  <2> QED
    BY <2>3, <2>12, <2>13
<1> HIDE DEF P
<1>3. Seq(T) \subseteq P
  BY ONLY <1>1, <1>2, InductionOnSeq
<1> QED
  BY <1>3 DEF P

\* A path is cut behind its first n segments at m.
CutAt(path, n, m) ==
  /\ m \in 1..Len(path)
  /\ Segments(SubSeq(path, 1, m)) = SubSeq(Segments(path), 1, n)
  /\ m = Len(path) \/ path[m + 1] = Slash

\* The first segments of a path are those of a part of it that ends at a boundary.
LEMMA SegmentsCut ==
  ASSUME NEW T, NEW s \in Seq(T), Rooted(s), NEW n \in 1..Len(Segments(s))
  PROVE  \E m \in Nat : CutAt(s, n, m)
<1> DEFINE P == {q \in Seq(T) :
                   Rooted(q) => \A k \in 1..Len(Segments(q)) : \E m \in Nat : CutAt(q, k, m)}
<1>1. <<>> \in P
  <2> DEFINE empty == <<>>
  <2>1. empty \in Seq(T)
    OBVIOUS
  <2>2. ~ (Len(empty) >= 1)
    OBVIOUS
  <2> HIDE DEF empty
  <2>3. ~Rooted(empty)
    BY ONLY <2>1, <2>2, RootedFirst
  <2> QED
    BY <2>1, <2>3 DEF empty
<1>2. ASSUME NEW q \in Seq(T), NEW x \in T, q \in P PROVE Append(q, x) \in P
  <2> DEFINE r == Append(q, x)
             V == Seq(T)
             none == <<>>
             qs == Segments(q)
             rs == Segments(r)
  <2>1. r \in Seq(T)
    OBVIOUS
  <2> SUFFICES ASSUME Rooted(r), NEW k \in 1..Len(rs) PROVE \E m \in Nat : CutAt(r, k, m)
    BY <2>1
  <2>2. /\ Len(q) \in Nat /\ Len(r) = Len(q) + 1 /\ r[Len(q) + 1] = x
        /\ \A i \in 1..Len(q) : r[i] = q[i]
    OBVIOUS
  <2>3. IF q = <<>> THEN x = Slash ELSE Rooted(q)
    BY RootedFront
  <2>4. rs = Read(qs, x)
    BY SegmentsAppend
  <2>5. qs \in Seq(V)
    BY SegmentsType
  <2>6. none \in V
    OBVIOUS
  <2>7. q = <<>> => qs = <<>>
    BY SegmentsEmpty
  <2>8. q # <<>> => qs # <<>>
    BY <2>3, SegmentsSome
  \* The whole path is its own first segments.
  <2>9. ASSUME k = Len(rs) PROVE CutAt(r, k, Len(r))
    <3>1. SubSeq(r, 1, Len(r)) = r
      BY <2>1, SubSeqFull
    <3>2. rs \in Seq(V)
      BY <2>1, SegmentsType
    <3> HIDE DEF V
    <3>3. SubSeq(rs, 1, k) = rs
      BY <2>9, <3>2, SubSeqFull
    <3>4. Segments(SubSeq(r, 1, Len(r))) = SubSeq(Segments(r), 1, k)
      BY <3>1, <3>3
    <3>5. Len(r) \in 1..Len(r)
      BY <2>2
    <3> HIDE DEF r, rs
    <3> QED
      BY <3>4, <3>5 DEF CutAt
  \* A cut of the path so far is a cut still when a slash follows or a token that
  \* belongs to a later segment.
  <2>10. ASSUME k \in 1..Len(qs), SubSeq(rs, 1, k) = SubSeq(qs, 1, k), x = Slash \/ k < Len(qs)
         PROVE  \E m \in Nat : CutAt(r, k, m)
    <3>1. q # <<>>
      BY <2>5, <2>7, <2>10
    <3>2. PICK m \in Nat : CutAt(q, k, m)
      BY <1>2, <2>3, <2>10, <3>1
    <3>3. m \in 1..Len(q) /\ m \in 0..Len(q) /\ m \in 1..Len(r)
      BY <2>2, <3>2 DEF CutAt
    <3>4. SubSeq(r, 1, m) = SubSeq(q, 1, m)
      <4> HIDE DEF r
      <4> QED
        BY <3>3, TakenOfAppend DEF r
    <3>5. r[m + 1] = Slash
      <4>1. CASE m = Len(q)
        <5>1. SubSeq(q, 1, m) = q
          BY <4>1, SubSeqFull
        <5>2. qs = SubSeq(qs, 1, k)
          BY <3>2, <5>1 DEF CutAt
        <5> HIDE DEF qs, V
        <5>3. k \in 0..Len(qs)
          BY <2>10
        <5>4. Len(SubSeq(qs, 1, k)) = k
          BY ONLY <2>5, <5>3, Taken
        <5>5. k = Len(qs)
          BY <5>2, <5>4
        <5> QED
          BY <2>2, <2>5, <2>10, <4>1, <5>5
      <4>2. CASE m # Len(q)
        <5>1. m + 1 \in 1..Len(q) /\ q[m + 1] = Slash
          BY <2>2, <3>2, <3>3, <4>2 DEF CutAt
        <5> QED
          BY <2>2, <5>1
      <4> QED
        BY <4>1, <4>2
    <3> QED
      BY <2>10, <3>2, <3>3, <3>4, <3>5 DEF CutAt
  <2>11. CASE x = Slash
    <3>1. rs = Append(qs, none)
      BY <2>4, <2>11 DEF Read
    <3> HIDE DEF qs, V, none
    <3>2. Len(rs) = Len(qs) + 1 /\ Len(qs) \in Nat
      BY <2>5, <2>6, <3>1, AppendProperties
    <3>3. CASE k = Len(rs)
      BY <2>2, <2>9, <3>3
    <3>4. CASE k # Len(rs)
      <4>1. k \in 1..Len(qs) /\ k \in 0..Len(qs)
        BY <3>2, <3>4
      <4>2. SubSeq(rs, 1, k) = SubSeq(qs, 1, k)
        BY <2>5, <2>6, <3>1, <4>1, TakenOfAppend
      <4> QED
        BY <2>10, <2>11, <4>1, <4>2
    <3> QED
      BY <3>3, <3>4
  <2>12. CASE x # Slash
    <3> DEFINE f == Front(qs)
               l == Last(qs)
               y == Append(l, x)
    <3>0. qs # <<>>
      BY <2>3, <2>8, <2>12
    <3>1. rs = Append(f, y)
      BY <2>4, <2>12, <3>0 DEF Read
    <3>2. f \in Seq(V) /\ l \in V /\ qs = Append(f, l)
      <4> HIDE DEF V, qs
      <4> QED
        BY <2>5, <3>0, FrontAndLast
    <3> HIDE DEF f, l
    <3>3. y \in V
      BY <3>2
    <3> HIDE DEF qs, V, y
    <3>4. Len(rs) = Len(qs) /\ Len(qs) = Len(f) + 1 /\ Len(f) \in Nat
      BY <3>1, <3>2, <3>3, AppendProperties
    <3>5. CASE k = Len(rs)
      BY <2>2, <2>9, <3>5
    <3>6. CASE k # Len(rs)
      <4>1. k \in 1..Len(qs) /\ k \in 0..Len(f) /\ k < Len(qs)
        BY <3>4, <3>6
      <4>2. SubSeq(rs, 1, k) = SubSeq(f, 1, k)
        BY ONLY <3>1, <3>2, <3>3, <4>1, TakenOfAppend
      <4>3. SubSeq(qs, 1, k) = SubSeq(f, 1, k)
        BY ONLY <3>2, <4>1, TakenOfAppend
      <4> QED
        BY <2>10, <4>1, <4>2, <4>3
    <3> QED
      BY <3>5, <3>6
  <2> QED
    BY <2>11, <2>12
<1> HIDE DEF P
<1>3. Seq(T) \subseteq P
  BY ONLY <1>1, <1>2, InductionOnSeq
<1> QED
  BY <1>3 DEF P

\* A path at a boundary of a prefix is the prefix and what follows.
LEMMA BoundarySplits ==
  ASSUME NEW T, NEW path \in Seq(T), NEW prefix \in Seq(T), AtBoundary(path, prefix)
  PROVE  /\ After(path, prefix) \in Seq(T)
         /\ Len(After(path, prefix)) = Len(path) - Len(prefix)
         /\ After(path, prefix) = <<>> \/ Rooted(After(path, prefix))
         /\ path = prefix \o After(path, prefix)
<1> DEFINE n == Len(prefix)
           m == Len(path)
           rest == SubSeq(path, n + 1, m)
<1>1. n \in Nat /\ m \in Nat /\ Len(prefix) = n /\ Len(path) = m
  OBVIOUS
<1>2. n <= m /\ SubSeq(prefix, 1, n) = SubSeq(path, 1, n)
  BY DEF AtBoundary, IsPrefix
<1>3. After(path, prefix) = rest
  BY DEF After
<1>4. rest = <<>> \/ Rooted(rest)
  BY <1>3 DEF AtBoundary, Rooted
<1> HIDE DEF n, m
<1>5. SubSeq(prefix, 1, n) = prefix
  BY <1>1, SubSeqFull
<1>6. n \in 0..Len(path)
  BY <1>1, <1>2
<1>7. Len(SubSeq(path, 1, n)) = n /\ \A i \in 1..n : SubSeq(path, 1, n)[i] = path[i]
  BY ONLY <1>6, path \in Seq(T), Taken
<1>8. \A i \in 1..n : prefix[i] = path[i]
  BY <1>2, <1>5, <1>7
<1>9. rest \in Seq(T) /\ Len(rest) = m - n /\ \A i \in 1..m - n : rest[i] = path[n + i]
  <2>1. n + 1 \in Int /\ m \in Int /\ \A i \in n + 1..m : path[i] \in T
    BY <1>1, <1>2
  <2>2. /\ rest \in Seq(T)
        /\ Len(rest) = IF n + 1 <= m THEN m - (n + 1) + 1 ELSE 0
        /\ \A i \in 1..m - (n + 1) + 1 : rest[i] = path[n + 1 + i - 1]
    BY ONLY <2>1, SubSeqProperties
  <2>3. \A i \in 1..m - n : i \in 1..m - (n + 1) + 1 /\ n + 1 + i - 1 = n + i
    BY <1>1
  <2> HIDE DEF rest
  <2>4. Len(rest) = m - n
    BY <1>1, <1>2, <2>2
  <2> QED
    BY <2>2, <2>3, <2>4
<1> HIDE DEF rest
<1>10. path = prefix \o rest
  <2> DEFINE u == prefix \o rest
  <2>1. u \in Seq(T) /\ Len(u) = n + (m - n) /\ \A i \in 1..n : u[i] = prefix[i]
    <3>0. rest \in Seq(T)
      BY <1>9
    <3>1. /\ u \in Seq(T) /\ Len(u) = Len(prefix) + Len(rest)
          /\ \A i \in 1..Len(prefix) + Len(rest) :
               u[i] = IF i <= Len(prefix) THEN prefix[i] ELSE rest[i - Len(prefix)]
      BY ONLY <3>0, prefix \in Seq(T), ConcatProperties
    <3> QED
      BY <1>1, <1>9, <3>1
  <2>2. \A i \in 1..m - n : u[n + i] = rest[i]
    BY <1>1, <1>9
  <2> HIDE DEF u
  <2>3. ASSUME NEW i \in 1..m PROVE u[i] = path[i]
    <3>1. CASE i <= n
      <4>1. i \in 1..n
        BY <1>1, <3>1
      <4> QED
        BY <1>8, <2>1, <4>1
    <3>2. CASE ~ (i <= n)
      <4>1. i - n \in 1..m - n /\ n + (i - n) = i
        BY <1>1, <3>2
      <4> QED
        BY <1>9, <2>2, <4>1
    <3> QED
      BY <3>1, <3>2
  <2>4. Len(u) = m
    BY <1>1, <2>1
  <2>5. u = path
    BY <1>1, <2>1, <2>3, <2>4, SeqEqual
  <2> QED
    BY <2>5 DEF u
<1> QED
  BY <1>1, <1>3, <1>4, <1>9, <1>10

\* A path whose segments begin with those of another continues it at a boundary.
LEMMA BoundaryOfSegments ==
  ASSUME NEW T, NEW path \in Seq(T), NEW prefix \in Seq(T), Rooted(path), Rooted(prefix),
         IsPrefix(Segments(prefix), Segments(path))
  PROVE  AtBoundary(path, prefix)
<1> DEFINE V == Seq(T)
           a == Segments(prefix)
           p == Segments(path)
           n == Len(a)
<1>1. a \in Seq(V)
  BY SegmentsType
<1>2. p \in Seq(V)
  BY SegmentsType
<1>3. a # <<>>
  BY SegmentsSome
<1>4. n <= Len(p) /\ SubSeq(a, 1, n) = SubSeq(p, 1, n)
  BY DEF IsPrefix
<1> HIDE DEF V
<1>5. n \in 1..Len(p)
  <2> HIDE DEF a, p
  <2> QED
    BY <1>1, <1>2, <1>3, <1>4
<1>6. PICK m \in Nat : CutAt(path, n, m)
  BY <1>5, SegmentsCut
<1> DEFINE part == SubSeq(path, 1, m)
<1>7. m \in 1..Len(path) /\ m \in 0..Len(path)
  BY <1>6 DEF CutAt
<1>8. part \in Seq(T) /\ Len(part) = m /\ \A i \in 1..m : part[i] = path[i]
  BY ONLY <1>7, path \in Seq(T), Taken
<1>9. Rooted(part)
  <2>1. path[1] = Slash
    BY RootedFirst
  <2>2. Len(part) >= 1 /\ part[1] = Slash
    BY <1>7, <1>8, <2>1
  <2> HIDE DEF part
  <2> QED
    BY <1>8, <2>2, RootedFirst
<1>10. Segments(part) = a
  <2>1. SubSeq(a, 1, n) = a
    BY <1>1, SubSeqFull
  <2> QED
    BY <1>4, <1>6, <2>1 DEF CutAt
<1> HIDE DEF part
<1>11. part = prefix
  BY ONLY <1>8, <1>9, <1>10, prefix \in Seq(T), Rooted(prefix), SegmentsInjective
<1>12. IsPrefix(prefix, path)
  <2>1. SubSeq(part, 1, m) = part
    BY <1>8, SubSeqFull
  <2> QED
    BY <1>7, <1>8, <1>11, <2>1 DEF IsPrefix, part
<1>13. After(path, prefix) = SubSeq(path, m + 1, Len(path))
  BY <1>8, <1>11 DEF After
<1>14. CASE m = Len(path)
  BY <1>12, <1>13, <1>14 DEF AtBoundary
<1>15. CASE m # Len(path)
  <2> DEFINE rest == SubSeq(path, m + 1, Len(path))
  <2>1. rest \in Seq(T) /\ Len(rest) >= 1 /\ rest[1] = path[m + 1]
    BY <1>7, <1>15
  <2>2. path[m + 1] = Slash
    BY <1>6, <1>15 DEF CutAt
  <2> HIDE DEF rest
  <2>3. Rooted(rest)
    BY <2>1, <2>2, RootedFirst
  <2> QED
    BY <1>12, <1>13, <2>3 DEF AtBoundary, Rooted, rest
<1> QED
  BY <1>14, <1>15

--------------------------------------------------------------------------------
(* Trimming *)

\* trim_end_matches cuts behind the last token that is no slash.
LEMMA Trimmed ==
  ASSUME NEW T, NEW s \in Seq(T)
  PROVE  \E n \in 0..Len(s) : /\ TrimEnd(s) = SubSeq(s, 1, n)
                              /\ n = 0 \/ s[n] # Slash
                              /\ \A i \in n + 1..Len(s) : s[i] = Slash
<1> DEFINE S == {0} \cup {i \in DOMAIN s : s[i] # Slash}
           n == Max(S)
<1>1. Len(s) \in Nat /\ S \in SUBSET (0..Len(s)) /\ S # {}
  OBVIOUS
<1>2. n \in S /\ \A y \in S : n >= y
  <2> HIDE DEF S
  <2> QED
    BY <1>1, GreatestOf
<1>3. TrimEnd(s) = SubSeq(s, 1, n)
  BY DEF TrimEnd
<1> HIDE DEF n
<1>4. \A i \in n + 1..Len(s) : s[i] = Slash
  BY <1>2
<1> QED
  BY <1>1, <1>2, <1>3, <1>4

\* What is left is a part of what was there.
LEMMA TrimEndType ==
  ASSUME NEW T, NEW s \in Seq(T)
  PROVE  /\ TrimEnd(s) \in Seq(T)
         /\ \A i \in DOMAIN TrimEnd(s) : i \in DOMAIN s /\ TrimEnd(s)[i] = s[i]
<1>1. PICK n \in 0..Len(s) : TrimEnd(s) = SubSeq(s, 1, n)
  BY Trimmed
<1> DEFINE r == SubSeq(s, 1, n)
<1>2. r \in Seq(T) /\ Len(r) = n /\ \A i \in 1..n : r[i] = s[i]
  BY ONLY n \in 0..Len(s), s \in Seq(T), Taken
<1> HIDE DEF r
<1>3. \A i \in DOMAIN r : i \in DOMAIN s /\ r[i] = s[i]
  BY <1>2
<1> QED
  BY <1>1, <1>2, <1>3 DEF r

\* Nothing but slashes, or a path that begins as before.
LEMMA TrimEndRooted ==
  ASSUME NEW T, NEW s \in Seq(T), Rooted(s)
  PROVE  TrimEnd(s) = <<>> \/ Rooted(TrimEnd(s))
<1> DEFINE r == TrimEnd(s)
<1>1. r \in Seq(T) /\ \A i \in DOMAIN r : r[i] = s[i]
  BY TrimEndType
<1>2. s[1] = Slash
  BY RootedFirst
<1> HIDE DEF r
<1>3. CASE r # <<>>
  <2>1. Len(r) >= 1 /\ 1 \in DOMAIN r
    BY <1>1, <1>3
  <2> QED
    BY <1>1, <1>2, <2>1, RootedFirst DEF r
<1> QED
  BY <1>3 DEF r

\* The slash at the end of what has none.
LEMMA TrimEndOfSlash ==
  ASSUME NEW T, Slash \in T, NEW s \in Seq(T), TrimEnd(s) = s
  PROVE  TrimEnd(Append(s, Slash)) = s
<1> DEFINE r == Append(s, Slash)
           len == Len(s)
<1>1. len \in Nat /\ Len(s) = len
  OBVIOUS
<1>2. /\ r \in Seq(T) /\ Len(r) = len + 1 /\ r[len + 1] = Slash
      /\ \A i \in 1..len : r[i] = s[i]
  OBVIOUS
<1> HIDE DEF r, len
<1>3. PICK n \in 0..Len(s) : TrimEnd(s) = SubSeq(s, 1, n) /\ (n = 0 \/ s[n] # Slash)
  BY Trimmed
<1>4. n = len
  <2>1. Len(SubSeq(s, 1, n)) = n
    BY ONLY n \in 0..Len(s), s \in Seq(T), Taken
  <2> QED
    BY <1>1, <1>3, <2>1
<1>5. PICK m \in 0..Len(r) : /\ TrimEnd(r) = SubSeq(r, 1, m)
                             /\ m = 0 \/ r[m] # Slash
                             /\ \A i \in m + 1..Len(r) : r[i] = Slash
  BY <1>2, Trimmed
<1>6. m = len
  <2>1. m # len + 1
    BY <1>1, <1>2, <1>5
  <2>2. ~ (m < len)
    <3> SUFFICES ASSUME m < len PROVE FALSE
      OBVIOUS
    <3>1. len \in m + 1..Len(r) /\ len \in 1..len
      BY <1>1, <1>2
    <3>2. r[len] = Slash /\ r[len] = s[len]
      BY <1>2, <1>5, <3>1
    <3> QED
      BY <1>1, <1>3, <1>4, <3>2
  <2> QED
    BY <1>1, <1>2, <2>1, <2>2
<1>7. len \in 0..Len(s)
  BY <1>1
<1>8. SubSeq(Append(s, Slash), 1, len) = SubSeq(s, 1, len)
  BY ONLY <1>7, s \in Seq(T), Slash \in T, TakenOfAppend
<1> QED
  BY <1>3, <1>4, <1>5, <1>6, <1>8 DEF r

\* The empty path.
LEMMA TrimEndEmpty == TrimEnd(<<>>) = <<>>
<1> DEFINE empty == <<>>
           T == {}
<1>1. empty \in Seq(T)
  OBVIOUS
<1>2. Len(empty) = 0 /\ SubSeq(empty, 1, 0) = empty
  BY SubSeqEmpty
<1> HIDE DEF empty, T
<1>3. PICK n \in 0..Len(empty) : TrimEnd(empty) = SubSeq(empty, 1, n)
  BY <1>1, Trimmed
<1>4. n = 0
  BY <1>2
<1> QED
  BY <1>2, <1>3, <1>4 DEF empty

\* new_with_client trims the target, a lone slash included.
LEMMA TargetTrimmed ==
  ASSUME NEW T, Slash \in T, NEW target \in Seq(T)
  PROVE  TargetBase(target) = TrimEnd(target)
<1> DEFINE empty == <<>>
<1>1. empty \in Seq(T)
  OBVIOUS
<1>2. TrimEnd(empty) = empty
  BY TrimEndEmpty
<1>3. <<Slash>> = Append(empty, Slash)
  OBVIOUS
<1> HIDE DEF empty
<1>4. TrimEnd(Append(empty, Slash)) = empty
  BY ONLY <1>1, <1>2, Slash \in T, TrimEndOfSlash
<1> QED
  BY <1>3, <1>4 DEF TargetBase, empty

--------------------------------------------------------------------------------
(* transform_uri *)

\* What is left of a path beyond the base is appended to the target's segments.
LEMMA JoinedRest ==
  ASSUME NEW T, Slash \in T, NEW target \in Seq(T), Rooted(target),
         NEW rest \in Seq(T), Rooted(rest)
  PROVE  /\ Segments(TrimEnd(target) \o rest) = Segments(TrimEnd(target)) \o Segments(rest)
         /\ TrimEnd(target) \o rest \in Seq(T)
         /\ Rooted(TrimEnd(target) \o rest)
<1> DEFINE t == TrimEnd(target)
<1>1. t \in Seq(T)
  BY TrimEndType
<1>2. t = <<>> \/ Rooted(t)
  BY TrimEndRooted
<1> HIDE DEF t
<1>3. Segments(t \o rest) = Segments(t) \o Segments(rest)
  BY <1>1, SegmentsConcat
<1>4. Rooted(t \o rest)
  <2>1. CASE t = <<>>
    <3>1. <<>> \o rest = rest
      OBVIOUS
    <3> QED
      BY <2>1, <3>1
  <2>2. CASE Rooted(t)
    BY <1>1, <2>2, RootedConcat
  <2> QED
    BY <1>2, <2>1, <2>2
<1>5. t \o rest \in Seq(T)
  BY <1>1
<1> QED
  BY <1>3, <1>4, <1>5 DEF t

\* With a remainder, Join is that concatenation.
LEMMA JoinRest ==
  ASSUME NEW T, Slash \in T, NEW target \in Seq(T), Rooted(target),
         NEW rest \in Seq(T), Rooted(rest)
  PROVE  /\ Segments(Join(target, rest)) = Segments(TrimEnd(target)) \o Segments(rest)
         /\ Join(target, rest) \in Seq(T)
         /\ Rooted(Join(target, rest))
<1>1. rest # <<>>
  <2>1. Len(rest) >= 1
    BY RootedFirst
  <2> QED
    BY <2>1
<1>2. Join(target, rest) = TrimEnd(target) \o rest
  BY <1>1, TargetTrimmed DEF Join
<1> QED
  BY <1>2, JoinedRest

\* The slash that keeps a target with nothing behind it as it was written.
ClosingSlash(target) ==
  IF Segments(TrimEnd(target)) = <<>> \/ Last(target) = Slash THEN <<<<>>>> ELSE <<>>

\* Without a remainder, the target stays as it was written.
LEMMA JoinEmpty ==
  ASSUME NEW T, Slash \in T, NEW target \in Seq(T), Rooted(target)
  PROVE  /\ Segments(Join(target, <<>>)) = Segments(TrimEnd(target)) \o ClosingSlash(target)
         /\ Join(target, <<>>) \in Seq(T)
         /\ Rooted(Join(target, <<>>))
<1> DEFINE t == TrimEnd(target)
           V == Seq(T)
           none == <<>>
           ss == Segments(t)
<1>1. t \in Seq(T)
  BY TrimEndType
<1>2. t = <<>> \/ Rooted(t)
  BY TrimEndRooted
<1>3. Join(target, <<>>) = IF t = <<>> THEN <<Slash>>
                           ELSE IF TargetTrailingSlash(target) THEN Append(t, Slash) ELSE t
  BY TargetTrimmed DEF Join
<1>4. TargetTrailingSlash(target) <=> target # <<Slash>> /\ Last(target) = Slash
  BY DEF TargetTrailingSlash
<1>5. target = <<Slash>> => t = <<>>
  BY TargetTrimmed DEF TargetBase
<1>6. <<Slash>> = Append(<<>>, Slash)
  OBVIOUS
<1>7. Append(t, Slash) \in Seq(T)
  BY <1>1
<1> HIDE DEF t
<1>8. ss \in Seq(V) /\ (t = <<>> => ss = <<>>) /\ (t # <<>> => ss # <<>>)
  BY <1>1, <1>2, SegmentsType, SegmentsEmpty, SegmentsSome
<1>9. Segments(Append(t, Slash)) = Append(ss, none)
  BY <1>1, SegmentsAppend DEF Read
<1>10. none \in V
  OBVIOUS
<1> HIDE DEF V, none, ss
<1>11. Append(ss, none) = ss \o <<none>> /\ ss \o <<>> = ss
  BY <1>8, <1>10
<1>12. Rooted(Append(t, Slash))
  <2> DEFINE u == Append(t, Slash)
  <2>1. u \in Seq(T) /\ Len(u) >= 1 /\ u[1] = IF t = <<>> THEN Slash ELSE t[1]
    BY <1>1
  <2>2. t # <<>> => t[1] = Slash
    BY <1>1, <1>2, RootedFirst
  <2> HIDE DEF u
  <2>3. Rooted(u)
    BY <2>1, <2>2, RootedFirst
  <2> QED
    BY <2>3 DEF u
<1>13. CASE t = <<>>
  BY <1>3, <1>6, <1>7, <1>8, <1>9, <1>11, <1>12, <1>13 DEF ClosingSlash, t, ss, none
<1>14. CASE t # <<>> /\ TargetTrailingSlash(target)
  BY <1>3, <1>4, <1>7, <1>9, <1>11, <1>12, <1>14 DEF ClosingSlash, t, ss, none
<1>15. CASE t # <<>> /\ ~TargetTrailingSlash(target)
  BY <1>1, <1>2, <1>3, <1>4, <1>5, <1>8, <1>11, <1>15 DEF ClosingSlash, t, ss
<1> QED
  BY <1>13, <1>14, <1>15

\* What follows the first of two sequences is the second.
LEMMA AfterConcat ==
  ASSUME NEW T, NEW s \in Seq(T), NEW t \in Seq(T)
  PROVE  IsPrefix(s, s \o t) /\ After(s \o t, s) = t
<1> DEFINE u == s \o t
           n == Len(s)
           m == Len(t)
           front == SubSeq(u, 1, n)
           rest == SubSeq(u, n + 1, Len(u))
<1>1. n \in Nat /\ m \in Nat /\ Len(s) = n /\ Len(t) = m
  OBVIOUS
<1>2. u \in Seq(T)
  OBVIOUS
<1>3. Len(u) = n + m
  OBVIOUS
<1>4. \A i \in 1..n : u[i] = s[i]
  OBVIOUS
<1>5. \A i \in 1..m : u[n + i] = t[i]
  OBVIOUS
<1>6. IsPrefix(s, u) <=> Len(s) <= Len(u) /\ SubSeq(s, 1, n) = front
  BY DEF IsPrefix
<1>7. After(u, s) = rest
  BY DEF After
<1> HIDE DEF u, n, m
<1>8. n \in 0..Len(u)
  BY <1>1, <1>3
<1>9. front \in Seq(T) /\ Len(front) = n /\ \A i \in 1..n : front[i] = u[i]
  BY ONLY <1>2, <1>8, Taken
<1>10. SubSeq(s, 1, n) = s
  BY <1>1, SubSeqFull
<1>11. n + 1 \in Int /\ Len(u) \in Int /\ \A i \in n + 1..Len(u) : u[i] \in T
  BY <1>1, <1>2, <1>3
<1>12. /\ rest \in Seq(T)
       /\ Len(rest) = IF n + 1 <= Len(u) THEN Len(u) - (n + 1) + 1 ELSE 0
       /\ \A i \in 1..Len(u) - (n + 1) + 1 : rest[i] = u[n + 1 + i - 1]
  BY ONLY <1>11, SubSeqProperties
<1> HIDE DEF front, rest
<1>13. Len(rest) = m
  BY <1>1, <1>3, <1>12
<1>14. \A i \in 1..m : rest[i] = t[i]
  <2>1. \A i \in 1..m : i \in 1..Len(u) - (n + 1) + 1 /\ n + 1 + i - 1 = n + i
    BY <1>1, <1>3
  <2> QED
    BY <1>5, <1>12, <2>1
<1>15. rest = t
  BY <1>1, <1>12, <1>13, <1>14, SeqEqual
<1>16. front = s
  BY <1>1, <1>4, <1>9, SeqEqual
<1> QED
  BY <1>1, <1>3, <1>6, <1>7, <1>10, <1>15, <1>16 DEF u

\* The root is served although there is a base.
AtRoot(base, path) == path = <<Slash>> /\ base # <<>>

\* Below the base, the reference appends the segments beyond it.
LEMMA ReferenceBelow ==
  ASSUME NEW T, NEW base \in Seq(T), NEW target \in Seq(T), NEW rest \in Seq(T), Rooted(rest),
         ~AtRoot(base, TrimEnd(base) \o rest)
  PROVE  ReferenceSegments(base, target, TrimEnd(base) \o rest)
           = Segments(TrimEnd(target)) \o Segments(rest)
<1> DEFINE path == TrimEnd(base) \o rest
           V == Seq(T)
           b == TrimEnd(base)
           bs == Segments(b)
           rs == Segments(rest)
           ts == Segments(TrimEnd(target))
<1>1. b \in Seq(T)
  BY TrimEndType
<1> HIDE DEF b
<1>2. bs \in Seq(V)
  BY <1>1, SegmentsType
<1>3. rs \in Seq(V)
  BY SegmentsType
<1>4. ts \in Seq(V)
  BY TrimEndType, SegmentsType
<1>5. Segments(path) = bs \o rs
  <2>1. path = b \o rest
    BY DEF b
  <2> QED
    BY <1>1, <2>1, SegmentsConcat
<1>6. rs # <<>>
  BY SegmentsSome
<1> HIDE DEF V, bs, rs, ts, path
<1>7. IsPrefix(bs, bs \o rs) /\ After(bs \o rs, bs) = rs
  BY <1>2, <1>3, AfterConcat
<1>8. ts \o rs \o <<>> = ts \o rs
  BY <1>3, <1>4
<1>9. ~ (path = <<Slash>> /\ base # <<>>)
  BY DEF AtRoot, path
<1> QED
  BY <1>5, <1>6, <1>7, <1>8, <1>9 DEF ReferenceSegments, b, bs, rs, ts, path

\* When nothing is left beyond the base, it gives the target as it was written.
LEMMA ReferenceAtBase ==
  ASSUME NEW T, NEW base \in Seq(T), NEW target \in Seq(T), NEW path \in Seq(T),
         path = TrimEnd(base) \/ AtRoot(base, path)
  PROVE  ReferenceSegments(base, target, path) = Segments(TrimEnd(target)) \o ClosingSlash(target)
<1> DEFINE V == Seq(T)
           none == <<>>
           b == TrimEnd(base)
           bs == Segments(b)
           ts == Segments(TrimEnd(target))
<1>1. b \in Seq(T)
  BY TrimEndType
<1> HIDE DEF b
<1>2. bs \in Seq(V)
  BY <1>1, SegmentsType
<1>3. ts \in Seq(V) /\ none \in Seq(V)
  BY TrimEndType, SegmentsType
<1> HIDE DEF V, bs, ts, none
<1>4. bs \o none = bs
  BY <1>2, ConcatEmptySeq DEF none
<1>5. IsPrefix(bs, bs \o none) /\ After(bs \o none, bs) = none
  BY <1>2, <1>3, AfterConcat
<1>6. path = b => Segments(path) = bs
  BY DEF bs
<1>7. ts \o none = ts
  BY <1>3, ConcatEmptySeq DEF none
<1> QED
  BY <1>4, <1>5, <1>6, <1>7 DEF ReferenceSegments, ClosingSlash, AtRoot, none, b, bs, ts

\* A mount's base, and what is written as one.
Base(base, T) == base \in Seq(T) /\ (base = <<>> \/ Rooted(base))

\* transform_uri does for every base, target and path what the reference says, when the
\* service sees the path as the client wrote it.
THEOREM TransformCorrect ==
  ASSUME NEW T, Slash \in T, NEW base, Base(base, T), NEW target \in Seq(T), Rooted(target),
         NEW path \in Seq(T), Rooted(path)
  PROVE  /\ Segments(TransformUri(base, target, path)) = ReferenceSegments(base, target, path)
         /\ TransformUri(base, target, path) \in Seq(T)
         /\ Rooted(TransformUri(base, target, path))
<1> DEFINE b == TrimEnd(base)
           rest == StripBase(path, base)
           t == TrimEnd(target)
<1>1. base \in Seq(T) /\ (base = <<>> \/ Rooted(base))
  BY DEF Base
<1>2. b \in Seq(T)
  BY <1>1, TrimEndType
<1>3. b = <<>> \/ Rooted(b)
  BY <1>1, TrimEndRooted, TrimEndEmpty
<1>4. t \in Seq(T)
  BY TrimEndType
<1>5. Segments(t) \in Seq(Seq(T))
  BY <1>4, SegmentsType
<1>6. path # <<>>
  <2>1. Len(path) >= 1
    BY RootedFirst
  <2> QED
    BY <2>1
<1>7. TransformUri(base, target, path) = Join(target, rest)
  BY DEF TransformUri
<1>8. rest = IF path = <<Slash>> /\ base # <<>> THEN <<>>
             ELSE IF b # <<>> /\ AtBoundary(path, b) THEN After(path, b)
             ELSE path
  BY DEF StripBase
<1> HIDE DEF b, rest, t
\* Nothing is left.
<1>9. ASSUME rest = <<>>, path = TrimEnd(base) \/ AtRoot(base, path)
      PROVE  /\ Segments(Join(target, rest)) = ReferenceSegments(base, target, path)
             /\ Join(target, rest) \in Seq(T)
             /\ Rooted(Join(target, rest))
  <2>1. ReferenceSegments(base, target, path) = Segments(TrimEnd(target)) \o ClosingSlash(target)
    BY ONLY <1>1, <1>9, target \in Seq(T), path \in Seq(T), ReferenceAtBase
  <2>2. Join(target, rest) = Join(target, <<>>)
    BY <1>9
  <2> QED
    BY <2>1, <2>2, JoinEmpty
\* A remainder at a boundary.
<1>10. ASSUME rest \in Seq(T), Rooted(rest), path = TrimEnd(base) \o rest, ~AtRoot(base, path)
       PROVE  /\ Segments(Join(target, rest)) = ReferenceSegments(base, target, path)
              /\ Join(target, rest) \in Seq(T)
              /\ Rooted(Join(target, rest))
  <2>1. ~AtRoot(base, TrimEnd(base) \o rest)
    BY <1>10
  <2>2. ReferenceSegments(base, target, TrimEnd(base) \o rest)
          = Segments(TrimEnd(target)) \o Segments(rest)
    BY ONLY <1>1, <1>10, <2>1, target \in Seq(T), ReferenceBelow
  <2> QED
    BY <1>10, <2>2, JoinRest
<1>11. CASE path = <<Slash>> /\ base # <<>>
  BY <1>7, <1>8, <1>9, <1>11 DEF AtRoot
<1>12. CASE ~ (path = <<Slash>> /\ base # <<>>) /\ b # <<>> /\ AtBoundary(path, b)
  <2>1. rest = After(path, b)
    BY <1>8, <1>12
  <2>2. rest \in Seq(T) /\ (rest = <<>> \/ Rooted(rest)) /\ path = b \o rest
    BY <1>2, <1>12, <2>1, BoundarySplits
  <2>3. b \o <<>> = b
    BY <1>2
  <2> QED
    BY <1>7, <1>9, <1>10, <1>12, <2>2, <2>3 DEF AtRoot, b
<1>13. CASE ~ (path = <<Slash>> /\ base # <<>>) /\ b = <<>>
  <2>1. rest = path
    BY <1>8, <1>13
  <2>2. path = <<>> \o path
    OBVIOUS
  <2> QED
    BY <1>7, <1>10, <1>13, <2>1, <2>2 DEF AtRoot, b
<1>14. CASE ~ (path = <<Slash>> /\ base # <<>>) /\ b # <<>> /\ ~AtBoundary(path, b)
  <2>1. rest = path
    BY <1>8, <1>14
  <2>2. ~IsPrefix(Segments(b), Segments(path))
    BY <1>2, <1>3, <1>14, BoundaryOfSegments
  <2>3. Segments(path) # <<>>
    BY SegmentsSome
  <2>4. ReferenceSegments(base, target, path) = Segments(t) \o Segments(path) \o <<>>
    BY <1>14, <2>2, <2>3 DEF ReferenceSegments, b, t
  <2>5. Segments(t) \o Segments(path) \o <<>> = Segments(t) \o Segments(path)
    <3> DEFINE ts == Segments(t)
               ps == Segments(path)
    <3>1. ps \in Seq(Seq(T))
      BY SegmentsType
    <3> HIDE DEF ps
    <3> QED
      BY <1>5, <3>1
  <2>6. /\ Segments(Join(target, path)) = Segments(t) \o Segments(path)
        /\ Join(target, path) \in Seq(T)
        /\ Rooted(Join(target, path))
    BY JoinRest DEF t
  <2> QED
    BY <1>7, <2>1, <2>4, <2>5, <2>6
<1> QED
  BY <1>11, <1>12, <1>13, <1>14

\* A path of two tokens or more is neither empty nor the root.
LEMMA LongPath == ASSUME NEW path, Len(path) > 1 PROVE path # <<>> /\ path # <<Slash>>
<1> DEFINE none == <<>>
           one == <<Slash>>
<1>1. Len(none) = 0 /\ Len(one) = 1
  OBVIOUS
<1> HIDE DEF none, one
<1>2. path # none
  BY <1>1
<1>3. path # one
  BY <1>1
<1> QED
  BY <1>2, <1>3 DEF none, one

\* The same for a nested proxy, which sees the path without the base, unless what it sees
\* begins with the base once more.
LEMMA NestedCorrect ==
  ASSUME NEW T, Slash \in T, NEW base, Base(base, T), base \notin {<<>>, <<Slash>>},
         TrimEnd(base) = base,
         NEW target \in Seq(T), Rooted(target), NEW path \in Seq(T), Rooted(path),
         NestMatches(base, path), ~AtBoundary(NestStripped(base, path), base)
  PROVE  LET out == TransformUri(base, target, NestStripped(base, path))
         IN  /\ Segments(out) = ReferenceSegments(base, target, path)
             /\ out \in Seq(T)
             /\ Rooted(out)
<1> DEFINE seen == NestStripped(base, path)
           t == TrimEnd(target)
<1>1. base \in Seq(T) /\ Rooted(base)
  BY DEF Base
<1>2. t \in Seq(T)
  BY TrimEndType
<1>3. Segments(t) \in Seq(Seq(T))
  BY <1>2, SegmentsType
<1> HIDE DEF t
<1>4. CASE path = base
  <2>1. seen = <<Slash>>
    BY <1>4 DEF NestStripped
  <2>2. TransformUri(base, target, seen) = Join(target, <<>>)
    BY <2>1 DEF TransformUri, StripBase
  <2>3. ReferenceSegments(base, target, path) = Segments(t) \o ClosingSlash(target)
    BY <1>1, <1>4, ReferenceAtBase DEF t
  <2> QED
    BY <2>2, <2>3, JoinEmpty DEF t
<1>5. CASE path # base
  <2>1. AtBoundary(path, base) /\ Len(path) > Len(base) + 1 /\ seen = After(path, base)
    BY <1>5 DEF NestMatches, NestStripped
  <2>2. /\ seen \in Seq(T) /\ Len(seen) = Len(path) - Len(base)
        /\ seen = <<>> \/ Rooted(seen)
        /\ path = base \o seen
    BY <1>1, <2>1, BoundarySplits
  <2>3. Len(seen) > 1 /\ Len(path) > 1
    BY <1>1, <2>1, <2>2
  <2>4. seen # <<>> /\ seen # <<Slash>> /\ path # <<Slash>>
    BY <2>3, LongPath
  <2>5. ~AtBoundary(seen, base)
    OBVIOUS
  <2> HIDE DEF seen
  <2>6. TransformUri(base, target, seen) = Join(target, seen)
    BY <2>4, <2>5 DEF TransformUri, StripBase
  <2>7. ReferenceSegments(base, target, path) = Segments(t) \o Segments(seen)
    <3>1. ~AtRoot(base, TrimEnd(base) \o seen)
      BY <2>2, <2>4 DEF AtRoot
    <3>2. Rooted(seen)
      BY <2>2, <2>4
    <3>3. seen \in Seq(T)
      BY <2>2
    <3>4. ReferenceSegments(base, target, TrimEnd(base) \o seen)
            = Segments(TrimEnd(target)) \o Segments(seen)
      BY ONLY <1>1, <3>1, <3>2, <3>3, target \in Seq(T), ReferenceBelow
    <3> QED
      BY <2>2, <3>4 DEF t
  <2> QED
    BY <2>2, <2>4, <2>6, <2>7, JoinRest DEF t, seen
<1> QED
  BY <1>4, <1>5

--------------------------------------------------------------------------------
(* proxy_route *)

\* route_literal_prefix cuts a pattern back to the base it was made of.
LEMMA RoutePrefix ==
  ASSUME NEW T, Slash \in T, CatchAll \in T, NEW base \in Seq(T), TrimEnd(base) = base,
         CatchAll \notin Range(base)
  PROVE  RouteLiteralPrefix(base \o <<Slash, CatchAll>>) = base
<1> DEFINE n == Len(base)
           pattern == base \o <<Slash, CatchAll>>
           parameters == {j \in DOMAIN pattern : pattern[j] = CatchAll}
<1>1. n \in Nat /\ \A i \in 1..n : base[i] # CatchAll
  BY DEF Range
<1>2. /\ pattern \in Seq(T) /\ Len(pattern) = n + 2
      /\ \A i \in 1..n : pattern[i] = base[i]
      /\ pattern[n + 1] = Slash /\ pattern[n + 2] = CatchAll
      /\ SubSeq(pattern, 1, n + 1) = Append(base, Slash)
  BY TwoMore
<1>3. RouteLiteralPrefix(pattern) =
        TrimEnd(SubSeq(pattern, 1, Min({Len(pattern)} \cup {i - 1 : i \in parameters})))
  BY DEF RouteLiteralPrefix
<1>4. Slash # CatchAll
  BY DEF Slash, CatchAll
<1> HIDE DEF n, pattern
<1>5. parameters = {n + 2}
  <2>1. DOMAIN pattern = 1..(n + 2)
    BY <1>1, <1>2
  <2>2. \A j \in 1..(n + 2) : j \in 1..n \/ j = n + 1 \/ j = n + 2
    BY <1>1
  <2>3. \A j \in 1..(n + 2) : pattern[j] = CatchAll <=> j = n + 2
    <3> SUFFICES ASSUME NEW j \in 1..(n + 2) PROVE pattern[j] = CatchAll <=> j = n + 2
      OBVIOUS
    <3>1. CASE j \in 1..n
      BY <1>1, <1>2, <3>1
    <3>2. CASE j = n + 1
      BY <1>1, <1>2, <1>4, <3>2
    <3>3. CASE j = n + 2
      BY <1>2, <3>3
    <3> QED
      BY <2>2, <3>1, <3>2, <3>3
  <2>4. n + 2 \in 1..(n + 2)
    BY <1>1
  <2> QED
    BY <2>1, <2>3, <2>4
<1>6. {Len(pattern)} \cup {i - 1 : i \in parameters} = {n + 2, n + 1}
  <2>1. {i - 1 : i \in {n + 2}} = {n + 1}
    BY <1>1
  <2> QED
    BY <1>2, <1>5, <2>1
<1>7. RouteLiteralPrefix(pattern) = TrimEnd(Append(base, Slash))
  BY <1>1, <1>2, <1>3, <1>6, MinOfPair
<1> QED
  BY <1>7, TrimEndOfSlash DEF pattern

\* What a catch-all route leaves of a path it matches.
LEMMA RouteRest ==
  ASSUME NEW T, Slash \in T, CatchAll \in T, NEW base \in Seq(T), TrimEnd(base) = base,
         CatchAll \notin Range(base), NEW path \in Seq(T), Rooted(path),
         CatchAllMatches(base \o <<Slash, CatchAll>>, path)
  PROVE  LET rest == StripRoutePrefix(path, RouteLiteralPrefix(base \o <<Slash, CatchAll>>))
         IN  /\ rest \in Seq(T) /\ Rooted(rest) /\ Len(rest) > 1
             /\ path = base \o rest
             /\ ~AtRoot(base, path)
<1> DEFINE rest == StripRoutePrefix(path, base)
<1>1. RouteLiteralPrefix(base \o <<Slash, CatchAll>>) = base
  BY RoutePrefix
<1>2. AtBoundary(path, base) /\ Len(path) > Len(base) + 1
  BY <1>1 DEF CatchAllMatches
<1>3. /\ After(path, base) \in Seq(T)
      /\ Len(After(path, base)) = Len(path) - Len(base)
      /\ After(path, base) = <<>> \/ Rooted(After(path, base))
      /\ path = base \o After(path, base)
  BY <1>2, BoundarySplits
<1>4. path = <<>> \o path
  OBVIOUS
<1>5. base = <<>> => Len(base) = 0
  OBVIOUS
<1>6. rest = IF base = <<>> THEN path ELSE After(path, base)
  BY <1>2 DEF StripRoutePrefix
<1>7. Len(path) \in Nat /\ Len(base) \in Nat
  OBVIOUS
<1>8. Len(After(path, base)) > 1
  BY <1>2, <1>3, <1>7
<1>9. After(path, base) # <<>>
  BY <1>8
<1>10. rest \in Seq(T) /\ Rooted(rest) /\ Len(rest) > 1
  BY <1>2, <1>3, <1>5, <1>6, <1>7, <1>8, <1>9
<1>11. path = base \o rest
  BY <1>3, <1>4, <1>6
<1>12. ~AtRoot(base, path)
  <2>1. Len(<<Slash>>) = 1
    OBVIOUS
  <2>2. path # <<Slash>>
    <3> SUFFICES ASSUME path = <<Slash>> PROVE FALSE
      OBVIOUS
    <3> QED
      BY ONLY path = <<Slash>>, <1>2, <1>7, <2>1
  <2> QED
    BY <2>2 DEF AtRoot
<1> HIDE DEF rest
<1> QED
  BY <1>1, <1>10, <1>11, <1>12 DEF rest

\* A base URL of proxy_route gets the target the reference says.
LEMMA RouteCorrect ==
  ASSUME NEW T, Slash \in T, CatchAll \in T, NEW base \in Seq(T), TrimEnd(base) = base,
         CatchAll \notin Range(base), NEW target \in Seq(T), Rooted(target),
         NEW path \in Seq(T), Rooted(path), CatchAllMatches(base \o <<Slash, CatchAll>>, path)
  PROVE  LET out == RouteUri(base \o <<Slash, CatchAll>>, target, path)
         IN  /\ Segments(out) = ReferenceSegments(base, target, path)
             /\ out \in Seq(T)
             /\ Rooted(out)
<1> DEFINE rest == StripRoutePrefix(path, RouteLiteralPrefix(base \o <<Slash, CatchAll>>))
           out == TrimEnd(target) \o rest
<1>1. /\ rest \in Seq(T) /\ Rooted(rest) /\ Len(rest) > 1
      /\ path = base \o rest /\ ~AtRoot(base, path)
  BY RouteRest
<1>2. RouteUri(base \o <<Slash, CatchAll>>, target, path) = BuildUpstreamPath(target, rest)
  BY DEF RouteUri
<1> HIDE DEF rest
<1>3. BuildUpstreamPath(target, rest) = out
  <2>1. rest # <<>>
    BY <1>1
  <2> QED
    BY <2>1 DEF BuildUpstreamPath
<1>4. ReferenceSegments(base, target, path) = Segments(TrimEnd(target)) \o Segments(rest)
  <2>1. rest \in Seq(T)
    BY <1>1
  <2>2. Rooted(rest)
    BY <1>1
  <2>3. ~AtRoot(base, TrimEnd(base) \o rest)
    BY <1>1
  <2>4. ReferenceSegments(base, target, TrimEnd(base) \o rest)
          = Segments(TrimEnd(target)) \o Segments(rest)
    BY ONLY base \in Seq(T), target \in Seq(T), <2>1, <2>2, <2>3, ReferenceBelow
  <2> QED
    BY <1>1, <2>4
<1>5. Segments(out) = Segments(TrimEnd(target)) \o Segments(rest) /\ out \in Seq(T) /\ Rooted(out)
  BY <1>1, JoinedRest
<1> QED
  BY <1>2, <1>3, <1>4, <1>5

--------------------------------------------------------------------------------
(* Templates *)

\* What Substitute puts in the place of the parameter.
EncodedAll(value) == [j \in DOMAIN value |-> Encoded(value[j])]

\* A template that ends in its parameter: the literal part, a slash and the encoded value.
LEMMA SubstituteBuilds ==
  ASSUME NEW T, Slash \in T, NEW literal \in Seq(T), Placeholder \notin Range(literal),
         NEW value, EncodedAll(value) \in Seq(T)
  PROVE  Substitute(literal \o <<Slash, Placeholder>>, value)
           = Append(literal, Slash) \o EncodedAll(value)
<1> DEFINE P == T \cup {Placeholder}
           n == Len(literal)
           template == literal \o <<Slash, Placeholder>>
           enc == EncodedAll(value)
           pieces == [i \in DOMAIN template |->
                        IF template[i] = Placeholder THEN enc ELSE <<template[i]>>]
           V == Seq(T)
<1>1. n \in Nat /\ Len(literal) = n /\ \A i \in 1..n : literal[i] \in T /\ literal[i] # Placeholder
  BY DEF Range
<1>2. literal \in Seq(P) /\ Slash \in P /\ Placeholder \in P
  OBVIOUS
<1> HIDE DEF P
<1>3. /\ template \in Seq(P) /\ Len(template) = n + 2
      /\ \A i \in 1..n : template[i] = literal[i]
      /\ template[n + 1] = Slash /\ template[n + 2] = Placeholder
      /\ SubSeq(template, 1, n + 1) = Append(literal, Slash)
  BY <1>2, TwoMore
<1>4. Slash # Placeholder
  BY DEF Slash, Placeholder
<1>5. Substitute(template, value) = FlattenSeq(pieces)
  BY DEF Substitute, EncodedAll
<1>6. enc \in Seq(T)
  OBVIOUS
<1>7. \A x \in T : <<x>> \in Seq(T)
  OBVIOUS
<1> HIDE DEF n, enc, template
<1>8. \A i \in 1..(n + 1) : template[i] \in T /\ template[i] # Placeholder
  <2> SUFFICES ASSUME NEW i \in 1..(n + 1) PROVE template[i] \in T /\ template[i] # Placeholder
    OBVIOUS
  <2>1. i \in 1..n \/ i = n + 1
    BY <1>1
  <2> QED
    BY <1>1, <1>3, <1>4, <2>1
<1>9. DOMAIN template = 1..(n + 2)
  BY <1>1, <1>3
<1> HIDE DEF V
<1>10. \A i \in 1..(n + 2) : (IF template[i] = Placeholder THEN enc ELSE <<template[i]>>) \in V
  <2> SUFFICES ASSUME NEW i \in 1..(n + 2)
               PROVE  (IF template[i] = Placeholder THEN enc ELSE <<template[i]>>) \in V
    OBVIOUS
  <2>1. CASE i = n + 2
    BY <1>3, <1>6, <2>1 DEF V
  <2>2. CASE i \in 1..(n + 1)
    BY <1>7, <1>8, <2>2 DEF V
  <2> QED
    BY <1>1, <2>1, <2>2
<1>11. pieces \in Seq(V) /\ Len(pieces) = n + 2
       /\ \A i \in 1..(n + 2) :
            pieces[i] = IF template[i] = Placeholder THEN enc ELSE <<template[i]>>
  BY <1>1, <1>9, <1>10
<1> HIDE DEF pieces
<1>12. PICK f \in [0..Len(pieces) -> V] :
         /\ f[0] = <<>>
         /\ \A i \in 1..Len(pieces) : f[i] = f[i - 1] \o pieces[i]
         /\ FlattenSeq(pieces) = f[Len(pieces)]
  <2>1. pieces \in Seq(Seq(T))
    BY <1>11 DEF V
  <2>2. \E f \in [0..Len(pieces) -> Seq(T)] :
           /\ f[0] = <<>>
           /\ \A i \in 1..Len(pieces) : f[i] = f[i - 1] \o pieces[i]
           /\ FlattenSeq(pieces) = f[Len(pieces)]
    BY ONLY <2>1, FlattenRuns
  <2> QED
    BY <2>2 DEF V
\* Up to the parameter it is the template.
<1>13. \A i \in 1..(n + 1) : pieces[i] = <<template[i]>> /\ f[i] = f[i - 1] \o pieces[i]
  <2> SUFFICES ASSUME NEW i \in 1..(n + 1)
               PROVE  pieces[i] = <<template[i]>> /\ f[i] = f[i - 1] \o pieces[i]
    OBVIOUS
  <2>1. i \in 1..(n + 2) /\ i \in 1..Len(pieces)
    BY <1>1, <1>11
  <2>2. pieces[i] = IF template[i] = Placeholder THEN enc ELSE <<template[i]>>
    BY <1>11, <2>1
  <2>3. template[i] # Placeholder
    BY <1>8
  <2>4. f[i] = f[i - 1] \o pieces[i]
    BY <1>12, <2>1
  <2> QED
    BY <2>2, <2>3, <2>4
<1>14. \A i \in 0..(n + 1) : f[i] = SubSeq(template, 1, i)
  <2> DEFINE Q == {i \in Nat : i <= n + 1 => f[i] = SubSeq(template, 1, i)}
  <2>1. 0 \in Q
    <3>1. SubSeq(template, 1, 0) = <<>>
      BY SubSeqEmpty
    <3> QED
      BY <1>12, <3>1
  <2>2. ASSUME NEW i \in Nat, i \in Q PROVE i + 1 \in Q
    <3> SUFFICES ASSUME i + 1 <= n + 1 PROVE f[i + 1] = SubSeq(template, 1, i + 1)
      OBVIOUS
    <3> DEFINE k == i + 1
               a == SubSeq(template, 1, i)
               x == template[k]
    <3>1. k \in 1..(n + 1) /\ k - 1 = i /\ k \in 1..Len(template)
      BY <1>1, <1>3
    <3>2. template \in Seq(P)
      BY <1>3
    <3>3. f[i] = a
      BY <1>1, <2>2
    <3> HIDE DEF k
    <3>4. pieces[k] = <<x>> /\ f[k] = f[k - 1] \o pieces[k]
      BY <1>13, <3>1
    <3>5. SubSeq(template, 1, k) = SubSeq(template, 1, k - 1) \o <<template[k]>>
      BY ONLY <3>1, <3>2, TakenNext
    <3> HIDE DEF a, x
    <3>6. f[k] = a \o <<x>>
      BY <3>1, <3>3, <3>4
    <3>7. SubSeq(template, 1, k) = a \o <<x>>
      BY <3>1, <3>5 DEF a, x
    <3> QED
      BY <3>6, <3>7 DEF k
  <2>3. \A i \in Nat : i \in Q => i + 1 \in Q
    BY <2>2
  <2> HIDE DEF Q
  <2>4. Nat \subseteq Q
    BY ONLY <2>1, <2>3, InductionOnNat
  <2> QED
    BY <1>1, <2>4 DEF Q
<1>15. f[n + 2] = f[n + 1] \o enc
  <2> DEFINE k == n + 2
  <2>1. k \in 1..Len(pieces) /\ k - 1 = n + 1 /\ pieces[k] = enc
    <3>1. n + 2 \in 1..(n + 2) /\ n + 2 - 1 = n + 1
      BY <1>1
    <3>2. Len(pieces) = n + 2
      BY <1>11
    <3>3. template[k] = Placeholder /\ k \in 1..(n + 2)
      BY <1>3, <3>1
    <3> HIDE DEF k
    <3>4. pieces[k] = IF template[k] = Placeholder THEN enc ELSE <<template[k]>>
      BY <1>11, <3>3
    <3>5. pieces[k] = enc
      BY <3>3, <3>4
    <3> QED
      BY <3>1, <3>2, <3>3, <3>5 DEF k
  <2> HIDE DEF k
  <2>2. \A i \in 1..Len(pieces) : f[i] = f[i - 1] \o pieces[i]
    BY <1>12
  <2>3. f[k] = f[k - 1] \o pieces[k]
    BY ONLY <2>1, <2>2
  <2>4. f[k] = f[n + 1] \o enc
    BY <2>1, <2>3
  <2> QED
    BY <2>4 DEF k
<1>16. f[n + 1] = Append(literal, Slash)
  <2>1. n + 1 \in 0..(n + 1)
    BY <1>1
  <2>2. f[n + 1] = SubSeq(template, 1, n + 1)
    BY <1>14, <2>1
  <2> QED
    BY <1>3, <2>2
<1> QED
  BY <1>5, <1>11, <1>12, <1>15, <1>16 DEF template, enc

\* Escapes that decoding and encoding change, and those whose character a URI refuses.
Ambiguous == {"%25", "%2F", "@", "backslash", "[", "]"}

Unwritable == {"%3C", "%3E", "%60"}

\* What paths, patterns and encoded values are made of: nothing that ends the path or makes
\* the URI invalid.
Alphabet(T) ==
  /\ Slash \in T /\ CatchAll \in T
  /\ {"%", "%40", "%5B", "%5C", "%5D"} \subseteq T
  /\ T \cap (Refused \cup Delimiters) = {}

\* What TEMPLATE_ENCODE_SET leaves raw although a URI refuses it.
Wide(T) == T \cup {"<", ">", "backtick"}

\* Each escape stands for one character, and no two for the same.
LEMMA EscapesPair ==
  ASSUME NEW e \in Escapes
  PROVE  Decoded(e[1]) = e[2] /\ (e[2] \in TemplateEncodeSet => Encoded(e[2]) = e[1])
<1>1. \A d \in Escapes : d[1] = e[1] \/ d[2] = e[2] => d = e
  BY DEF Escapes, Slash
<1>2. (CHOOSE d \in Escapes : d[1] = e[1]) = e
  BY <1>1
<1>3. (CHOOSE d \in Escapes : d[2] = e[2]) = e
  BY <1>1
<1>4. Decoded(e[1]) = e[2]
  BY <1>2 DEF Decoded
<1> QED
  BY <1>3, <1>4 DEF Encoded

\* A character that a path has, decoded and encoded again: it keeps its value and never
\* becomes one that ends the path, but may be one that a URI refuses.
LEMMA Recoded ==
  ASSUME NEW x, x \notin Refused \cup Delimiters
  PROVE  /\ Decoded(Encoded(Decoded(x))) = Decoded(x)
         /\ Encoded(Decoded(x)) \in {x, "%", Slash, "%40", "%5B", "%5C", "%5D"} \cup Wide({})
         /\ x \in Unwritable => Encoded(Decoded(x)) \in Refused
         /\ x \notin Unwritable => Encoded(Decoded(x)) \notin Wide({})
         /\ x \notin Unwritable \cup Ambiguous => Encoded(Decoded(x)) = x
<1>1. CASE \A e \in Escapes : e[1] # x
  <2>1. Decoded(x) = x
    BY <1>1 DEF Decoded
  <2>2. x \notin Unwritable
    <3>1. <<"%3C", "<">> \in Escapes /\ <<"%3E", ">">> \in Escapes /\ <<"%60", "backtick">> \in Escapes
      BY DEF Escapes
    <3> QED
      BY <1>1, <3>1 DEF Unwritable
  <2>3. x \notin Wide({})
    BY DEF Wide, Refused
  <2>4. CASE x \notin TemplateEncodeSet
    <3>1. Encoded(x) = x
      BY <2>4 DEF Encoded
    <3> QED
      BY <2>1, <2>2, <2>3, <3>1
  <2>5. ASSUME NEW e \in Escapes, e[2] = x, x \in TemplateEncodeSet,
               e[1] \in {"%40", "%5B", "%5C", "%5D"}, x \in Ambiguous
        PROVE  /\ Decoded(Encoded(x)) = x /\ Encoded(x) \in {"%40", "%5B", "%5C", "%5D"}
               /\ Encoded(x) \notin Wide({})
    BY <2>5, EscapesPair DEF Wide
  <2>6. CASE x \in TemplateEncodeSet
    <3>1. x \in {"@", "backslash", "[", "]"}
      BY <2>6 DEF TemplateEncodeSet, Refused, Delimiters
    <3>2. \E e \in Escapes : e[2] = x /\ e[1] \in {"%40", "%5B", "%5C", "%5D"}
      <4>1. /\ <<"%40", "@">> \in Escapes /\ <<"%5C", "backslash">> \in Escapes
            /\ <<"%5B", "[">> \in Escapes /\ <<"%5D", "]">> \in Escapes
        BY DEF Escapes
      <4> QED
        BY <3>1, <4>1
    <3>3. x \in Ambiguous
      BY <3>1 DEF Ambiguous
    <3> QED
      BY <2>1, <2>2, <2>5, <2>6, <3>2, <3>3
  <2> QED
    BY <2>4, <2>6
<1>2. ASSUME NEW e \in Escapes, e[1] = x
      PROVE  /\ Decoded(Encoded(Decoded(x))) = Decoded(x)
             /\ Encoded(Decoded(x)) \in {x, "%", Slash} \cup Wide({})
             /\ x \in Unwritable => Encoded(Decoded(x)) \in Refused
             /\ x \notin Unwritable => Encoded(Decoded(x)) \notin Wide({})
             /\ x \notin Unwritable \cup Ambiguous => Encoded(Decoded(x)) = x
  <2>1. Decoded(x) = e[2]
    BY <1>2, EscapesPair
  <2>2. CASE e[2] \in TemplateEncodeSet
    <3>1. Encoded(e[2]) = x
      BY <1>2, <2>2, EscapesPair
    <3>2. x \notin Unwritable /\ x \notin Wide({})
      BY <1>2, <2>2 DEF Escapes, TemplateEncodeSet, Unwritable, Wide, Slash
    <3> QED
      BY <2>1, <3>1, <3>2
  <2>3. CASE e[2] \notin TemplateEncodeSet
    <3>1. Encoded(e[2]) = e[2]
      BY <2>3 DEF Encoded
    <3>2. \/ e[2] \in {"%", Slash} /\ x \in Ambiguous /\ x \notin Unwritable
          \/ e[2] \in Wide({}) /\ x \in Unwritable /\ e[2] \in Refused
      BY <1>2, <2>3 DEF Escapes, TemplateEncodeSet, Unwritable, Ambiguous, Wide, Refused, Slash
    <3>3. "%" \notin Wide({}) /\ Slash \notin Wide({})
      BY DEF Wide, Slash
    <3>4. \A d \in Escapes : d[1] # e[2]
      BY <2>3 DEF Escapes, TemplateEncodeSet, Slash
    <3>5. Decoded(e[2]) = e[2]
      BY <3>4 DEF Decoded
    <3> QED
      BY <2>1, <3>1, <3>2, <3>3, <3>5
  <2> QED
    BY <2>2, <2>3
<1> QED
  BY <1>1, <1>2

\* A path that begins with a slash is the slash and what follows.
LEMMA SlashAndTail ==
  ASSUME NEW T, NEW s \in Seq(T), Rooted(s)
  PROVE  Tail(s) \in Seq(T) /\ s = <<Slash>> \o Tail(s)
<1>1. Len(s) \in Nat /\ Len(s) >= 1 /\ s[1] = Slash
  BY RootedFirst
<1>2. /\ Tail(s) \in Seq(T) /\ Len(Tail(s)) = Len(s) - 1
      /\ \A i \in 1..(Len(s) - 1) : Tail(s)[i] = s[i + 1]
  BY <1>1
<1> DEFINE t == Tail(s)
           one == <<Slash>>
           u == one \o t
<1>3. Slash \in T
  BY <1>1
<1>4. one \in Seq(T) /\ Len(one) = 1 /\ one[1] = Slash
  BY <1>3
<1> HIDE DEF t, one
<1>5. t \in Seq(T) /\ Len(t) = Len(s) - 1 /\ \A i \in 1..(Len(s) - 1) : t[i] = s[i + 1]
  BY <1>2 DEF t
<1>6. u \in Seq(T) /\ Len(u) = Len(one) + Len(t)
      /\ \A i \in 1..Len(one) + Len(t) : u[i] = IF i <= Len(one) THEN one[i] ELSE t[i - Len(one)]
  <2>1. one \in Seq(T)
    BY <1>4
  <2>2. t \in Seq(T)
    BY <1>5
  <2> QED
    BY ONLY <2>1, <2>2, ConcatProperties
<1> HIDE DEF u
<1>7. Len(u) = Len(s) /\ \A i \in 1..Len(s) : u[i] = s[i]
  <2>1. Len(u) = Len(s)
    BY <1>1, <1>4, <1>5, <1>6
  <2> SUFFICES ASSUME NEW i \in 1..Len(s) PROVE u[i] = s[i]
    BY <2>1
  <2>2. u[i] = IF i <= 1 THEN one[i] ELSE t[i - 1]
    BY <1>1, <1>4, <1>5, <1>6
  <2>3. CASE i = 1
    BY <1>1, <1>4, <2>2, <2>3
  <2>4. CASE i > 1
    <3>1. i - 1 \in 1..(Len(s) - 1) /\ (i - 1) + 1 = i
      BY <1>1, <2>4
    <3>2. t[i - 1] = s[(i - 1) + 1]
      BY <1>5, <3>1
    <3> QED
      BY <2>2, <2>4, <3>1, <3>2
  <2> QED
    BY <2>3, <2>4
<1>8. u = s
  BY <1>1, <1>6, <1>7, SeqEqual
<1> QED
  BY <1>5, <1>8 DEF u, t, one

\* A slash more at the end.
LEMMA SlashAppended ==
  ASSUME NEW T, Slash \in T, NEW s \in Seq(T), s = <<>> \/ Rooted(s)
  PROVE  Append(s, Slash) \in Seq(T) /\ Rooted(Append(s, Slash))
<1> DEFINE u == Append(s, Slash)
<1>1. u \in Seq(T) /\ Len(u) >= 1 /\ u[1] = IF s = <<>> THEN Slash ELSE s[1]
  OBVIOUS
<1>2. s # <<>> => s[1] = Slash
  BY RootedFirst
<1> HIDE DEF u
<1>3. Rooted(u)
  BY <1>1, <1>2, RootedFirst
<1> QED
  BY <1>1, <1>3 DEF u

\* The value of a parameter, decoded and encoded again.
LEMMA RecodedAll ==
  ASSUME NEW T, Alphabet(T), NEW s \in Seq(T)
  PROVE  LET value == EncodedAll([i \in DOMAIN s |-> Decoded(s[i])])
         IN  /\ value \in Seq(Wide(T)) /\ Len(value) = Len(s)
             /\ \A i \in DOMAIN s : Decoded(value[i]) = Decoded(s[i])
             /\ \A i \in DOMAIN s : s[i] \in Unwritable => value[i] \in Refused
             /\ (\A i \in DOMAIN s : s[i] \notin Unwritable) => value \in Seq(T)
             /\ (\A i \in DOMAIN s : s[i] \notin Unwritable \cup Ambiguous) => value = s
<1> DEFINE enc == [i \in DOMAIN s |-> Encoded(Decoded(s[i]))]
           n == Len(s)
           W == Wide(T)
<1>1. EncodedAll([i \in DOMAIN s |-> Decoded(s[i])]) = enc
  BY DEF EncodedAll
<1>2. n \in Nat /\ DOMAIN s = 1..n /\ Len(s) = n /\ \A i \in 1..n : s[i] \in T
  BY ONLY s \in Seq(T)
<1>3. T \subseteq W
  BY DEF Wide
<1>4. ASSUME NEW i \in 1..n
      PROVE  /\ Encoded(Decoded(s[i])) \in W
             /\ Decoded(Encoded(Decoded(s[i]))) = Decoded(s[i])
             /\ s[i] \in Unwritable => Encoded(Decoded(s[i])) \in Refused
             /\ s[i] \notin Unwritable => Encoded(Decoded(s[i])) \in T
             /\ s[i] \notin Unwritable \cup Ambiguous => Encoded(Decoded(s[i])) = s[i]
  <2> DEFINE x == s[i]
             y == Encoded(Decoded(x))
  <2>1. x \in T /\ x \notin Refused \cup Delimiters
    BY <1>2 DEF Alphabet
  <2> HIDE DEF x
  <2>2. /\ Decoded(y) = Decoded(x)
        /\ y \in {x, "%", Slash, "%40", "%5B", "%5C", "%5D"} \cup Wide({})
        /\ x \in Unwritable => y \in Refused
        /\ x \notin Unwritable => y \notin Wide({})
        /\ x \notin Unwritable \cup Ambiguous => y = x
    BY ONLY <2>1, Recoded
  <2> HIDE DEF y
  <2>3. {x, "%", Slash, "%40", "%5B", "%5C", "%5D"} \subseteq T
    BY <2>1 DEF Alphabet
  <2>4. y \in T \cup Wide({})
    BY <2>2, <2>3
  <2>5. y \in W
    BY <2>4 DEF Wide
  <2> QED
    BY <2>2, <2>4, <2>5 DEF x, y
<1>5. enc = [i \in 1..n |-> Encoded(Decoded(s[i]))]
  BY <1>2
<1> HIDE DEF enc, n, W
<1>6. enc \in Seq(W) /\ Len(enc) = n /\ \A i \in 1..n : enc[i] = Encoded(Decoded(s[i]))
  BY ONLY <1>2, <1>4, <1>5
<1>7. ASSUME \A i \in 1..n : s[i] \notin Unwritable PROVE enc \in Seq(T)
  BY ONLY <1>2, <1>4, <1>5, <1>7
<1>8. ASSUME \A i \in 1..n : s[i] \notin Unwritable \cup Ambiguous PROVE enc = s
  <2>1. \A i \in 1..n : enc[i] = s[i]
    BY <1>4, <1>6, <1>8
  <2>2. s \in Seq(W)
    BY ONLY s \in Seq(T), <1>3
  <2> QED
    BY ONLY <1>2, <1>6, <2>1, <2>2, SeqEqual
<1> QED
  BY <1>1, <1>2, <1>4, <1>6, <1>7, <1>8 DEF W

\* A path is valid as long as nothing a URI refuses is in it, and nothing in it ends it.
LEMMA TokensValid ==
  ASSUME NEW T, Alphabet(T), NEW path \in Seq(Wide(T))
  PROVE  /\ ValidUri(path) <=> path \in Seq(T)
         /\ \A i \in DOMAIN path : path[i] \notin Delimiters
<1> DEFINE W == Wide(T)
<1>1. path \in Seq(W)
  OBVIOUS
<1>2. \A x \in W : x \notin Delimiters /\ (x \in Refused <=> x \notin T)
  BY DEF Alphabet, Wide, Refused, Delimiters
<1> HIDE DEF W
<1>3. \A i \in DOMAIN path : path[i] \in W
  BY <1>1
<1>4. ValidUri(path) <=> \A i \in DOMAIN path : path[i] \notin Refused
  BY DEF ValidUri, Range
<1>5. path \in Seq(T) <=> \A i \in DOMAIN path : path[i] \in T
  BY <1>1
<1> QED
  BY <1>2, <1>3, <1>4, <1>5

\* What TemplateCorrect says of a template's literal part.
Literal(literal, T) ==
  /\ literal \in Seq(T) /\ TrimEnd(literal) = literal /\ Placeholder \notin Range(literal)
  /\ literal = <<>> \/ Rooted(literal)

\* What precedes the parameter of a catch-all route.
RouteBase(base, T) == base \in Seq(T) /\ TrimEnd(base) = base /\ CatchAll \notin Range(base)

\* A template's URL is its literal part and the parameter, each character with its value.  It
\* is invalid only for an escape of a character that a URI refuses; when it is valid it is
\* the one the reference says, unless the parameter is written another way now.
Templated(T, base, literal, path) ==
  LET pattern == base \o <<Slash, CatchAll>>
      target == Append(literal, Slash)
      out == TemplateUri(pattern, literal \o <<Slash, Placeholder>>, path)
      sent == After(path, Append(base, Slash))
      given == After(out, target)
  IN  /\ out \in Seq(Wide(T)) /\ Rooted(out)
      /\ Unwritable \cap Range(path) = {} => ValidUri(out)
      /\ ValidUri(out) /\ Ambiguous \cap Range(path) = {} =>
           Segments(out) = ReferenceSegments(base, target, path)
      /\ IsPrefix(target, out) /\ Len(given) = Len(sent)
      /\ \A k \in DOMAIN sent : Decoded(given[k]) = Decoded(sent[k])

\* Every template's URL is what Templated says: what resolve builds never changes the
\* parameter's value, and only a character that a URI refuses makes it invalid.
LEMMA TemplateCorrect ==
  ASSUME NEW T, Alphabet(T), NEW base, RouteBase(base, T), NEW literal, Literal(literal, T),
         NEW path \in Seq(T), Rooted(path), CatchAllMatches(base \o <<Slash, CatchAll>>, path)
  PROVE  Templated(T, base, literal, path)
<1> DEFINE rest == StripRoutePrefix(path, RouteLiteralPrefix(base \o <<Slash, CatchAll>>))
           tail == Tail(rest)
           param == CatchAllParam(base \o <<Slash, CatchAll>>, path)
           enc == EncodedAll(param)
           target == Append(literal, Slash)
           W == Wide(T)
<1>1. Slash \in T
  BY DEF Alphabet
<1>2. base \in Seq(T)
  BY DEF RouteBase
<1>3. literal \in Seq(T)
  BY DEF Literal
<1>4. /\ rest \in Seq(T) /\ Rooted(rest) /\ path = base \o rest /\ ~AtRoot(base, path)
  BY RouteRest DEF Alphabet, RouteBase
<1>5. param = [i \in DOMAIN tail |-> Decoded(tail[i])]
  BY DEF CatchAllParam
<1>6. TemplateUri(base \o <<Slash, CatchAll>>, literal \o <<Slash, Placeholder>>, path)
        = Substitute(literal \o <<Slash, Placeholder>>, param)
  BY DEF TemplateUri
<1>7. T \subseteq W
  BY DEF Wide
<1> HIDE DEF rest
<1>8. rest \in Seq(T)
  BY <1>4
<1>9. Rooted(rest)
  BY <1>4
<1>10. tail \in Seq(T) /\ rest = <<Slash>> \o tail
  BY ONLY <1>8, <1>9, SlashAndTail
<1> HIDE DEF tail, param
<1>11. target \in Seq(T) /\ Rooted(target)
  BY ONLY <1>1, Literal(literal, T), SlashAppended DEF Literal
<1>12. /\ enc \in Seq(W) /\ Len(enc) = Len(tail)
       /\ \A i \in DOMAIN tail : Decoded(enc[i]) = Decoded(tail[i])
       /\ \A i \in DOMAIN tail : tail[i] \in Unwritable => enc[i] \in Refused
       /\ (\A i \in DOMAIN tail : tail[i] \notin Unwritable) => enc \in Seq(T)
       /\ (\A i \in DOMAIN tail : tail[i] \notin Unwritable \cup Ambiguous) => enc = tail
  <2>1. tail \in Seq(T)
    BY <1>10
  <2>2. Alphabet(T)
    OBVIOUS
  <2> QED
    BY ONLY <1>5, <2>1, <2>2, RecodedAll
<1> HIDE DEF W
<1>13. Substitute(literal \o <<Slash, Placeholder>>, param) = target \o enc
  <2>1. enc \in Seq(W)
    BY <1>12
  <2>2. Placeholder \notin Range(literal)
    BY DEF Literal
  <2>3. Slash \in W
    BY <1>1, <1>7
  <2>4. literal \in Seq(W)
    BY ONLY <1>3, <1>7
  <2> QED
    BY ONLY <2>1, <2>2, <2>3, <2>4, SubstituteBuilds
<1>14. TrimEnd(target) = literal
  <2>1. TrimEnd(literal) = literal
    BY DEF Literal
  <2> QED
    BY ONLY <1>1, <1>3, <2>1, TrimEndOfSlash
<1> HIDE DEF enc
<1> DEFINE out == target \o enc
<1>15. path = Append(base, Slash) \o tail
  <2>1. tail \in Seq(T)
    BY <1>10
  <2>2. base \o (<<Slash>> \o tail) = Append(base, Slash) \o tail
    BY ONLY <1>1, <1>2, <2>1, ConcatOfHead
  <2> QED
    BY <1>4, <1>10, <2>2
<1>16. target \o tail = literal \o rest
  <2>1. literal \o (<<Slash>> \o tail) = Append(literal, Slash) \o tail
    BY ONLY <1>1, <1>3, <1>10, ConcatOfHead
  <2> QED
    BY <1>10, <2>1
<1> HIDE DEF target
<1>17. target \in Seq(T)
  BY <1>11
<1>18. target \in Seq(W)
  BY ONLY <1>7, <1>17
<1>19. enc \in Seq(W)
  BY <1>12
<1>20. out \in Seq(W) /\ Rooted(out)
  <2>1. Rooted(target)
    BY <1>11
  <2>2. Rooted(out)
    BY ONLY <1>18, <1>19, <2>1, RootedConcat
  <2>3. out \in Seq(W)
    BY ONLY <1>18, <1>19
  <2> QED
    BY <2>2, <2>3
<1>21. IsPrefix(target, out) /\ After(out, target) = enc
  BY ONLY <1>18, <1>19, AfterConcat
<1>22. After(path, Append(base, Slash)) = tail
  <2>1. Append(base, Slash) \in Seq(T) /\ tail \in Seq(T)
    BY <1>1, <1>2, <1>10
  <2>2. After(Append(base, Slash) \o tail, Append(base, Slash)) = tail
    BY ONLY <2>1, AfterConcat
  <2> QED
    BY <1>15, <2>2
<1>23. \A i \in DOMAIN tail : tail[i] \in Range(path)
  <2>1. tail \in Seq(T)
    BY <1>10
  <2>2. \A i \in DOMAIN tail : tail[i] \in Range(base \o (<<Slash>> \o tail))
    BY ONLY <1>1, <1>2, <2>1, TokensOfRest
  <2> QED
    BY <1>4, <1>10, <2>2
<1>24. ValidUri(out) <=> out \in Seq(T)
  BY <1>20, TokensValid DEF W
<1>25. ASSUME Unwritable \cap Range(path) = {} PROVE ValidUri(out)
  <2>1. \A i \in DOMAIN tail : tail[i] \notin Unwritable
    BY <1>23, <1>25
  <2>2. enc \in Seq(T)
    BY <1>12, <2>1
  <2>3. out \in Seq(T)
    BY ONLY <1>17, <2>2
  <2> QED
    BY <1>24, <2>3
<1>26. ASSUME ValidUri(out), Ambiguous \cap Range(path) = {}
       PROVE  Segments(out) = ReferenceSegments(base, target, path)
  <2>1. enc = tail
    <3>1. ASSUME NEW i \in DOMAIN tail PROVE tail[i] \notin Unwritable
      <4>1. Len(target) \in Nat /\ DOMAIN tail = 1..Len(tail) /\ DOMAIN out = 1..Len(out)
        BY <1>10, <1>17, <1>20
      <4>2. Len(target) + i \in DOMAIN out /\ out[Len(target) + i] = enc[i]
        <5>1. i \in 1..Len(enc)
          BY <1>12, <4>1
        <5> QED
          BY ONLY <1>18, <1>19, <5>1
      <4>3. enc[i] \notin Refused
        BY <1>26, <4>2 DEF ValidUri, Range
      <4> QED
        BY <1>12, <4>3
    <3>2. \A i \in DOMAIN tail : tail[i] \notin Ambiguous
      BY <1>23, <1>26
    <3> QED
      BY <1>12, <3>1, <3>2
  <2>2. Rooted(target)
    BY <1>11
  <2>3. Segments(TrimEnd(target) \o rest) = Segments(TrimEnd(target)) \o Segments(rest)
    BY ONLY <1>1, <1>8, <1>9, <1>17, <2>2, JoinedRest
  <2>4. TrimEnd(base) = base
    BY DEF RouteBase
  <2>5. ~AtRoot(base, TrimEnd(base) \o rest)
    BY <1>4, <2>4
  <2>6. ReferenceSegments(base, target, TrimEnd(base) \o rest)
          = Segments(TrimEnd(target)) \o Segments(rest)
    BY ONLY <1>2, <1>8, <1>9, <1>17, <2>5, ReferenceBelow
  <2>7. ReferenceSegments(base, target, path) = Segments(TrimEnd(target)) \o Segments(rest)
    BY <1>4, <2>4, <2>6
  <2> QED
    BY <1>14, <1>16, <2>1, <2>3, <2>7
<1> HIDE DEF out
<1> QED
  BY <1>6, <1>12, <1>13, <1>20, <1>21, <1>22, <1>25, <1>26 DEF Templated, target, out, W

--------------------------------------------------------------------------------
(* The upstream URI of a hop *)

\* The tokens a URI's path is made of.
Tokens ==
  (STRING \cup {Slash, CatchAll, "%", "%40", "%5B", "%5C", "%5D"}) \ (Refused \cup Delimiters)

\* The separators are tokens.
LEMMA TokensAlphabet == Alphabet(Tokens)
<1>1. \A x \in {Slash, CatchAll, "%", "%40", "%5B", "%5C", "%5D"} : x \notin Refused \cup Delimiters
  BY DEF Slash, CatchAll, Refused, Delimiters
<1> QED
  BY <1>1 DEF Alphabet, Tokens

\* A path that is written out.
LEMMA WrittenTokens ==
  ASSUME NEW path, WrittenPath(path)
  PROVE  path \in Seq(Tokens) /\ Rooted(path)
<1>1. path \in Seq(STRING) /\ Range(path) \cap (Refused \cup Delimiters) = {}
  BY DEF WrittenPath
<1>2. STRING \ (Refused \cup Delimiters) \subseteq Tokens
  BY DEF Tokens
<1>3. path \in Seq(Tokens)
  BY ONLY <1>1, <1>2, SeqWithout
<1> QED
  BY <1>3 DEF WrittenPath, Rooted

\* The literal part of a template.
LEMMA TemplateLiteral ==
  ASSUME NEW T, NEW template \in Seq(T), Rooted(template), EndsInParameter(template)
  PROVE  \E literal : /\ Literal(literal, T)
                      /\ template = literal \o <<Slash, Placeholder>>
                      /\ Front(template) = Append(literal, Slash)
<1> DEFINE n == Len(template) - 2
           literal == SubSeq(template, 1, n)
           two == <<Slash, Placeholder>>
<1>1. /\ template = literal \o two
      /\ TrimEnd(literal) = literal
      /\ Placeholder \notin Range(literal)
  BY DEF EndsInParameter
<1>2. Len(template) \in Nat
  OBVIOUS
<1>3. Len(template) >= 2
  <2>1. literal \in Seq(T)
    OBVIOUS
  <2>2. Len(two) = 2 /\ two \in Seq({Slash, Placeholder})
    OBVIOUS
  <2> DEFINE P == T \cup {Slash, Placeholder}
  <2>3. literal \in Seq(P) /\ two \in Seq(P)
    BY <2>1, <2>2
  <2> HIDE DEF literal, two, P, n
  <2>4. Len(literal \o two) = Len(literal) + Len(two) /\ Len(literal) \in Nat
    BY <2>3
  <2> QED
    BY <1>1, <2>2, <2>4
<1>4. n \in 0..Len(template)
  BY <1>2, <1>3
<1>5. /\ literal \in Seq(T) /\ Len(literal) = n
      /\ \A i \in 1..n : literal[i] = template[i]
  BY ONLY <1>4, template \in Seq(T), Taken
<1> HIDE DEF literal, n
<1>6. literal = <<>> \/ Rooted(literal)
  <2>1. template[1] = Slash
    BY RootedFirst
  <2>2. CASE n >= 1
    <3>1. 1 \in 1..n
      BY <1>2, <1>4, <2>2
    <3>2. Len(literal) >= 1 /\ literal[1] = Slash
      BY <1>5, <2>1, <2>2, <3>1
    <3>3. literal \in Seq(T)
      BY <1>5
    <3> QED
      BY ONLY <3>2, <3>3, RootedFirst
  <2>3. CASE n = 0
    BY <1>5, <2>3
  <2> QED
    BY <1>2, <1>4, <2>2, <2>3
<1>7. Front(template) = Append(literal, Slash)
  <2> DEFINE P == T \cup {Slash, Placeholder}
             u == literal \o <<Slash, Placeholder>>
  <2>1. literal \in Seq(P) /\ Slash \in P /\ Placeholder \in P
    BY <1>5
  <2> HIDE DEF P
  <2>2. Len(u) = Len(literal) + 2 /\ SubSeq(u, 1, Len(literal) + 1) = Append(literal, Slash)
    BY ONLY <2>1, TwoMore
  <2>3. Len(literal) \in Nat
    BY <1>5
  <2>4. Len(u) - 1 = Len(literal) + 1
    BY <2>2, <2>3
  <2>5. template = u
    BY <1>1
  <2> HIDE DEF u
  <2> QED
    BY <2>2, <2>4, <2>5 DEF Front
<1> QED
  BY <1>1, <1>5, <1>6, <1>7 DEF Literal

\* What a nested service sees begins with a slash.
LEMMA SeenRooted ==
  ASSUME NEW T, Slash \in T, NEW base \in Seq(T), NEW path \in Seq(T), NestMatches(base, path)
  PROVE  NestStripped(base, path) \in Seq(T) /\ Rooted(NestStripped(base, path))
<1>1. CASE path = base
  <2> DEFINE one == <<Slash>>
  <2>1. one \in Seq(T) /\ Len(one) = 1 /\ one[1] = Slash
    OBVIOUS
  <2>2. NestStripped(base, path) = one
    BY <1>1 DEF NestStripped
  <2> HIDE DEF one
  <2>3. Rooted(one)
    BY <2>1, RootedFirst
  <2> QED
    BY <2>1, <2>2, <2>3
<1>2. CASE path # base
  <2>1. /\ AtBoundary(path, base) /\ Len(path) > Len(base) + 1
        /\ NestStripped(base, path) = After(path, base)
    BY <1>2 DEF NestMatches, NestStripped
  <2> DEFINE a == After(path, base)
  <2>2. a \in Seq(T) /\ Len(a) = Len(path) - Len(base) /\ (a = <<>> \/ Rooted(a))
    BY <2>1, BoundarySplits
  <2> HIDE DEF a
  <2>3. a # <<>>
    <3>1. Len(path) \in Nat /\ Len(base) \in Nat
      OBVIOUS
    <3>2. a = <<>> => Len(a) = 0
      OBVIOUS
    <3> QED
      BY <2>1, <2>2, <3>1, <3>2
  <2> QED
    BY <2>1, <2>2, <2>3 DEF a
<1> QED
  BY <1>1, <1>2

\* What a mount is made of, in tokens.
LEMMA MountPaths ==
  ASSUME NEW s \in DOMAIN Servers
  PROVE  /\ Base(Servers[s].base, Tokens)
         /\ Nested(Servers[s]) \/ ~IsProxy(Servers[s]) => RouteBase(Servers[s].base, Tokens)
         /\ \A i \in DOMAIN Servers[s].targets :
              /\ Servers[s].targets[i].path \in Seq(Tokens)
              /\ Rooted(Servers[s].targets[i].path)
              /\ Servers[s].style = "template" => EndsInParameter(Servers[s].targets[i].path)
<1>1. /\ Servers[s].base = <<>> \/ WrittenPath(Servers[s].base)
      /\ Nested(Servers[s]) \/ ~IsProxy(Servers[s]) =>
           TrimEnd(Servers[s].base) = Servers[s].base /\ CatchAll \notin Range(Servers[s].base)
      /\ \A i \in DOMAIN Servers[s].targets :
           /\ WrittenPath(Servers[s].targets[i].path)
           /\ Servers[s].style = "template" => EndsInParameter(Servers[s].targets[i].path)
  BY PathsAssumption
<1>2. <<>> \in Seq(Tokens)
  OBVIOUS
<1>3. Base(Servers[s].base, Tokens)
  BY <1>1, <1>2, WrittenTokens DEF Base
<1> QED
  BY <1>1, <1>3, WrittenTokens DEF RouteBase, Base

\* A hop as Forward takes it.
Right(hop) == StrippedTwice(hop) \/ Reencoded(hop) \/ FollowsReference(hop)

\* The query is the request's, or a route's own.
LEMMA QueryRight ==
  ASSUME NEW mount, NEW target, NEW r, IsProxy(mount) \/ mount.style = "route"
  PROVE  LET out == UpstreamFor(mount, target, r)
         IN  out.query = r.query \/ (~IsProxy(mount) /\ out.query = target.query)
<1>1. CASE IsProxy(mount)
  <2>1. mount.style \notin {"route", "template"}
    BY <1>1 DEF IsProxy
  <2> QED
    BY <1>1, <2>1 DEF UpstreamFor
<1>2. CASE ~IsProxy(mount) /\ mount.style = "route"
  BY <1>2 DEF UpstreamFor, OrElse
<1> QED
  BY <1>1, <1>2

\* The upstream URI of a ReverseProxy that is not nested.
LEMMA PlainRight ==
  ASSUME NEW s \in DOMAIN Servers, NEW i \in DOMAIN Servers[s].targets,
         IsProxy(Servers[s]), ~Nested(Servers[s]),
         NEW r, r.path \in Seq(Tokens), Rooted(r.path)
  PROVE  LET target == Servers[s].targets[i]
             out == UpstreamFor(Servers[s], target, r)
         IN  /\ Segments(out.path) = ReferenceSegments(Servers[s].base, target.path, r.path)
             /\ out.path \in Seq(Tokens) /\ Rooted(out.path)
<1> DEFINE mount == Servers[s]
           target == Servers[s].targets[i]
<1>1. UpstreamFor(mount, target, r).path = TransformUri(mount.base, target.path, r.path)
  BY DEF UpstreamFor, Seen, IsProxy
<1>2. Base(mount.base, Tokens) /\ target.path \in Seq(Tokens) /\ Rooted(target.path)
  BY MountPaths
<1>3. Slash \in Tokens
  BY TokensAlphabet DEF Alphabet
<1> HIDE DEF mount, target
<1>4. /\ Segments(TransformUri(mount.base, target.path, r.path))
           = ReferenceSegments(mount.base, target.path, r.path)
      /\ TransformUri(mount.base, target.path, r.path) \in Seq(Tokens)
      /\ Rooted(TransformUri(mount.base, target.path, r.path))
  <2>1. target.path \in Seq(Tokens)
    BY <1>2
  <2>2. Base(mount.base, Tokens) /\ Rooted(target.path)
    BY <1>2
  <2>3. r.path \in Seq(Tokens) /\ Rooted(r.path)
    OBVIOUS
  <2> QED
    BY ONLY <1>3, <2>1, <2>2, <2>3, TransformCorrect
<1> QED
  BY <1>1, <1>4 DEF mount, target

\* The upstream URI of a nested ReverseProxy, which is the reference's unless it strips twice.
LEMMA NestedRight ==
  ASSUME NEW s \in DOMAIN Servers, NEW i \in DOMAIN Servers[s].targets, Nested(Servers[s]),
         NEW r, r.path \in Seq(Tokens), Rooted(r.path), NestMatches(Servers[s].base, r.path)
  PROVE  LET mount == Servers[s]
             target == mount.targets[i]
             out == UpstreamFor(mount, target, r)
         IN  /\ \/ AtBoundary(Seen(mount, r.path), mount.base)
                \/ Segments(out.path) = ReferenceSegments(mount.base, target.path, r.path)
             /\ out.path \in Seq(Tokens) /\ Rooted(out.path)
<1> DEFINE base == Servers[s].base
           target == Servers[s].targets[i].path
           path == r.path
           T == Tokens
           seen == NestStripped(base, path)
           out == TransformUri(base, target, seen)
<1>1. /\ UpstreamFor(Servers[s], Servers[s].targets[i], r).path = out
      /\ Seen(Servers[s], r.path) = seen
  BY DEF UpstreamFor, Seen, Nested, IsProxy
<1>2. /\ Base(base, T) /\ RouteBase(base, T) /\ target \in Seq(T) /\ Rooted(target)
      /\ base \notin {<<>>, <<Slash>>}
  BY MountPaths DEF Nested
<1>3. Slash \in T
  BY TokensAlphabet DEF Alphabet
<1>4. path \in Seq(T) /\ Rooted(path) /\ NestMatches(base, path)
  OBVIOUS
<1> HIDE DEF base, target, path, T
<1>5. path \in Seq(T)
  BY <1>4
<1>6. base \in Seq(T) /\ TrimEnd(base) = base
  BY <1>2 DEF RouteBase
<1>7. target \in Seq(T)
  BY <1>2
<1>8. seen \in Seq(T) /\ Rooted(seen)
  <2>1. base \in Seq(T)
    BY <1>6
  <2>2. NestMatches(base, path)
    BY <1>4
  <2> QED
    BY ONLY <1>3, <1>5, <2>1, <2>2, SeenRooted
<1>9. out \in Seq(T) /\ Rooted(out)
  <2>1. seen \in Seq(T)
    BY <1>8
  <2>2. Rooted(seen) /\ Rooted(target) /\ Base(base, T)
    BY <1>2, <1>8
  <2> QED
    BY ONLY <1>3, <1>7, <2>1, <2>2, TransformCorrect
<1>10. ASSUME ~AtBoundary(seen, base)
       PROVE  Segments(out) = ReferenceSegments(base, target, path)
  BY ONLY <1>2, <1>3, <1>4, <1>5, <1>6, <1>7, <1>10, NestedCorrect
<1> HIDE DEF out, seen
<1>11. AtBoundary(seen, base) \/ Segments(out) = ReferenceSegments(base, target, path)
  BY <1>10
<1> QED
  BY <1>1, <1>9, <1>11 DEF base, target, path, T

\* The upstream URI of a route with a base URL.
LEMMA RouteRight ==
  ASSUME NEW s \in DOMAIN Servers, NEW i \in DOMAIN Servers[s].targets, Servers[s].style = "route",
         NEW r, r.path \in Seq(Tokens), Rooted(r.path), CatchAllMatches(Pattern(Servers[s]), r.path)
  PROVE  LET target == Servers[s].targets[i]
             out == UpstreamFor(Servers[s], target, r)
         IN  /\ Segments(out.path) = ReferenceSegments(Servers[s].base, target.path, r.path)
             /\ out.path \in Seq(Tokens) /\ Rooted(out.path)
<1> DEFINE base == Servers[s].base
           target == Servers[s].targets[i].path
           path == r.path
           T == Tokens
           out == RouteUri(base \o <<Slash, CatchAll>>, target, path)
<1>1. ~IsProxy(Servers[s])
  BY DEF IsProxy
<1>2. UpstreamFor(Servers[s], Servers[s].targets[i], r).path = out
  BY <1>1 DEF UpstreamFor, Pattern
<1>3. RouteBase(base, T) /\ target \in Seq(T) /\ Rooted(target)
  BY <1>1, MountPaths
<1>4. Slash \in T /\ CatchAll \in T
  BY TokensAlphabet DEF Alphabet
<1>5. path \in Seq(T) /\ Rooted(path) /\ CatchAllMatches(base \o <<Slash, CatchAll>>, path)
  BY DEF Pattern
<1> HIDE DEF base, target, path, T
<1>6. path \in Seq(T)
  BY <1>5
<1>7. target \in Seq(T)
  BY <1>3
<1>8. base \in Seq(T)
  BY <1>3 DEF RouteBase
<1>9. TrimEnd(base) = base /\ CatchAll \notin Range(base)
  BY <1>3 DEF RouteBase
<1>10. Segments(out) = ReferenceSegments(base, target, path) /\ out \in Seq(T) /\ Rooted(out)
  BY ONLY <1>3, <1>4, <1>5, <1>6, <1>7, <1>8, <1>9, RouteCorrect
<1> QED
  BY <1>2, <1>10 DEF base, target, path, T

\* A URL in which nothing ends the path is parsed as it is written.
LEMMA ParsedAsWritten ==
  ASSUME NEW written, NEW query, \A i \in DOMAIN written : written[i] \notin Delimiters
  PROVE  ParsedUri(written, query) = [path |-> written, query |-> query]
<1>1. {i \in DOMAIN written : written[i] \in Delimiters} = {}
  OBVIOUS
<1> QED
  BY <1>1 DEF ParsedUri

\* The upstream URI of a template, which is the reference's when it is valid, unless the
\* parameter is written another way now; in any case it has the parameter's value.
LEMMA TemplateRight ==
  ASSUME NEW s \in DOMAIN Servers, NEW i \in DOMAIN Servers[s].targets,
         Servers[s].style = "template",
         NEW r, r.path \in Seq(Tokens), Rooted(r.path), CatchAllMatches(Pattern(Servers[s]), r.path)
  PROVE  LET target == Servers[s].targets[i]
             out == UpstreamFor(Servers[s], target, r)
         IN  /\ out.path \in Seq(Wide(Tokens)) /\ Rooted(out.path)
             /\ Unwritable \cap Range(r.path) = {} => ValidUri(out.path)
             /\ ValidUri(out.path) /\ Ambiguous \cap Range(r.path) = {} =>
                  Segments(out.path) = ReferenceSegments(Servers[s].base, Front(target.path), r.path)
             /\ out.query = OrElse(target.query, r.query)
             /\ ParameterStaysInPath([server |-> s, target |-> target, in |-> r, out |-> out])
<1> DEFINE base == Servers[s].base
           template == Servers[s].targets[i].path
           own == Servers[s].targets[i].query
           path == r.path
           T == Tokens
           pattern == base \o <<Slash, CatchAll>>
           out == TemplateUri(pattern, template, path)
           upstream == UpstreamFor(Servers[s], Servers[s].targets[i], r)
           hop == [server |-> s, target |-> Servers[s].targets[i], in |-> r, out |-> upstream]
           sent == After(path, Append(base, Slash))
           given == After(out, Front(template))
<1>1. ~IsProxy(Servers[s]) /\ Servers[s].style # "route"
  BY DEF IsProxy
<1>2. upstream = [path  |-> ParsedUri(out, own).path,
                  query |-> OrElse(ParsedUri(out, own).query, r.query)]
  BY <1>1 DEF UpstreamFor, Pattern
<1>3. RouteBase(base, T) /\ template \in Seq(T) /\ Rooted(template) /\ EndsInParameter(template)
  BY <1>1, MountPaths
<1>4. Alphabet(T)
  BY TokensAlphabet
<1>5. path \in Seq(T) /\ Rooted(path) /\ CatchAllMatches(pattern, path)
  BY DEF Pattern
<1>6. /\ hop.server = s /\ hop.target.path = template /\ hop.target.query = own
      /\ hop.in = r /\ hop.out = upstream
  OBVIOUS
<1> HIDE DEF base, template, path, T, own, upstream, hop
<1>7. template \in Seq(T)
  BY <1>3
<1>8. PICK literal : /\ Literal(literal, T)
                     /\ template = literal \o <<Slash, Placeholder>>
                     /\ Front(template) = Append(literal, Slash)
  BY ONLY <1>3, <1>7, TemplateLiteral
<1> DEFINE built == TemplateUri(pattern, literal \o <<Slash, Placeholder>>, path)
           target == Append(literal, Slash)
<1>9. /\ built \in Seq(Wide(T)) /\ Rooted(built)
      /\ Unwritable \cap Range(path) = {} => ValidUri(built)
      /\ ValidUri(built) /\ Ambiguous \cap Range(path) = {} =>
           Segments(built) = ReferenceSegments(base, target, path)
      /\ IsPrefix(target, built) /\ Len(After(built, target)) = Len(sent)
      /\ \A k \in DOMAIN sent : Decoded(After(built, target)[k]) = Decoded(sent[k])
  <2>1. RouteBase(base, T)
    BY <1>3
  <2>2. Literal(literal, T)
    BY <1>8
  <2>3. Rooted(path) /\ CatchAllMatches(pattern, path)
    BY <1>5
  <2>4. path \in Seq(T)
    BY <1>5
  <2>5. Templated(T, base, literal, path)
    BY ONLY <1>4, <2>1, <2>2, <2>3, <2>4, TemplateCorrect DEF pattern
  <2> QED
    BY ONLY <2>5 DEF Templated, built, target, sent, pattern
<1>10. built = out /\ target = Front(template)
  BY <1>8
<1> HIDE DEF built, target, pattern, out, sent
<1>11. \A j \in DOMAIN out : out[j] \notin Delimiters
  <2>1. out \in Seq(Wide(T))
    BY <1>9, <1>10
  <2> QED
    BY ONLY <1>4, <2>1, TokensValid
<1>12. ParsedUri(out, own) = [path |-> out, query |-> own]
  BY ONLY <1>11, ParsedAsWritten
<1>13. upstream.path = out /\ upstream.query = OrElse(own, r.query)
  BY <1>2, <1>12
<1>14. ParameterStaysInPath(hop)
  <2>1. /\ IsPrefix(Front(template), out) /\ Len(given) = Len(sent)
        /\ \A k \in DOMAIN sent : Decoded(given[k]) = Decoded(sent[k])
    BY <1>9, <1>10
  <2> QED
    BY <1>6, <1>13, <2>1 DEF ParameterStaysInPath, sent, base, path
<1> QED
  BY <1>9, <1>10, <1>13, <1>14 DEF base, template, path, T, own, upstream, hop

\* What Forward does to the path.
LEMMA PathTaken ==
  ASSUME IInv, Forward
  PROVE  LET uri == UpstreamFor(Mount, Target(at), req)
             hop == [server |-> at, target |-> Target(at), in |-> req, out |-> uri]
         IN  req'.path = uri.path /\ trail' = Append(trail, hop)
<1> DEFINE uri == UpstreamFor(Mount, Target(at), req)
           hop == [server |-> at, target |-> Target(at), in |-> req, out |-> uri]
<1>1. DOMAIN req = {"path", "query", "host", "authority", "xff", "fwd", "xfh", "xfp",
                    "nominated", "size", "declared"}
  BY DEF IInv, RequestInv, ScenarioInv, RequestRecords
<1>2. trail' = Append(trail, hop)
  BY DEF Forward
<1>3. PICK authority \in {NoValue, Target(at).server} :
         req' = [req EXCEPT !.path = uri.path, !.query = uri.query,
                            !.host = Fields.host, !.authority = authority,
                            !.xff = Fields.xff, !.fwd = Fields.fwd,
                            !.xfh = Fields.xfh, !.xfp = Fields.xfp,
                            !.nominated = {}]
  BY DEF Forward, Fields
<1> HIDE DEF uri, hop
<1>4. req'.path = uri.path
  BY <1>1, <1>3
<1> QED
  BY <1>2, <1>4 DEF uri, hop

\* Every way to mount a proxy: when the URL is valid, the path is rewritten as the reference
\* says, to another path of tokens; and it is valid, but for a template's parameter with an
\* escape of a character that a URI refuses.
LEMMA HopRight ==
  ASSUME NEW s \in DOMAIN Servers, NEW i \in DOMAIN Servers[s].targets,
         NEW r, r.path \in Seq(Tokens), Rooted(r.path), Matches(Servers[s], r.path)
  PROVE  LET target == Servers[s].targets[i]
             out == UpstreamFor(Servers[s], target, r)
             hop == [server |-> s, target |-> target, in |-> r, out |-> out]
         IN  /\ ValidUri(out.path) => Right(hop) /\ out.path \in Seq(Tokens) /\ Rooted(out.path)
             /\ Servers[s].style = "template" => ParameterStaysInPath(hop)
             /\ IsProxy(Servers[s]) \/ Unwritable \cap Range(r.path) = {} => ValidUri(out.path)
<1> DEFINE mount == Servers[s]
           target == mount.targets[i]
           out == UpstreamFor(mount, target, r)
           hop == [server |-> s, target |-> target, in |-> r, out |-> out]
<1>1. hop.server = s /\ hop.target = target /\ hop.in = r /\ hop.out = out
  OBVIOUS
<1>2. mount.style # "template" =>
        hop.out.query = hop.in.query \/ (~IsProxy(mount) /\ hop.out.query = hop.target.query)
  <2>1. mount.style # "template" => IsProxy(mount) \/ mount.style = "route"
    BY ServersAssumption DEF IsProxy
  <2> QED
    BY <2>1, QueryRight
<1>3. mount.style \in {"fallback", "router", "route", "template"}
  BY ServersAssumption
<1>4. ASSUME NEW path \in Seq(Tokens) PROVE ValidUri(path)
  <2>1. path \in Seq(Wide(Tokens))
    BY DEF Wide
  <2> QED
    BY <2>1, TokensAlphabet, TokensValid
<1>5. CASE IsProxy(mount) /\ ~Nested(mount)
  <2>1. Segments(out.path) = ReferenceSegments(mount.base, target.path, r.path)
        /\ out.path \in Seq(Tokens) /\ Rooted(out.path)
    BY <1>5, PlainRight
  <2>2. mount.style # "template"
    BY <1>5 DEF IsProxy
  <2> HIDE DEF out, hop
  <2>3. FollowsReference(hop)
    BY <1>1, <1>2, <2>1, <2>2 DEF FollowsReference
  <2> QED
    BY <1>4, <2>1, <2>2, <2>3 DEF Right, hop, out
<1>6. CASE Nested(mount)
  <2>1. NestMatches(mount.base, r.path)
    BY <1>6 DEF Matches, Nested, IsProxy
  <2>2. /\ AtBoundary(Seen(mount, r.path), mount.base)
            \/ Segments(out.path) = ReferenceSegments(mount.base, target.path, r.path)
        /\ out.path \in Seq(Tokens) /\ Rooted(out.path)
    BY <1>6, <2>1, NestedRight
  <2>3. mount.style # "template"
    BY <1>6 DEF Nested
  <2> HIDE DEF out, hop
  <2>4. StrippedTwice(hop) \/ FollowsReference(hop)
    BY <1>1, <1>2, <1>6, <2>2, <2>3 DEF FollowsReference, StrippedTwice
  <2> QED
    BY <1>4, <2>2, <2>3, <2>4 DEF Right, hop, out
<1>7. CASE mount.style = "route"
  <2>1. CatchAllMatches(Pattern(mount), r.path)
    BY <1>7 DEF Matches, IsProxy
  <2>2. Segments(out.path) = ReferenceSegments(mount.base, target.path, r.path)
        /\ out.path \in Seq(Tokens) /\ Rooted(out.path)
    BY <1>7, <2>1, RouteRight
  <2>3. mount.style # "template"
    BY <1>7
  <2> HIDE DEF out, hop
  <2>4. FollowsReference(hop)
    BY <1>1, <1>2, <2>2, <2>3 DEF FollowsReference
  <2> QED
    BY <1>4, <2>2, <2>3, <2>4 DEF Right, hop, out
<1>8. CASE mount.style = "template"
  <2>1. CatchAllMatches(Pattern(mount), r.path)
    BY <1>8 DEF Matches, IsProxy
  <2>2. /\ out.path \in Seq(Wide(Tokens)) /\ Rooted(out.path)
        /\ Unwritable \cap Range(r.path) = {} => ValidUri(out.path)
        /\ ValidUri(out.path) /\ Ambiguous \cap Range(r.path) = {} =>
             Segments(out.path) = ReferenceSegments(mount.base, Front(target.path), r.path)
        /\ out.query = OrElse(target.query, r.query)
        /\ ParameterStaysInPath(hop)
    BY <1>8, <2>1, TemplateRight
  <2>3. ~IsProxy(mount)
    BY <1>8 DEF IsProxy
  <2> HIDE DEF out, hop
  <2>4. ValidUri(out.path) => out.path \in Seq(Tokens)
    BY <2>2, TokensAlphabet, TokensValid
  <2>5. ValidUri(out.path) => Reencoded(hop) \/ FollowsReference(hop)
    <3>1. hop.out.query = hop.in.query \/ hop.out.query = hop.target.query
      BY <1>1, <2>2 DEF OrElse
    <3> QED
      BY <1>1, <1>8, <2>2, <2>3, <3>1 DEF FollowsReference, Reencoded, Ambiguous
  <2> QED
    BY <2>2, <2>3, <2>4, <2>5 DEF Right, hop, out
<1> QED
  BY <1>3, <1>5, <1>6, <1>7, <1>8 DEF IsProxy

\* The path stays one a URI can have, and was what the mounts made of it.
PathInv ==
  /\ req.path \in Seq(Tokens) /\ Rooted(req.path)
  /\ UpstreamUriCorrect

\* A hop more.
LEMMA ForwardPath ==
  ASSUME IInv, PathInv, Forward
  PROVE  PathInv'
<1> DEFINE uri == UpstreamFor(Mount, Target(at), req)
           hop == [server |-> at, target |-> Target(at), in |-> req, out |-> uri]
           IsTemplate(s) == Servers[s].style = "template"
<1>1. req'.path = uri.path /\ trail' = Append(trail, hop)
  BY PathTaken
<1>2. Ready /\ status' = 0
  BY HopTaken
<1>3. /\ at \in DOMAIN Servers
      /\ \E i \in DOMAIN Servers[at].targets : Target(at) = Servers[at].targets[i]
  BY <1>2, TargetNamed
<1>4. Matches(Servers[at], req.path)
  BY <1>2 DEF Ready, Mount
<1>5. /\ ValidUri(uri.path) => Right(hop) /\ uri.path \in Seq(Tokens) /\ Rooted(uri.path)
      /\ IsTemplate(at) => ParameterStaysInPath(hop)
      /\ IsProxy(Servers[at]) => ValidUri(uri.path)
  BY <1>3, <1>4, HopRight DEF PathInv, Mount
<1>6. ValidUri(uri.path)
  BY <1>2, <1>5 DEF Ready, Resolvable, Mount
<1>7. hop.server = at
  OBVIOUS
<1> HIDE DEF hop
<1>8. \A i \in DOMAIN trail' : (i \in DOMAIN trail /\ trail'[i] = trail[i]) \/ trail'[i] = hop
  <2> DEFINE T == Range(trail) \cup {hop}
             old == trail
             new == trail'
  <2>1. trail \in Seq(Range(trail))
    BY DEF IInv, TrailInv
  <2>2. old \in Seq(T) /\ hop \in T /\ new = Append(old, hop)
    BY <1>1, <2>1
  <2> HIDE DEF T, old, new
  <2>3. \A i \in DOMAIN new : (i \in DOMAIN old /\ new[i] = old[i]) \/ new[i] = hop
    BY <2>2
  <2> QED
    BY <2>3 DEF old, new
<1>9. HopMatchesReference'
  <2>1. \A i \in DOMAIN trail : Right(trail[i])
    BY DEF PathInv, UpstreamUriCorrect, HopMatchesReference, Right
  <2>2. \A i \in DOMAIN trail' : Right(trail'[i])
    BY <1>5, <1>6, <1>8, <2>1
  <2> QED
    BY <2>2 DEF HopMatchesReference, Right
<1>10. ParametersKeepStructure'
  <2>1. \A i \in DOMAIN trail : IsTemplate(trail[i].server) => ParameterStaysInPath(trail[i])
    BY DEF PathInv, UpstreamUriCorrect, ParametersKeepStructure
  <2>2. \A i \in DOMAIN trail' : IsTemplate(trail'[i].server) => ParameterStaysInPath(trail'[i])
    BY <1>5, <1>7, <1>8, <2>1
  <2>3. \A h : ParameterStaysInPath(h)' <=> ParameterStaysInPath(h)
    BY DEF ParameterStaysInPath
  <2> QED
    BY <1>2, <2>2, <2>3 DEF ParametersKeepStructure
<1> QED
  BY <1>1, <1>5, <1>6, <1>9, <1>10 DEF PathInv, UpstreamUriCorrect

\* A target only fails to resolve for want of an authority, or for what a template's
\* parameter is decoded to.
LEMMA BadTargetPath ==
  ASSUME IInv, PathInv, BadTarget
  PROVE  \/ \E i \in DOMAIN Servers[at].targets : Servers[at].targets[i].server = NoValue
         \/ Range(req.path) \cap Unwritable # {}
<1> DEFINE targets == Servers[at].targets
<1>1. /\ at \in DOMAIN Servers /\ ~IsProxy(Servers[at]) /\ Matches(Servers[at], req.path)
      /\ ~Resolvable(Target(at))
  BY DEF BadTarget, Serving, Mount
<1>2. ~Servers[at].balanced /\ Len(targets) = 1
  BY <1>1, ServersAssumption DEF IsProxy
<1>3. Target(at) = targets[1]
  BY <1>2 DEF Target, Balanced
<1>4. 1 \in DOMAIN targets
  <2>1. targets \in Seq(TargetRecords)
    BY <1>1, ServersAssumption DEF TargetRecords
  <2> HIDE DEF targets
  <2> QED
    BY <1>2, <2>1
<1>5. Unwritable \cap Range(req.path) = {} => ValidUri(UpstreamFor(Mount, Target(at), req).path)
  BY <1>1, <1>3, <1>4, HopRight DEF PathInv, Mount
<1>6. Target(at).server = NoValue \/ Unwritable \cap Range(req.path) # {}
  BY <1>1, <1>5 DEF Resolvable
<1> QED
  BY <1>3, <1>4, <1>6

\* Every other step leaves the request where it is.
LEMMA StayingPath ==
  ASSUME IInv, PathInv, ~Forward, [Next]_vars
  PROVE  PathInv'
<1>1. Stays /\ (status' # 500 \/ status' = status \/ BadTarget)
  BY DEF Next, Unmatched, NoUpstream, BadTarget, TooLarge, Arrive, BodyFails, OtherRequest, Answer,
     Frame, BodyEnds, BodyBreaks, StreamStep, Stays, vars
<1>2. (req.path \in Seq(Tokens) /\ Rooted(req.path) /\ HopMatchesReference)'
  BY <1>1 DEF PathInv, UpstreamUriCorrect, HopMatchesReference, Stays
<1>3. ParametersKeepStructure'
  <2>1. \A i \in DOMAIN trail' :
          Servers[trail'[i].server].style = "template" => ParameterStaysInPath(trail'[i])
    BY <1>1 DEF PathInv, UpstreamUriCorrect, ParametersKeepStructure, Stays
  <2>2. ASSUME status' = 500
        PROVE  \/ \E i \in DOMAIN Servers[at].targets : Servers[at].targets[i].server = NoValue
               \/ Range(req.path) \cap Unwritable # {}
    <3>1. CASE BadTarget
      BY <3>1, BadTargetPath
    <3>2. CASE status' = status
      BY <2>2, <3>2 DEF PathInv, UpstreamUriCorrect, ParametersKeepStructure, Unwritable
    <3> QED
      BY <1>1, <2>2, <3>1, <3>2
  <2>3. at' = at /\ req' = req
    BY <1>1 DEF Stays
  <2>4. \A h : ParameterStaysInPath(h)' <=> ParameterStaysInPath(h)
    BY DEF ParameterStaysInPath
  <2> QED
    BY <2>1, <2>2, <2>3, <2>4 DEF ParametersKeepStructure, Unwritable
<1> QED
  BY <1>2, <1>3 DEF PathInv, UpstreamUriCorrect

--------------------------------------------------------------------------------
(* The theorems *)

\* A hop, all together.
LEMMA ForwardStep ==
  ASSUME IInv, Forward
  PROVE  IInv'
<1>1. ScenarioInv'
  BY HopTaken DEF IInv, ScenarioInv
<1>2. PicksInv'
  <2>1. SelectIfBalanced /\ Mount.targets # <<>>
    BY HopTaken DEF Ready
  <2>2. PicksInv
    BY DEF IInv
  <2>3. CASE at \in Balanced
    BY <2>1, <2>2, <2>3, SelectStep DEF SelectIfBalanced, Mount
  <2>4. CASE at \notin Balanced
    BY <2>1, <2>2, <2>4 DEF SelectIfBalanced, PicksInv
  <2> QED
    BY <2>3, <2>4
<1>3. status' = 0
  BY HopTaken
<1> QED
  BY <1>1, <1>2, <1>3, ForwardTrail, ForwardRequest, ForwardFlow, ForwardReported,
     ForwardOriginalHost, ForwardProto, ForwardHost DEF IInv

\* Whatever is checked of a state follows from the invariant in that state.
THEOREM Invariance == Spec => []IInv
<1>1. Init => IInv
  BY InitInv
<1>2. IInv /\ [Next]_vars => IInv'
  <2> SUFFICES ASSUME IInv, [Next]_vars PROVE IInv'
    OBVIOUS
  <2>1. CASE Forward
    BY <2>1, ForwardStep
  <2>2. CASE \/ Unmatched \/ NoUpstream \/ BadTarget \/ TooLarge \/ Arrive \/ BodyFails
             \/ \E s \in Balanced : OtherRequest(s)
             \/ UNCHANGED vars
    BY <2>2, StayingSteps
  <2>3. CASE \E i \in DOMAIN flow : Frame(i) \/ BodyEnds(i) \/ BodyBreaks(i)
    BY <2>3, StreamSteps
  <2> QED
    BY <2>1, <2>2, <2>3 DEF Next
<1> QED
  BY <1>1, <1>2, PTL DEF Spec

\* The variables have their types, the request its fields, and a selection an upstream of the
\* BalancedProxy that made it.
THEOREM TypeCorrect == Spec => []TypeOK
<1>1. IInv => TypeOK
  <2> SUFFICES ASSUME IInv PROVE TypeOK
    OBVIOUS
  <2>1. DOMAIN policy = DOMAIN Servers /\ DOMAIN req = DOMAIN client
    BY DEF IInv, ScenarioInv, RequestInv
  <2>2. trail # <<>> => at = Last(trail).target.server
    BY DEF IInv, TrailInv, Last
  <2>3. \A s \in Balanced : /\ counter[s] \in 0..CounterMod - 1
                            /\ \A i \in DOMAIN picks[s] :
                                 picks[s][i].target \in DOMAIN Servers[s].targets
    BY DEF IInv, PicksInv
  <2>4. flow \in Seq([passed : 0..client.size, state : {"open", "ended", "failed"}])
    <3> DEFINE S == [passed : 0..client.size, state : {"open", "ended", "failed"}]
    <3>1. client.size \in Nat
      BY DEF IInv, ScenarioInv, RequestRecords
    <3>2. flow \in Seq(Streams) /\ \A i \in DOMAIN flow : flow[i].passed <= client.size
      BY DEF IInv, FlowInv
    <3>3. \A i \in DOMAIN flow : flow[i] \in S
      <4>1. \A i \in DOMAIN flow : flow[i] \in Streams
        BY <3>2
      <4> QED
        BY <3>1, <3>2, <4>1 DEF Streams
    <3>4. flow \in Seq(Streams)
      BY <3>2
    <3> HIDE DEF S
    <3>5. flow \in Seq(S)
      BY ONLY <3>3, <3>4
    <3> QED
      BY <3>5 DEF S
  <2>5. Len(flow) = Len(trail)
    BY DEF IInv, FlowInv
  <2> QED
    BY <2>1, <2>2, <2>3, <2>4, <2>5 DEF IInv, TypeOK
<1> QED
  BY <1>1, Invariance, PTL

\* As many consecutive requests as there are upstreams go to different ones, for any number
\* of upstreams, any width of the counter and any number of requests (next_proxy).
THEOREM SpreadTheorem == Spec => []SpreadEvenly
<1>1. IInv => SpreadEvenly
  BY PicksSpread DEF IInv
<1> QED
  BY <1>1, Invariance, PTL

\* However a body of any length, declared or not, is cut into frames on its way through any
\* number of hops, and wherever it fails on the way: no upstream gets more of it than every
\* hop so far allows, none takes a part of it for the whole, and it fails only where it is
\* over a cap (Limited, max_request_body_bytes).
THEOREM CapsTheorem == Spec => []BodyWithinCaps
<1>1. IInv => BodyWithinCaps
  BY DEF IInv, FlowInv
<1> QED
  BY <1>1, Invariance, PTL

\* What the headers must tell follows from what the hops have added to them.
LEMMA HeadersFollow == IInv => HeadersTellTheTrail
<1> SUFFICES ASSUME IInv PROVE AddressTrail /\ ForwardedDescribesOrigin
  BY DEF IInv, HeadersTellTheTrail
<1> DEFINE own == Len(OwnFwd)
           m == Len(Reporting)
           Fors(list) == [i \in DOMAIN list |-> list[i].for]
<1>1. /\ client.xff \in Seq(STRING)
      /\ client.fwd \in Seq([for : STRING, host : STRING, proto : STRING])
  BY DEF IInv, ScenarioInv, RequestRecords
<1>2. req.xff \in Seq(Names) /\ req.fwd \in Seq(Elements)
  BY DEF IInv, RequestInv
<1>3. OwnFwd \in Seq([for : STRING, host : STRING, proto : STRING]) /\ own \in Nat
  <2> DEFINE T == [for : STRING, host : STRING, proto : STRING]
  <2>1. client.fwd \in Seq(T) /\ <<>> \in Seq(T)
    BY <1>1
  <2> HIDE DEF T
  <2>2. OwnFwd \in Seq(T)
    BY <2>1 DEF OwnFwd, Survives
  <2> QED
    BY <2>2 DEF T
<1>4. m \in Nat /\ DOMAIN Reporting = 1..m /\ Len(trail) \in Nat /\ Reporting \in Seq(1..Len(trail))
  <2>1. Reporting \in Seq(1..Len(trail)) /\ Len(trail) \in Nat
    BY ReportingPlaces
  <2> QED
    BY <2>1
<1>5. trail = <<>> => Reporting = <<>> /\ m = 0
  <2> SUFFICES ASSUME trail = <<>> PROVE Reporting = <<>>
    OBVIOUS
  <2>1. Reporting \in Seq({})
    BY <1>4
  <2> QED
    BY <2>1
<1>6. AddressTrail
  <2>1. CASE trail = <<>>
    <3>1. req = client /\ Peers = <<>>
      BY <1>5, <2>1 DEF IInv, RequestInv, Peers
    <3>2. req.xff = client.xff \o Peers
      BY <1>1, <3>1
    <3>3. Fors(req.fwd) = Fors(client.fwd) \o Peers
      <4> DEFINE T == [for : STRING, host : STRING, proto : STRING]
                 list == client.fwd
      <4>1. list \in Seq(T) /\ \A e \in T : e.for \in STRING
        BY <1>1
      <4> HIDE DEF T, list
      <4>2. \A i \in DOMAIN list : list[i].for \in STRING
        BY <4>1
      <4>3. Fors(list) \in Seq(STRING)
        BY <4>1, <4>2
      <4> HIDE DEF Fors
      <4>4. Fors(list) = Fors(list) \o <<>>
        BY <4>3
      <4> QED
        BY <3>1, <4>4 DEF list
    <3> QED
      BY <2>1, <3>2, <3>3 DEF AddressTrail, Peers
  <2>2. CASE trail # <<>>
    <3>1. /\ req.xff = OwnXff \o Peers
          /\ Len(req.fwd) = own + m
          /\ \A i \in 1..own : req.fwd[i] = OwnFwd[i]
          /\ \A k \in 1..m : req.fwd[own + k].for = Neighbour(Reporting[k])
      BY <2>2 DEF IInv, ReportedInv
    <3>2. Fors(req.fwd) \in Seq(Names) /\ Len(Fors(req.fwd)) = own + m
      <4>1. \A i \in DOMAIN req.fwd : req.fwd[i].for \in Names
        <5>1. \A e \in Elements : e.for \in Names
          BY DEF Elements
        <5> QED
          BY <1>2, <5>1
      <4>2. DOMAIN req.fwd = 1..(own + m)
        BY <1>2, <3>1
      <4> QED
        BY <1>3, <1>4, <4>1, <4>2
    <3>3. Fors(OwnFwd) \in Seq(Names) /\ Len(Fors(OwnFwd)) = own
      <4> DEFINE T == [for : STRING, host : STRING, proto : STRING]
      <4>1. OwnFwd \in Seq(T) /\ \A e \in T : e.for \in Names
        BY <1>3 DEF Names
      <4> HIDE DEF T
      <4>2. \A i \in DOMAIN OwnFwd : OwnFwd[i].for \in Names
        BY <4>1
      <4> QED
        BY <4>1, <4>2
    <3>4. Peers \in Seq(Names) /\ Len(Peers) = m
      <4>1. \A k \in 1..m : Neighbour(Reporting[k]) \in Names
        <5> SUFFICES ASSUME NEW k \in 1..m PROVE Neighbour(Reporting[k]) \in Names
          OBVIOUS
        <5>1. own + k \in DOMAIN req.fwd
          BY <1>2, <1>3, <1>4, <3>1
        <5>2. req.fwd[own + k] \in Elements
          BY <1>2, <5>1
        <5> QED
          BY <3>1, <5>2 DEF Elements
      <4> QED
        BY <1>4, <4>1 DEF Peers
    <3>5. \A i \in 1..own : Fors(req.fwd)[i] = Fors(OwnFwd)[i]
      BY <1>2, <1>3, <1>4, <3>1
    <3>6. \A k \in 1..m : Fors(req.fwd)[own + k] = Peers[k]
      <4>1. \A k \in 1..m : own + k \in DOMAIN req.fwd
        BY <1>2, <1>3, <1>4, <3>1
      <4> QED
        BY <1>4, <3>1, <4>1 DEF Peers
    <3>7. Fors(req.fwd) = Fors(OwnFwd) \o Peers
      <4> DEFINE a == Fors(req.fwd)
                 b == Fors(OwnFwd)
                 c == Peers
      <4> HIDE DEF Fors, a, b, c, own, m
      <4>1. b \o c \in Seq(Names) /\ Len(b \o c) = own + m
        BY <3>3, <3>4 DEF b, c
      <4>0. b \in Seq(Names) /\ c \in Seq(Names) /\ Len(b) = own /\ Len(c) = m
        BY <3>3, <3>4 DEF b, c
      <4>2. \A i \in 1..(own + m) : a[i] = (b \o c)[i]
        <5> SUFFICES ASSUME NEW i \in 1..(own + m) PROVE a[i] = (b \o c)[i]
          OBVIOUS
        <5>1. CASE i \in 1..own
          <6>1. (b \o c)[i] = b[i]
            BY <1>3, <1>4, <4>0, <5>1
          <6> QED
            BY <3>5, <5>1, <6>1 DEF a, b
        <5>2. ASSUME NEW k \in 1..m, i = own + k PROVE a[i] = (b \o c)[i]
          <6>0. own \in Nat /\ m \in Nat
            BY <1>3, <1>4
          <6>1. (b \o c)[own + k] = c[k]
            BY ONLY <4>0, <6>0, k \in 1..m
          <6> QED
            BY <3>6, <5>2, <6>1 DEF a, c
        <5>3. i \in 1..own \/ \E k \in 1..m : i = own + k
          <6>1. i \in 1..own \/ i - own \in 1..m
            BY <1>3, <1>4
          <6>2. i = own + (i - own)
            BY <1>3
          <6> QED
            BY <6>1, <6>2
        <5> QED
          BY <5>1, <5>2, <5>3
      <4> QED
        BY <3>2, <4>1, <4>2, SeqEqual DEF a, b, c
    <3> QED
      BY <2>2, <3>1, <3>7 DEF AddressTrail, Peers, OwnXff, OwnFwd
  <2> QED
    BY <2>1, <2>2
<1>7. ForwardedDescribesOrigin
  <2> SUFFICES ASSUME trail # <<>>, NEW i \in own + 1..Len(req.fwd)
               PROVE  /\ req.fwd[i].host =
                           IF i = 1 THEN ClientHost(trail[Reporting[1]].in) ELSE NoValue
                      /\ req.fwd[i].proto =
                           IF i = 1 THEN policy[trail[Reporting[1]].server].scheme ELSE NoValue
    <3>1. own = IF "forwarded" \in client.nominated THEN 0 ELSE Len(client.fwd)
      BY DEF OwnFwd, Survives
    <3> QED
      BY <3>1 DEF ForwardedDescribesOrigin
  <2>1. /\ Len(req.fwd) = own + m
        /\ \A k \in 1..m :
             /\ req.fwd[own + k].host =
                  IF own + k = 1 THEN ClientHost(trail[Reporting[1]].in) ELSE NoValue
             /\ req.fwd[own + k].proto =
                  IF own + k = 1 THEN policy[trail[Reporting[1]].server].scheme ELSE NoValue
    BY DEF IInv, ReportedInv
  <2>2. i - own \in 1..m /\ own + (i - own) = i
    BY <1>3, <1>4, <2>1
  <2> QED
    BY <2>1, <2>2
<1> QED
  BY <1>6, <1>7

\* However many hops there are and whichever of them append, preserve the host, have a scheme
\* or know their peer: the last upstream reads in X-Forwarded-For and Forwarded who sent the
\* request to each hop that knew, in host= and proto= only what the first hop to report saw,
\* in X-Forwarded-Proto the first scheme given, in X-Forwarded-Host the host the client asked
\* the first hop for, provided that hop had connect info, and in Host what the policies make of
\* it (build_forward_headers, append_forwarded_header, forwarded_host).
THEOREM TrailTheorem == Spec => []HeadersTellTheTrail
<1> QED
  BY HeadersFollow, Invariance, PTL

\* Every upstream URI a proxy, a balanced proxy, a route or a template writes, mounted in
\* whichever way and behind however many other servers, has the target's segments and then
\* those beyond the base, and keeps the query.  A template's parameter, of whatever escapes
\* and characters it is made, keeps its value and stays in the path, and a URL is refused
\* only for want of an authority or where the request's path has %3C, %3E or %60
\* (transform_uri, strip_route_prefix, build_upstream_uri, TEMPLATE_ENCODE_SET, Router::nest).
THEOREM UriTheorem == Spec => []UpstreamUriCorrect
<1>1. Init => PathInv
  <2> SUFFICES ASSUME Init PROVE PathInv
    OBVIOUS
  <2>1. WrittenPath(req.path)
    BY PathsAssumption DEF Init
  <2>2. trail = <<>> /\ status = 0
    BY DEF Init
  <2>3. HopMatchesReference /\ ParametersKeepStructure
    BY <2>2 DEF HopMatchesReference, ParametersKeepStructure
  <2> QED
    BY <2>1, <2>3, WrittenTokens DEF PathInv, UpstreamUriCorrect
<1>2. IInv /\ PathInv /\ [Next]_vars => PathInv'
  <2> SUFFICES ASSUME IInv, PathInv, [Next]_vars PROVE PathInv'
    OBVIOUS
  <2>1. CASE Forward
    BY <2>1, ForwardPath
  <2>2. CASE ~Forward
    BY <2>2, StayingPath
  <2> QED
    BY <2>1, <2>2
<1>3. PathInv => UpstreamUriCorrect
  BY DEF PathInv
<1> QED
  BY <1>1, <1>2, <1>3, Invariance, PTL DEF Spec
================================================================================
