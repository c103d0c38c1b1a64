-------------------------------- MODULE Routing --------------------------------
(***************************************************************************)
(* A request on its way through one or more servers of this crate: the      *)
(* mount that takes it (router.rs, router_ext.rs, BalancedProxy), the       *)
(* upstream URI (UpstreamUri), the forwarding headers (ForwardHeaders) and  *)
(* the stream of its body under the servers' caps (forward_with).           *)
(*                                                                          *)
(* A server has one mount:                                                  *)
(*   style     "fallback" a ReverseProxy or BalancedProxy as fallback,      *)
(*             "router"   one converted into a Router,                      *)
(*             "route"    proxy_route with a base URL,                      *)
(*             "template" proxy_route with proxy_template;                  *)
(*   base      its base path, for routes what precedes /{*rest};            *)
(*   balanced  whether it is a BalancedProxy;                               *)
(*   targets   sequence of [server, path, query], one unless balanced.      *)
(* Servers that are not in the domain of Servers are origins.  Upgrades,    *)
(* Via, failures and deadlines are in ProxyChain and ForwardLifecycle; the  *)
(* topology is acyclic.                                                     *)
(***************************************************************************)
EXTENDS UpstreamUri, ForwardHeaders, SequenceFolds

CONSTANTS
  Servers,      \* function from names to mounts
  Scenarios,    \* set of [request, entry, policy]: where a request enters, and each server's policy
  MaxPicks,     \* bound on the selections other requests make
  CounterMod    \* 2^w for the round-robin counter of width w

\* A ReverseProxy without an authority is refused when it is built (new_with_client).
ASSUME ServersAssumption ==
  /\ DOMAIN Servers \subseteq STRING \ {NoValue}
  /\ \A s \in DOMAIN Servers :
       /\ Servers[s].targets \in Seq([server : STRING, path : Seq(STRING), query : STRING])
       /\ Servers[s].style \in {"fallback", "router", "route", "template"}
       /\ IF Servers[s].balanced THEN Servers[s].style \in {"fallback", "router"}
          ELSE Len(Servers[s].targets) = 1
       /\ Servers[s].style \in {"fallback", "router"} =>
            \A i \in DOMAIN Servers[s].targets : Servers[s].targets[i].server # NoValue

PolicyRecords ==
  [preserveHost : BOOLEAN, append : BOOLEAN, scheme : STRING, cap : SUBSET Nat, knowsPeer : BOOLEAN]

RequestRecords ==
  [path : Seq(STRING), query : STRING, host : STRING, authority : STRING, xff : Seq(STRING),
   fwd : Seq([for : STRING, host : STRING, proto : STRING]), xfh : STRING, xfp : STRING,
   nominated : SUBSET STRING, size : Nat, declared : BOOLEAN]

ASSUME ScenariosAssumption ==
  Scenarios \subseteq
    [request : RequestRecords, entry : DOMAIN Servers, policy : [DOMAIN Servers -> PolicyRecords]]

ASSUME CounterAssumption == MaxPicks \in Nat /\ CounterMod \in Nat \ {0}

VARIABLES
  policy,       \* server -> [preserveHost, append, scheme, cap, knowsPeer]
  client,       \* the request as the client sent it
  at, req,      \* the server that has the request, and the request as it arrived there
  trail,        \* the hops behind it (history)
  flow,         \* for each of them the request body on its way to the upstream
  status,       \* 0 until the client is answered
  counter,      \* BalancedProxy::counter
  picks         \* the upstreams each BalancedProxy selected (history)

vars == <<policy, client, at, req, trail, flow, status, counter, picks>>

IsProxy(mount) == mount.style \in {"fallback", "router"}

Balanced == {s \in DOMAIN Servers : Servers[s].balanced}

Init ==
  /\ \E sc \in Scenarios : policy = sc.policy /\ client = sc.request /\ at = sc.entry
  /\ req = client
  /\ trail = <<>>
  /\ flow = <<>>
  /\ status = 0
  /\ counter = [s \in Balanced |-> 0]
  /\ picks = [s \in Balanced |-> <<>>]

--------------------------------------------------------------------------------
(* The mount *)

\* From<ReverseProxy> for Router: nested under its base unless that is the root.
Nested(mount) == mount.style = "router" /\ mount.base \notin {<<>>, <<Slash>>}

Pattern(mount) == mount.base \o <<Slash, CatchAll>>

\* What the path of a URI or a mount looks like.
WrittenPath(path) ==
  path \in Seq(STRING) /\ IsPrefix(<<Slash>>, path) /\ Range(path) \cap (Refused \cup Delimiters) = {}

\* A template with one parameter, which is the rest of the path.
EndsInParameter(template) ==
  LET literal == SubSeq(template, 1, Len(template) - 2)
  IN  /\ template = literal \o <<Slash, Placeholder>>
      /\ TrimEnd(literal) = literal
      /\ Placeholder \notin Range(literal)

\* The mounts that are modelled: a prefix axum has to match is literal and does not end in
\* a slash (axum would match it differently), and a template ends in its one parameter.
ASSUME PathsAssumption ==
  /\ \A sc \in Scenarios : WrittenPath(sc.request.path)
  /\ \A s \in DOMAIN Servers :
       LET mount == Servers[s]
       IN  /\ mount.base = <<>> \/ WrittenPath(mount.base)
           /\ Nested(mount) \/ ~IsProxy(mount) =>
                TrimEnd(mount.base) = mount.base /\ CatchAll \notin Range(mount.base)
           /\ \A i \in DOMAIN mount.targets :
                /\ WrittenPath(mount.targets[i].path)
                /\ mount.style = "template" => EndsInParameter(mount.targets[i].path)

Matches(mount, path) ==
  IF IsProxy(mount) THEN Nested(mount) => NestMatches(mount.base, path)
  ELSE CatchAllMatches(Pattern(mount), path)

\* The path as the service sees it.
Seen(mount, path) == IF Nested(mount) THEN NestStripped(mount.base, path) ELSE path

\* What Uri::from_str makes of a path and the query behind it: what follows a ? in the path
\* becomes the query, what follows a # nothing.
ParsedUri(written, query) ==
  LET ends == {i \in DOMAIN written : written[i] \in Delimiters}
      cut  == Min(ends)
  IN  IF ends = {} THEN [path |-> written, query |-> query]
      ELSE [path  |-> SubSeq(written, 1, cut - 1),
            query |-> IF written[cut] = "?" THEN "parameter" ELSE NoValue]

\* The path and query of the upstream request.  A ReverseProxy takes the query from
\* the request; a route prefers the target's own.
UpstreamFor(mount, target, r) ==
  LET resolved == ParsedUri(TemplateUri(Pattern(mount), target.path, r.path), target.query)
  IN  CASE IsProxy(mount) ->
             [path |-> TransformUri(mount.base, target.path, Seen(mount, r.path)), query |-> r.query]
        [] mount.style = "route" ->
             [path  |-> RouteUri(Pattern(mount), target.path, r.path),
              query |-> OrElse(target.query, r.query)]
        [] mount.style = "template" ->
             [path |-> resolved.path, query |-> OrElse(resolved.query, r.query)]

--------------------------------------------------------------------------------
(* BalancedProxy *)

\* next_proxy: fetch_add on the shared counter, modulo the number of upstreams.
LastNeverUsed(count, n) == (count % (n - 1)) + 1       \* faulty: off by one

OnePastTheEnd(count, n) == (count % (n + 1)) + 1       \* faulty: off by one

NextProxy(count, n) == (count % n) + 1

Select(s) ==
  LET i == NextProxy(counter[s], Len(Servers[s].targets))
  IN  /\ counter' = [counter EXCEPT ![s] = (@ + 1) % CounterMod]
      /\ picks' = [picks EXCEPT ![s] = Append(@, [count |-> counter[s], target |-> i])]

\* The target of the request at hand.
Target(s) ==
  Servers[s].targets[IF s \in Balanced THEN NextProxy(counter[s], Len(Servers[s].targets)) ELSE 1]

SelectIfBalanced == IF at \in Balanced THEN Select(at) ELSE UNCHANGED <<counter, picks>>

\* Other requests share the counter.
OtherRequest(s) ==
  /\ Servers[s].targets # <<>>
  /\ Len(picks[s]) < MaxPicks
  /\ Select(s)
  /\ UNCHANGED <<policy, client, at, req, trail, flow, status>>

--------------------------------------------------------------------------------
(* A server with the request *)

Answer(code) ==
  /\ status' = code
  /\ UNCHANGED <<policy, client, at, req, trail, flow>>

Mount == Servers[at]

Serving == status = 0 /\ at \in DOMAIN Servers

\* axum finds no route.
Unmatched ==
  /\ Serving
  /\ ~Matches(Mount, req.path)
  /\ Answer(404)
  /\ UNCHANGED <<counter, picks>>

\* BalancedProxy::call without upstreams.
NoUpstream ==
  /\ Serving
  /\ Matches(Mount, req.path)
  /\ Mount.targets = <<>>
  /\ Answer(503)
  /\ UNCHANGED <<counter, picks>>

\* proxy_request (router_ext): the resolved URL does not parse or has no authority.
Resolvable(target) ==
  \/ IsProxy(Mount)
  \/ target.server # NoValue /\ ValidUri(UpstreamFor(Mount, target, req).path)

BadTarget ==
  /\ Serving
  /\ Matches(Mount, req.path)
  /\ ~IsProxy(Mount)
  /\ ~Resolvable(Target(at))
  /\ Answer(500)
  /\ UNCHANGED <<counter, picks>>

\* max_request_body_bytes, of which a policy has at most one.
OverCap(size, cap) == \E max \in cap : size > max

Ready ==
  /\ Serving
  /\ Matches(Mount, req.path)
  /\ Mount.targets # <<>>
  /\ Resolvable(Target(at))

\* forward_with: a declared length over the cap is refused before anything is sent.
DeclaredTooLarge == req.declared /\ OverCap(req.size, policy[at].cap)

TooLarge ==
  /\ Ready
  /\ DeclaredTooLarge
  /\ Answer(413)
  /\ SelectIfBalanced

Peer ==
  IF ~policy[at].knowsPeer THEN NoValue
  ELSE IF trail = <<>> THEN "client" ELSE Last(trail).server

\* The request to the upstream; over HTTP/2 its authority travels as well.  Its body follows
\* when there is one.
Forward ==
  /\ Ready
  /\ ~DeclaredTooLarge
  /\ LET target == Target(at)
         uri    == UpstreamFor(Mount, target, req)
         fields == BuildForwardHeaders(req, Peer, policy[at], target.server)
     IN  /\ \E authority \in {NoValue, target.server} :
              req' = [req EXCEPT !.path = uri.path, !.query = uri.query,
                                 !.host = fields.host, !.authority = authority,
                                 !.xff = fields.xff, !.fwd = fields.fwd,
                                 !.xfh = fields.xfh, !.xfp = fields.xfp,
                                 !.nominated = {}]
         /\ trail' = Append(trail, [server |-> at, target |-> target, in |-> req, out |-> uri])
         /\ at' = target.server
  /\ flow' = Append(flow, [passed |-> 0,
                            state  |-> IF req.declared /\ req.size = 0 THEN "ended" ELSE "open"])
  /\ SelectIfBalanced
  /\ UNCHANGED <<policy, client, status>>

\* An origin answers.
Arrive ==
  /\ status = 0
  /\ at \notin DOMAIN Servers
  /\ Answer(200)
  /\ UNCHANGED <<counter, picks>>

--------------------------------------------------------------------------------
(* The body on its way through the servers *)

\* What a hop has received of the body.
Received(i) == IF i = 1 THEN client.size ELSE flow[i - 1].passed

\* Limited counts what has passed; a frame that goes beyond the cap fails the stream.
Truncated(stream, k, cap) ==                           \* faulty: the rest is dropped
  IF OverCap(stream.passed + k, cap) THEN [stream EXCEPT !.state = "ended"]
  ELSE [stream EXCEPT !.passed = @ + k]

Limited(stream, k, cap) ==
  IF OverCap(stream.passed + k, cap) THEN [stream EXCEPT !.state = "failed"]
  ELSE [stream EXCEPT !.passed = @ + k]

StreamStep(i, stream) ==
  /\ flow' = [flow EXCEPT ![i] = stream]
  /\ UNCHANGED <<policy, client, at, req, trail, status, counter, picks>>

\* A frame of any size goes through a hop, before or after the upstream has answered.
Frame(i) ==
  /\ flow[i].state = "open"
  /\ \E k \in 1..Received(i) - flow[i].passed :
       StreamStep(i, Limited(flow[i], k, policy[trail[i].server].cap))

BodyEnds(i) ==
  /\ flow[i].state = "open"
  /\ Received(i) = flow[i].passed
  /\ i > 1 => flow[i - 1].state = "ended"
  /\ StreamStep(i, [flow[i] EXCEPT !.state = "ended"])

\* The connection a hop reads from was closed in the middle of the body; what is still in
\* its buffers may be lost.
BodyBreaks(i) ==
  /\ flow[i].state = "open"
  /\ i > 1 /\ flow[i - 1].state = "failed"
  /\ StreamStep(i, [flow[i] EXCEPT !.state = "failed"])

\* A failed body fails the upstream request, unless the upstream has answered before.
BodyFails ==
  /\ status = 0
  /\ \E i \in DOMAIN flow : flow[i].state = "failed"
  /\ Answer(502)
  /\ UNCHANGED <<counter, picks>>

Next ==
  \/ \E s \in Balanced : OtherRequest(s)
  \/ Unmatched \/ NoUpstream \/ BadTarget
  \/ TooLarge \/ Forward \/ Arrive
  \/ \E i \in DOMAIN flow : Frame(i) \/ BodyEnds(i) \/ BodyBreaks(i)
  \/ BodyFails

Spec == Init /\ [][Next]_vars

--------------------------------------------------------------------------------
(* Properties *)

\* The variables have their types.
TypeOK ==
  /\ DOMAIN policy = DOMAIN Servers
  /\ DOMAIN req = DOMAIN client
  /\ trail # <<>> => at = Last(trail).target.server
  /\ flow \in Seq([passed : 0..client.size, state : {"open", "ended", "failed"}])
  /\ Len(flow) = Len(trail)
  /\ status \in {0, 200, 404, 413, 500, 502, 503}
  /\ \A s \in Balanced : /\ counter[s] \in 0..CounterMod - 1
                         /\ \A i \in DOMAIN picks[s] : picks[s][i].target \in DOMAIN Servers[s].targets

\* Two kinds of hop are set apart below.  A nested proxy strips its base although the
\* router did so already, and a template's parameter is decoded and encoded again, which
\* leaves some characters escaped that were not, and the other way round.
StrippedTwice(hop) ==
  LET mount == Servers[hop.server]
  IN  Nested(mount) /\ AtBoundary(Seen(mount, hop.in.path), mount.base)

Reencoded(hop) ==
  /\ Servers[hop.server].style = "template"
  /\ {"%25", "%2F", "@", "backslash", "[", "]"} \cap Range(hop.in.path) # {}

FollowsReference(hop) ==
  LET mount  == Servers[hop.server]
      target == IF mount.style = "template" THEN Front(hop.target.path) ELSE hop.target.path
  IN  /\ Segments(hop.out.path) = ReferenceSegments(mount.base, target, hop.in.path)
      /\ hop.out.query = hop.in.query \/ (~IsProxy(mount) /\ hop.out.query = hop.target.query)

\* Path Transform Semantics: however a proxy is mounted, the upstream path is the target's
\* segments followed by the segments beyond the base, which is stripped at a segment
\* boundary only, without doubled or lost slashes, and the query is kept (transform_uri,
\* strip_route_prefix, build_upstream_uri, template substitution).
HopMatchesReference ==
  \A i \in DOMAIN trail :
    StrippedTwice(trail[i]) \/ Reencoded(trail[i]) \/ FollowsReference(trail[i])

\* Whatever the client put in the parameter of a template, the upstream gets the template's
\* literal part with the value of the parameter behind it, character for character, and the
\* query that is due to it; nothing of the parameter leaves the path.  The URL is refused
\* only for want of an authority, or for a character that a Uri does not take and
\* TEMPLATE_ENCODE_SET does not name (TEMPLATE_ENCODE_SET, proxy_request).
ParameterStaysInPath(hop) ==
  LET literal == Front(hop.target.path)
      sent    == After(hop.in.path, Append(Servers[hop.server].base, Slash))
      given   == After(hop.out.path, literal)
  IN  /\ IsPrefix(literal, hop.out.path)
      /\ Len(given) = Len(sent)
      /\ \A k \in DOMAIN sent : Decoded(given[k]) = Decoded(sent[k])
      /\ hop.out.query = OrElse(hop.target.query, hop.in.query)

ParametersKeepStructure ==
  /\ \A i \in DOMAIN trail :
       Servers[trail[i].server].style = "template" => ParameterStaysInPath(trail[i])
  /\ status = 500 => \/ \E i \in DOMAIN Servers[at].targets : Servers[at].targets[i].server = NoValue
                     \/ Range(req.path) \cap {"%3C", "%3E", "%60"} # {}

\* Every upstream URI is the intended one.
UpstreamUriCorrect == HopMatchesReference /\ ParametersKeepStructure

\* "The proxy detects this and handles both mounting styles consistently": as above, for
\* nested proxies without exception (transform_uri under Router::nest).
MountsAgree == \A i \in DOMAIN trail : Reencoded(trail[i]) \/ FollowsReference(trail[i])

\* The places in the trail of the hops that report addresses, and the neighbour in front
\* of a hop.
Reports(s) == policy[s].append /\ policy[s].knowsPeer

Reporting == Filter([i \in DOMAIN trail |-> i], {i \in DOMAIN trail : Reports(trail[i].server)})

Neighbour(i) == IF i = 1 THEN "client" ELSE trail[i - 1].server

\* X-Forwarded-For and Forwarded both list, after what the client sent, the neighbour of
\* every reporting hop, in the order of the hops: nothing is lost, repeated or replaced on
\* the way (build_forward_headers, append_forwarded_header).
AddressTrail ==
  LET peers == [k \in DOMAIN Reporting |-> Neighbour(Reporting[k])]
      Own(name, list) == IF trail = <<>> THEN list ELSE Survives(client, name, list, <<>>)
      Fors(list) == [i \in DOMAIN list |-> list[i].for]
  IN  /\ req.xff = Own("x-forwarded-for", client.xff) \o peers
      /\ Fors(req.fwd) = Fors(Own("forwarded", client.fwd)) \o peers

\* "host= and proto= ... are included only on the first element, since they describe the
\* original request": an element behind another has neither, and the first one names the
\* host its hop was asked for and the scheme its policy gives (append_forwarded_header).
ForwardedDescribesOrigin ==
  LET own   == IF "forwarded" \in client.nominated THEN 0 ELSE Len(client.fwd)
      first == trail[Reporting[1]]
  IN  trail # <<>> =>
        \A i \in own + 1..Len(req.fwd) :
          /\ req.fwd[i].host = (IF i = 1 THEN ClientHost(first.in) ELSE NoValue)
          /\ req.fwd[i].proto = (IF i = 1 THEN policy[first.server].scheme ELSE NoValue)

\* X-Forwarded-Proto is the client's own where that survives the first hop, and otherwise
\* the scheme of the first hop that appends and has one (build_forward_headers).
ProtoIsFirst ==
  LET own     == Survives(client, "x-forwarded-proto", client.xfp, NoValue)
      Tells(i) == policy[trail[i].server].append /\ policy[trail[i].server].scheme # NoValue
  IN  trail # <<>> =>
        IF own # NoValue THEN req.xfp = own
        ELSE \/ req.xfp = NoValue /\ \A i \in DOMAIN trail : ~Tells(i)
             \/ \E i \in DOMAIN trail :
                  /\ Tells(i) /\ \A j \in 1..i - 1 : ~Tells(j)
                  /\ req.xfp = policy[trail[i].server].scheme

\* When the first hop appends and has connect info, the client named a host and sent no
\* X-Forwarded-Host, the origin learns the host the client asked for, whichever hops replace
\* Host on the way.  Nothing is said of a first hop without connect info, where code and
\* documentation disagree (build_forward_headers, src/README.md:237).
OriginalHostReported ==
  (/\ trail # <<>>
   /\ OrElse(client.host, client.authority) # NoValue
   /\ policy[trail[1].server].append /\ policy[trail[1].server].knowsPeer
   /\ Survives(client, "x-forwarded-host", client.xfh, NoValue) = NoValue)
    => req.xfh = OrElse(client.host, client.authority)

\* Host is the authority of the last upstream chosen by a hop that replaces it; when every
\* hop preserves it, it is the client's, from Host or :authority, as long as Connection
\* does not end it at the first hop (forwarded_host, build_forward_headers, forward_with).
HostFollowsPolicy ==
  LET preserves(i) == policy[trail[i].server].preserveHost
      clients == OrElse(Survives(client, "host", client.host, NoValue), client.authority)
  IN  /\ \A i \in DOMAIN trail :
           ~preserves(i) /\ (\A j \in DOMAIN trail : j > i => preserves(j)) =>
             req.host = trail[i].target.server
      /\ trail # <<>> /\ (\A i \in DOMAIN trail : preserves(i)) =>
           req.host = OrElse(clients, trail[1].target.server)

\* What the upstream is told of the client is true of the trail behind the request,
\* whichever policies the hops have (build_forward_headers).
HeadersTellTheTrail ==
  /\ AddressTrail /\ ForwardedDescribesOrigin
  /\ OriginalHostReported /\ ProtoIsFirst /\ HostFollowsPolicy

\* "An oversized body fails the upstream request rather than being forwarded truncated"
\* (src/src/forward.rs:464): no upstream is sent more than any hop before it allows, what it
\* takes for the whole body is the whole body, a body of declared length never fails in the
\* middle, and no request fails for its size unless a hop it has reached has a smaller cap
\* (max_request_body_bytes).
BodyWithinCaps ==
  LET Exceeds(s) == OverCap(client.size, policy[s].cap)
  IN  /\ \A i \in DOMAIN flow :
           /\ \A j \in 1..i : ~OverCap(flow[i].passed, policy[trail[j].server].cap)
           /\ flow[i].state = "ended" => flow[i].passed = client.size
           /\ flow[i].state = "failed" =>
                ~client.declared /\ \E j \in 1..i : Exceeds(trail[j].server)
      /\ status = 413 => client.declared /\ Exceeds(at)
      /\ status = 502 => \E i \in DOMAIN trail : Exceeds(trail[i].server)

\* As long as the counter does not wrap around, as many consecutive requests as a
\* BalancedProxy has upstreams go to different upstreams, however requests interleave
\* (next_proxy).
SpreadEvenly ==
  \A s \in Balanced : \A i, j \in DOMAIN picks[s] :
    (i < j /\ j - i < Len(Servers[s].targets) /\ picks[s][i].count < picks[s][j].count)
      => picks[s][i].target # picks[s][j].target
================================================================================
