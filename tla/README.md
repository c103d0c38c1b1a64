# TLA+ for axum-reverse-proxy

Specifications, model-checking runs and machine-checked proofs for the crate
`axum-reverse-proxy`. Source paths are relative to the directory that holds the
repository as `src/`, so `src/src/forward.rs` is the crate's `src/forward.rs`.

## 1. Inventory

| Component | Source | State it keeps | Operations | Correct when |
|---|---|---|---|---|
| Forwarding core | `forward.rs` | the future's locals: resource, pending client upgrade, deadline | `forward_with`: take the guard, reject early, send under a deadline, answer 101 / response / 502 / 504 | every exit releases what the request holds, once |
| Connected-stream proxying | `forward.rs` | a driver task and its `ConnectionGuard` | `proxy_request_on_stream` | no driver survives its future and body, upgrades aside |
| Request resources | `lifecycle.rs` | a slot shared by the clones of a `TunnelGuard` | `take`, `retain`, `GuardedBody` | one taker, one release, only after the work is over |
| WebSocket bridge | `websocket.rs` | a detached task owning resource and transports | `bridge`; header checks | transports go before the resource, cancellation wins, waiting is bounded |
| Discoverable balancer | `balanced_proxy.rs` | the task's endpoint list, the published snapshot, counters | `start_discovery`, the discovery loop, `call`, `p2c_select` | counts exact, keys unique, one task, snapshot current |
| Static balancer | `balanced_proxy.rs` | a counter | `next_proxy` | turns are fair |
| Latency metric | `balanced_proxy.rs` | value (atomic) and time (mutex) of the peak EWMA | `load`, `update_ewma` | bounded by what was measured, no update lost, no thread stuck |
| DNS discovery | `dns_discovery.rs` | `current_services`, an unbounded channel | `discovery_task`, `resolve_and_send`, `poll_next` | the channel carries exactly the difference between answers |
| Static DNS discovery | `dns_discovery.rs` | a list of services | `poll_next` | each address once, then the end |
| Retry layer | `retry.rs` | the buffered body, an attempt count | `buffer_body`, `call` | at most one request reaches an upstream, with the client's bytes |
| Single-target proxy | `proxy.rs` | policy, path, target | `handle_request`, `transform_uri` | the base is replaced at a segment boundary, once, in every mount; invalid targets are refused |
| RFC 9110 layer | `rfc9110.rs` | none | loop detection, Max-Forwards, Connection, Via | a chain of proxies notices loops and counts hops down |
| Router integration | `router.rs`, `router_ext.rs` | none | prefix stripping, template substitution | upstream URI agrees with the route, whatever the parameters |
| TLS without verification, crate root | `danger.rs`, `lib.rs` | none | - | - |

How they interact. `forward_with` is the one path to an upstream: `ReverseProxy`,
both balancers and `proxy_request_on_stream` end in it. It finds `TunnelGuard` and
`TunnelCancellation` in the request's extensions, and leaves `ProxyError` in the
extensions of a 502, which `RetryLayer` reads to decide whether the request was ever
sent. The discovery task of `DiscoverableBalancedProxy` consumes a `Discover` stream,
for example the channel filled by `DnsDiscovery`, and shares a snapshot with the
requests.

What is hard. Most of the crate's state is ownership: which future, body or task drops a
resource, a transport or a driver, and in which order, when a client, a peer, a timer or
a cancellation ends things early. The other half is lists that change under running
requests. Nothing is persisted, so there is no crash recovery. The hazards are listed,
each at its line, in `PROJECT.json`.

## 2. Modules

| Module | Models |
|---|---|
| `ResourceLease` | abstract: what `TunnelGuard` promises its caller |
| `ForwardLifecycle` | `forward_with`, `proxy_request_on_stream`, `TunnelGuard`, `GuardedBody`, `bridge` |
| `ForwardLifecycleProofs` | type correctness, the ownership invariant and what follows from it; `ForwardLifecycle` implements `ResourceLease` |
| `DiscoverableBalancer` | `DiscoverableBalancedProxy`: discovery task and requests |
| `BalancerProofs` | the pending counts, the single discovery task, the snapshot and the order of its endpoints |
| `DnsDiscovery` | `DnsDiscovery`: resolver task and channel |
| `DnsBalancing` | `DnsDiscovery` composed with an instance of `DiscoverableBalancer` |
| `DnsProofs` | the composition implements the balancer; the channel replays to the last answer; pinned addresses stay |
| `Retry` | `RetryLayer`: buffering and the retry loop |
| `RetryProofs` | one delivery, intact, within both limits |
| `ProxyChain` | header treatment in `forward_with` and `Rfc9110Layer`, over a chain of proxies |
| `ProxyChainProofs` | loops, hop counts, hop-by-hop headers and upgrades in chains of any length |
| `UpstreamUri` | `transform_uri`, `strip_route_prefix`, `build_upstream_uri`, templates, and a reference for them |
| `ForwardHeaders` | `build_forward_headers`, `append_forwarded_header`, the choice of `Host` |
| `Routing` | mounts, `BalancedProxy`, the stream of the body under caps: requests through chains of servers |
| `RoutingProofs` | upstream URIs, the trail in the headers, the body caps, the turns of a balanced proxy |
| `PeakEwma` | `ServiceMetrics::load` and `update_ewma` under concurrency |
| `PeakEwmaProofs` | proofs that the metric is bounded and holds its peak |
| `SequenceFolds`, `SequenceLemmas` | folds over sequences that can be proved about, and induction over numbers and sequences |
| `MC*` | the same modules with what TLC needs (symmetry, sets of bodies) |

Definitions marked `faulty` stand next to the definition they vary. No specification uses
them: each is a plausible mistake in the code, substituted for the original to see that
a property notices it.

### ForwardLifecycle

A forwarding attempt `a` is one request in the hands of `forward_with`. `fut[a]` is the
progress of its future, `body[a]` of the response body, `tunnel[a]` of the task `bridge`
spawns, `driver[a]` of the connection task of `proxy_request_on_stream`. The Rust values
whose drop matters are followed from owner to owner: a resource from `slot` (the
`Mutex<Option<Resource>>` all clones share) to `futGuard`, then `bodyGuard` or
`tunGuard`; a transport from hyper to the tunnel (`down`, `up`); the `ConnectionGuard`
from future to body (`connGuard`). `took` and `released` are history.

One action is one stretch of code between two awaits: the first poll takes the guard
(`TakeGuard`), then rejects or sends; `SendFails`, `DeadlineExpires`, `DropFuture`,
`Respond`, `RespondInvalid101` and `RespondValid101` are the ways out of the send. The
five outcomes of `bridge` (join fails, timer, EOF in both directions, copy error,
cancellation) and its being torn down end in `TunnelStops`; `TunnelReleases` is the drop
of `_guard` that follows. Under a token the tunnel runs in a biased `select!`, whose two polls
are two steps: `SelectPolls` sees the token unset and begins a poll of the tunnel
(`polling`), in which handovers are joined and bytes copied until the tunnel is over or
pending (`TunnelPending`). Another thread may cancel in between; `late` counts the polls that
went on after that. Handovers are hyper's and therefore external: they may come, fail or
never come. Whether a 101 passes `valid_upgrade_response` is an input of the environment,
like the status itself. The contents of headers and bodies are left out.

### DiscoverableBalancer

An endpoint is an id that stands for its `Arc<ServiceMetrics>`; a replaced endpoint gets a
new id, which is also why an id in a list twice would be the same endpoint twice (`TypeOK`
excludes it). Receiving a change and publishing the snapshot are two steps, as requests run in
between. A request captures the snapshot in `call` and chooses when it is polled; the two
loads of `p2c_select` are read in two steps. The counter is `CounterMod` wide and wraps.
The peak-EWMA load is any member of `EwmaLoads` (see `PeakEwma`). A target that does not parse
(`BadTargets`) panics the task, as `ReverseProxy::new_with_client` does.

### DnsDiscovery and DnsBalancing

`resolve_and_send` is split at every send, because the consumer runs concurrently: all
removes in any order (a hash map), then all inserts, then the update of
`current_services`. What is left to remove is known and what is left to announce is not
(`DnsTypeOK`). A failed lookup reports an error and keeps what is known. The records
of the hostname are external. `DnsBalancing` joins the channel to the discovery task of an
instance of `DiscoverableBalancer` without requests (they only read the snapshot).

### Retry

The frames of a body are records of a kind and a size. `buffer_body` reads one frame per
step; the data frames of the buffer stand for its bytes. The inner service is the proxy:
it answers, fails with or without having sent something, or cannot connect. `delivered`
records what upstreams got.

### ProxyChain

One message travels: the request from proxy to proxy, then the response back along the same
hops. At each hop it passes the RFC 9110 layer, if `Config` says that there is one
(`LayerLoops`, `LayerAnswers`, `LayerPasses`), and `forward_with` (`CoreLoops`,
`CoreForwards`); on the way back `CoreReturns` and `LayerReturns`. The next hop is any proxy or
the origin, so loops of every shape occur. A message is reduced to the set of its
headers, what each Connection line nominates (Via and Max-Forwards among them), its Via
lines as sequences of version and name, and Max-Forwards: absent, a number up to `MaxCount`
(`u32::MAX`), or `Unreadable`, which is passed on as it is. Lines stay apart because the layer reads the first one only
and the core all of them. A hop remembers in `path` what the layer's future keeps across its
await: whether it saw an upgrade, and the Via value for the response. Parsing and header values
are left out, as are `server_names` (`None`, the default) and the body of a TRACE echo.

### UpstreamUri, ForwardHeaders and Routing

`UpstreamUri` and `ForwardHeaders` are operators without state. A path is a sequence of
tokens (slash, letters, percent-escapes, placeholders), because the string functions of the
code must find segment boundaries themselves; `ReferenceSegments` says the same on
sequences of segments, where a boundary cannot be missed, following "Path Transform
Semantics" of the crate's README. A template's parameter is decoded by axum and encoded again by
`TEMPLATE_ENCODE_SET`: `Escapes` pairs every escape that stands for a character with a meaning here
(delimiters, `%`, `/`, what the set names, what a URI refuses) with that character, and one stands
for all controls. `ParsedUri` is what `Uri::from_str` makes of the result, where a `?` or `#` ends
the path. `Segments` is a fold over the tokens, written as a recursive
function so that it can be proved about.

In `Routing` a server has one mount: a proxy as a fallback service (`fallback`), one
converted into a `Router` (`router`, which `router.rs` nests unless its base is the root), or
a `proxy_route` with a base URL or a template. The server that has the request answers it
(`Unmatched` 404, `NoUpstream` 503, `BadTarget` 500, `TooLarge` 413) or forwards it (`Forward`)
to the next server or an origin (`Arrive`). The guards follow the order of the code: axum's
match, `next_proxy`, the resolution of the target, the early checks of `forward_with`. The body
follows the request: `flow` has, for every hop, what it has passed on and whether its stream is
open, ended or failed. Frames of any size move through the hops independently (`Frame`), each
through the hop's `Limited`; `BodyEnds` passes the end on, `BodyBreaks` a failure, with or without
what was still buffered, and `BodyFails` is the 502 a failed body causes while no answer has
come. `trail` is history; every property compares it with what
the current server received. Other requests take their turn at the shared counter of a
`BalancedProxy` in `OtherRequest`. What axum matches, strips and decodes is external, and so
is whether a connection to the next server is HTTP/2, where `:authority` goes along.

`PathsAssumption` says which paths and mounts these are. Paths of requests, bases and targets are
what a URI can hold: they begin with a slash and have no character that `Uri` refuses or ends a path
at. A base that axum matches (nested,
or of a route) is literal and does not end in a slash, as `nest` and `route` give such a slash a
meaning of their own; a `ReverseProxy` that is not nested may have any base. A template is a
literal path followed by its one parameter.

### PeakEwma

The metric is two variables without a common lock: `peak`, an atomic, and `lastUpdate`, behind
a mutex. Every access is a step: `Load`, the two swaps (`CasFirst`, `CasUpdate`), the lock with
the age computed under it, and the two ways to store the time; in the first of them
`Instant::now()` runs before the lock is taken (`TakeInstant`, `StampFirst`). The exponential
is the constant operator `Decay`, of which only `DecayAssumption` is used. Accesses to
the atomic are interleaved, that is, `load` reads the latest value of the relaxed atomic.

## 3. Runs

| Run | Instance | Shows |
|---|---|---|
| `ForwardSafety` | two attempts, two guards that may be shared, with and without a token, pooled and stream | ownership properties over all interleavings; the abstract lease is implemented |
| `ForwardLiveness` | one attempt | deadlines, timeout, cancellation and aborts take effect |
| `Balancer` | two valid keys and an invalid one, three endpoints ever, two starters, two requests, a one-bit counter | counts, keys, order and publication |
| `DnsBalancing` | three addresses, one pinned, two changes of the records, failing lookups | no change lost or reordered; convergence |
| `DnsIpv6` | an IPv6 address among the records | violated: see findings |
| `Retry` | all bodies of up to three data frames of distinct sizes 0 to 3, with trailers, with an error or without, a cap of 3, 0 to 3 attempts | one delivery, intact, within budget and buffer; every call ends |
| `ProxyChain` | four proxies (with and without a Via name; a layer with a name that keeps upgrades, one without), eight requests, five hops, two HTTP versions | loop detection, hop counting, what is passed on in both directions |
| `Routing` | twelve mounts of every style, among them chains of three servers and two balanced proxies; all paths of up to six tokens and some with escapes; requests with and without forwarding headers, over HTTP/1 and 2, under all pairs of policies that differ in effect; bodies of up to three bytes, of declared length or not, in all ways to cut them into frames, around all pairs of caps | paths follow the reference and parameters keep their value; the forwarding headers tell the truth about the trail; no body passes a cap or is truncated; turns are fair |
| `MountTwice` | the same | violated: see findings |
| `PeakEwma` | three updates and a reader, two latencies, two units of time | bound, peak, progress |
| `ViaCombine`, `LayerConnection` | two proxies with the layer, three hops | violated: see findings |

Why the bounds suffice. Two attempts are what sharing a guard takes; everything else in
`ForwardLifecycle` is per attempt, and the proofs hold for any number. One replaced
endpoint under two requests is what a wrong count takes. In DNS, the second change can
arrive while the first is being sent, in the channel, or applied. `MaxEndpoints` is at
least the number of inserts that can happen in `DnsBalancing`, so it never stops the task
there; in `Balancer` it only ends the series of inserts. `MaxBacklog` bounds the errors
queued by failing lookups, never a change. Liveness of `ForwardLifecycle` concerns one
attempt at a time; others share only slots with it. In `ProxyChain` a loop through any three
other proxies fits into five hops (`MaxHops`), and the requests cover several Connection
lines, several Via lines, Via and Max-Forwards nominated by Connection, and Max-Forwards at, above
and without effect, absent and unreadable.

In `Routing`, six tokens are a base, its repetition and a remainder, with room for doubled and
trailing slashes and for a segment that merely begins like the base; every escape and every
character that the template set names also occurs below a base, alone and before a letter. Bodies
of up to three bytes against caps of 1 and 2 are below, at and above a cap, and can cross it in the
middle of a frame, or at one hop while a part is already with the next. Three hops are a
first, a middle and a last element of every list. `MaxPicks` = 5 other selections make
two rounds of three upstreams, and `CounterMod` = 4 makes the counter wrap where three does not
divide it. In `PeakEwma` three updates are the first measurement, one that meets it before its
time is stored, and one that loses a swap to it; two units of time tell an old time
from an older one. The proofs need no bound but those of the types.

Deadlock checking is off where the system may rest: all requests answered, the call
returned, or the discovery task dead.

Fairness. `RuntimeFairness` says that tokio polls a task that is ready and fires timers:
weak fairness of the first poll, of deadlines, of the select's look at the token, of the
return of a poll, of the drop at the tunnel's end and of an aborted driver's end. The outcome of
the wait for the transports is strongly fair: under a token it can happen only inside a poll, and
a task whose timer has fired is polled until a poll finds that. Upstream, hyper and the client
are under no obligation. In `DnsBalancing` the tasks are weakly fair, and lookups of existing
records strongly fair: they may fail again and again but not forever, without which no
resolver can follow its records. In `Retry` the client's body ends or fails and the inner
service returns; the latter is what `forward_with` guarantees given an upstream that
answers or a timeout. In `PeakEwma` the thread of every update is scheduled (weak fairness); no
fairness of the mutex is needed, as the updates are finitely many.

### Findings

1. `DnsIpv6`: `resolve_and_send` writes `scheme://ip:port` without brackets
   (`src/src/dns_discovery.rs:177`). For an AAAA record the target does not parse,
   `ReverseProxy::new_with_client` panics in the discovery task, and no later change is
   ever applied.
2. `MountTwice`: a proxy nested under its base gets paths without it, and `transform_uri`
   strips the base again (`src/src/proxy.rs:380`). With base `/a` and target `/b`, `/a/a` is
   forwarded as `/b` when nested and as `/b/a` otherwise, against "handles both mounting
   styles consistently" (`src/README.md:316`). `HopMatchesReference` holds for everything else.
3. `ViaCombine`: with `combine_via`, `add_via_header` replaces the entries of other proxies
   (`src/src/rfc9110.rs:464`). Two such proxies on a loop erase each other's name and never
   notice it, against "Detect loops using Via headers" (`src/src/rfc9110.rs:23`). The
   passing run therefore has no combining proxy with a pseudonym.
4. `LayerConnection`: the layer reads the first Connection line and removes all
   (`src/src/rfc9110.rs:398`), so headers listed on a later line reach the upstream, against
   "Remove Connection header and all headers listed within it" (`src/src/rfc9110.rs:10`).

Two more places where the text and the code disagree, without a run of their own:

- "Without connect info the headers are passed through untouched", says `src/README.md:237-240` of
  X-Forwarded-For and X-Forwarded-Host. `build_forward_headers` sets X-Forwarded-Host (and
  X-Forwarded-Proto, given a public scheme) whether or not the client's address is known
  (`src/src/forward.rs:271`), and so does the model. `OriginalHostReported` claims nothing for a first hop
  without connect info. X-Forwarded-For and Forwarded do pass untouched (`AddressTrail`).
- "If remainder is exactly '/' under a non-empty base, treat as empty", says the comment on
  `transform_uri` (`src/src/proxy.rs:366`). The code compares the whole path with `/`, not what is left behind
  the base (`src/src/proxy.rs:376`): with base `/a` and target `/b`, a fallback proxy forwards `/a/` as `/b/`
  and `/a` as `/b`. `ReferenceSegments` follows the code here.

Limits rather than findings:

- Without a pseudonym every layer is called `proxy` (`src/src/rfc9110.rs:273`), so the second
  of two proxies with the default configuration answers 508 to everything: `NoFalseAlarm`
  needs distinct names. And, visible in `LoopNoticed`, a layer that keeps Connection for a
  WebSocket upgrade lets a client that nominates Via there erase the layer's own entry, once.
- The removes of a DNS answer are applied before its inserts, one snapshot each
  (`src/src/dns_discovery.rs:182`, `src/src/balanced_proxy.rs:324`): when all addresses
  change at once, the snapshot is empty in between. `PinnedEndpointStays` is what holds.
- A body over the retry cap is continued as a data stream (`src/src/retry.rs:120`) and loses
  its trailers, although it is not replayed; `DeliveredIntact` is about data frames.
- A template parameter is decoded by axum and encoded again by `TEMPLATE_ENCODE_SET`
  (`src/src/router_ext.rs:132`), which leaves out `%` and `/`: `%25` and `%2F` do not survive a
  template route, while a raw `@` or `[` arrives escaped. It leaves out `<`, `>` and the
  backtick as well, which a URI refuses: a template route answers 500 to `/a/%3C`.
- Max-Forwards is lost at the first hop when the client lists it in Connection
  (`src/src/forward.rs:139`), and no hop counts from there on; a value that is no `u32` is passed on
  and never counts (`src/src/rfc9110.rs:302`). `HopsCounted` says both.
- A `ReverseProxy` drops the query of its target, a `proxy_route` prefers it to the client's.
- When the first hop runs without connect info and a later one with it, the first element
  of `Forwarded` is the later hop's, and its `host=` is what that hop was asked for:
  `ForwardedDescribesOrigin` says so, and `OriginalHostReported` is about `X-Forwarded-Host`.
- The first latency is stored before its time (`src/src/balanced_proxy.rs:507`), so an update
  or a reader in between decays it by the age of the endpoint. It is never raised. The comments
  speak of 50% in five seconds, `exp(-t/5)` is 63%.

Several properties of the runs are conjunctions of named parts, which the modules state and
comment one by one: `UpstreamUriCorrect`, `HeadersTellTheTrail`, `SnapshotIsCurrent`,
`WithinLimits`, `HopByHopEnds` and `UpgradeEnds`.

## 4. Proofs

Every safety property of a passing run is a theorem: it holds for any number of requests,
attempts, keys, servers, proxies and hops, and for paths, bodies, lists and chains of any length.
The run on the small instance came first, for the property and for the invariant behind it. The
theorems rest on the named assumptions of the modules, which TLC evaluates on every run and
which say what values the constants have, and on nothing else.

**Forwarding.** `ForwardLifecycleProofs` assumes only that `NoGuard` is no guard and
`UpstreamTimeout` a Boolean. `ReleasedExactlyOnce` is not inductive by itself: that a
release is the only one requires that the resource is at one place. `OwnershipInv` adds

- `Placement`: the three guard fields as a function of the stage of the attempt, and which
  stages exclude each other;
- `SlotsIntact`: what is in its slot was taken by nobody;
- `TransportsHeld`: only a tunnel that is up owns transports.

One lemma per part (`PlacementStep`, `TakerStep`, `ReleaseStep`, `TransportStep`) goes
through the actions; `ReleasedExactlyOnce`, `OneTaker`, `WorkIsCovered`,
`TransportsDropFirst` and `NoOrphanDriver` follow. `CancellationWins` bounds what the tunnel gets
after a cancellation by the poll that was under way. Its invariant is `PollsPrecede`: a poll under
way began before the cancellation, so none has counted as late yet, and one that has counted is
evidence of a cancellation, which keeps the select from beginning another. `LeaseTheorem` maps each action
to a step of `ResourceLease` or to a stutter and concludes `Spec => ImplementsLease`.

**Balancer.** `PendingExact` follows the set of requests in flight to an endpoint through each
action (cardinalities from the finite-set theorems; this is why the set of requests is
assumed finite); `OneDiscoveryTask` needs that a task exists only once the flag is set. For
`SnapshotIsCurrent` the invariant `ListsInv` says that no list has two endpoints of a key, which
an insert keeps because it filters the key out first, and that a task that waits has
published its list. `TypeOK` joins the types proper (`FieldTypes`) with the same fact about ids. `SurvivorsKeepOrder` compares the lists of keys before and after a change:
one is the other up to the key the change is about.

**DNS.** `ImplementsBalancer` shows that every behaviour of the composition is one of
`DiscoverableBalancer`, so that its theorems hold of the balancer fed by DNS (`BalancerProofs` is
instantiated like the model). `ReplayTheorem` is the conservation law of the pipeline: the keys
in service, with the changes in the channel applied in their order, are what was announced,
whatever the resolver has still to send (`SendInv`). `PinnedTheorem` adds that an address of
every answer is announced once and never taken back.

**Retry.** The invariant accounts for every byte: before the loop, what is buffered, in hand and
still to be read is the client's body; in it, the buffer alone is. `CallsAccounted`
relates the history of calls to the loop's counter.

**Routing.** `ReportedInv` describes the two forwarding lists element by element: what survived of
the client's own, then the neighbour of each reporting hop. The lists that `HeadersTellTheTrail`
speaks of differ in one step by an element at their end, so each of its five parts is an
invariant together with the shape of the trail; X-Forwarded-Proto (`ProtoIsFirst`) is either still
absent, and then no hop so far had a scheme to give, or the first one's. `FlowInv` carries
`BodyWithinCaps`: what a hop has passed on is within its own cap and no more than what the hop before
it has, so it is within every cap before; a stream ends only when the one before has ended and all of
it has passed; a failure is passed on from a hop whose cap the body exceeds. `SpreadEvenly` rests on `PicksInv` (the
counter is never ahead of the selections) and on arithmetic modulo the number of upstreams.

**Upstream URIs.** `UriTheorem` compares two algorithms, for paths, bases and targets of any length:
the code's on tokens and the reference on segments. Four facts carry it, the first three about `Segments`:

- it reads token by token (`SegmentsAppend`), so it distributes over a path that continues with a
  slash (`SegmentsConcat`);
- it is injective on paths that begin with a slash (`SegmentsInjective`), so the reference leaves no
  choice of the path;
- the first segments of a path are the segments of a beginning of it that ends before a slash
  (`SegmentsCut`); with injectivity, a path whose segments begin with those of the base has
  the base in front, at a boundary (`BoundaryOfSegments`), which is where `transform_uri` and
  `strip_route_prefix` look; the converse is `BoundarySplits` with `SegmentsConcat`;
- `trim_end_matches` leaves nothing, or a path that begins with a slash and does not end in one
  (`Trimmed`, `TrimEndRooted`): the reason the code gives why "plain concatenation never
  duplicates a slash" (`src/src/proxy.rs:393`).

`TransformCorrect`, `NestedCorrect`, `RouteCorrect` and `TemplateCorrect` state the agreement for each
way to write a URI. The exceptions are those `HopMatchesReference` names: a nested proxy that strips
twice (finding 2) and, in a template's parameter, the characters that are written another way
afterwards. For templates, `EscapesPair` says that escapes and characters determine each other and
`Recoded` what decoding and encoding makes of one token: its value stays, it is no `?` and no `#`,
and only `%3C`, `%3E` and `%60` become something a URI refuses. `TemplateCorrect` lifts this to the whole
URL and `ParsedAsWritten` to what `Uri` reads from it, which is `ParametersKeepStructure`. `PathInv` adds what
makes these lemmas apply at the next hop: what was written is again a path that begins with a slash
and that a URI can hold. `Join` is a chain of conditions like the code's: as
a `CASE` its guards would overlap and leave open which branch is taken.

**Chains of proxies.** What every step needs is in lemmas about single functions of the code
(`ForwardedFields`, `LayerFields`, `LayerViaFields`, ...) and about the path. Then

- `ListingInv`: once a request has been forwarded, its Connection header lists `upgrade` or
  nothing, so that stripping again takes nothing else away (`HopByHopStops`), Via included;
- `CountInv`: the layers passed, counted as a set, and the remaining Max-Forwards add up, unless the
  value is gone. Then it was the client that listed it: what is nominated at a later hop was
  nominated by the client (`NominatedStays`, from `ListingInv`);
- `HandshakeInv` and `ResponseInv`: a 101 comes back only through layers that saw the
  upgrade, and a response that has been through one proxy stays as that proxy left it;
- `MarkedInv`: every proxy that names itself is in the *first* Via line of what it has
  forwarded, which is what the next proxy's layer looks at; `LoopNoticed` follows because a
  proxy that finds its name there does not forward;
- `TrueNamesInv`: the names in Via are those of the hops and of the client (`NoFalseAlarm`).

`LoopTheorem` assumes `NoCombining` (no layer with a pseudonym has `combine_via`): without it the
property is false, as finding 3 shows. `AlarmTheorem` assumes `DistinctNames`, without which a
second proxy with the default name answers 508 to everything. The instance of the run satisfies both.
`HopByHopStops` and `UpgradeSurvives` speak of clients that do not list their own handshake headers
in Connection (`KeepsHandshake`): the first proxy strips what is listed there, as it must, and what it
forwards is then no handshake for the second. The run has such a request.

**Latency.** `PeakEwmaProofs` adds to the bound on metric and loads the bound on what an update
carries between its steps (`CarriedBelow`), without which the swap would not preserve it. With
`EwmaBounds` (the average lies between the decayed value and the larger operand) and
`DecayBounds`, `NeverAboveMeasurements` and `PeakHolds` follow for any number of threads and
any decay; neither needs the mutex.

**Induction over data.** The library's induction theorems take an operator as a parameter, which
the provers cannot instantiate. `SequenceLemmas` states induction with sets instead (a set of
numbers or sequences that holds the first and with each the next holds all), from the minimum
of a well-founded set. With it, what a recursive function over the prefixes of a sequence
computes can be proved: `RecursionOnPrefixes` that it exists, `Unfolding` that its equations
determine it. `Filter` and `Total` (`SequenceFolds`) and `Segments` (`UpstreamUri`) are written that
way for this purpose, and `FlattenRuns` does the same for `FlattenSeq` of the community modules.

Two assumptions are for the provers alone: that the literal `"proxy"` is a string
(`DefaultNameAssumption`) they do not derive, and `NoneAssumption` keeps `None` apart from numbers and
strings, as Rust's types do.

Model-checked only: all liveness properties (`UpgradeEnds`, `CancelReleases`,
`DroppedStreamStops`, `Converges`, `CallEnds`, `EveryUpdateEnds`), which are beyond the prover.

## 5. Not modelled

- `StaticDnsDiscovery`: one lookup, one insert per address, the end. It is a loop without state
  of its own, and not `Clone`, so it cannot even feed `DiscoverableBalancedProxy`.
- `server_names` and the TRACE echo of the RFC 9110 layer; `valid_upgrade_response` (an input).
- Custom `TargetResolver`s are user code; templates with other parameters than one catch-all.
- Escapes that decode to no UTF-8, which axum's `Path` refuses with 400 before the proxy runs; a client
  that aborts its body in the middle (in `Retry` it may).
- Header values that are not visible ASCII, which several functions skip.
- TLS configuration, the crate root: no behaviour of their own.

## 6. Plan

Done, in this order: `ForwardLifecycle` with `ResourceLease`; `DiscoverableBalancer`,
`DnsDiscovery`, `DnsBalancing`; `Retry`; `ProxyChain`; `UpstreamUri`, `ForwardHeaders` and
`Routing`; `PeakEwma`; then the proofs of each.

Next: `server_names` in `ProxyChain`; templates with more than one parameter in `Routing`.
