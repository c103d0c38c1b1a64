------------------------------- MODULE ProxyChain -------------------------------
(***************************************************************************)
(* A request that travels through several proxies, maybe in a circle, and   *)
(* the response on its way back.  Each proxy is forward_with's treatment of *)
(* headers (src/src/forward.rs), with the Rfc9110Layer (src/src/rfc9110.rs) *)
(* in front of it or without.  Of a message only what proxies exchange is   *)
(* left: which headers it has, what its Connection lines nominate, its Via  *)
(* lines and its Max-Forwards.  server_names is None, its default.          *)
(***************************************************************************)
EXTENDS Integers, Sequences, FiniteSets, SequencesExt

CONSTANTS
  Proxies,     \* the proxies
  Config,      \* Config[n]: policy.via and the layer's Rfc9110Config
  None,        \* no pseudonym, no Max-Forwards
  Unreadable,  \* a Max-Forwards that does not parse as a u32
  MaxCount,    \* u32::MAX
  Requests,    \* requests that clients send
  Responses,   \* responses of the origin
  Versions,    \* HTTP versions of the connections
  MaxHops      \* bound: hops of a request

ASSUME ConfigAssumption ==
  Config \in [Proxies -> [via : {None} \cup STRING, layer : BOOLEAN,
                          pseudonym : {None} \cup STRING, combine : BOOLEAN, preserve : BOOLEAN]]
ASSUME MaxHopsAssumption == MaxHops \in Nat \ {0}
ASSUME MaxCountAssumption == MaxCount \in Nat
ASSUME NoneAssumption ==
  None \notin Nat \cup STRING /\ Unreadable \notin Nat /\ None # Unreadable

VARIABLES
  client,   \* the request as it was sent
  sent,     \* the origin's response as it was sent
  msg,      \* the message in transit
  path,     \* the hops the request has made, the response has still to make
  stage,    \* where the message is in the last of them
  answer    \* who made the response

vars == <<client, sent, msg, path, stage, answer>>

\* "sec-websocket" stands for Sec-WebSocket-Key and -Version, "keep-alive" for the
\* hop-by-hop headers without a role of their own, "cache-control" for the known
\* end-to-end headers.  Connection, Via and Max-Forwards are fields; Connection may list
\* the other two.
HopByHop == {"keep-alive", "te", "upgrade"}
EndToEnd == {"cache-control"}
Names == HopByHop \cup EndToEnd \cup {"x-a", "x-b", "sec-websocket"}
Listable == Names \cup {"via", "max-forwards"}

ViaLines == Seq(Seq([version : Versions, name : STRING]))

\* trailers: the value of te, if it has one; traced: the method is TRACE or OPTIONS.
Messages == [hdrs : SUBSET Names, trailers : BOOLEAN, conn : Seq(SUBSET Listable),
             via : ViaLines, maxForwards : {None, Unreadable} \cup 0..MaxCount, traced : BOOLEAN]

ASSUME MessagesAssumption == Requests \subseteq Messages /\ Responses \subseteq Messages

NoMessage == [hdrs |-> {}, trailers |-> FALSE, conn |-> <<>>, via |-> <<>>, maxForwards |-> None,
              traced |-> FALSE]

Hop(n, v) == [proxy |-> n, version |-> v, ws |-> FALSE, via |-> <<>>]

TypeOK ==
  /\ client \in Messages /\ sent \in Messages /\ msg \in Messages
  /\ path \in Seq([proxy : Proxies, version : Versions, ws : BOOLEAN, via : ViaLines])
  /\ path = <<>> <=> stage = "client"
  /\ stage \in {"layer", "core", "origin", "coreBack", "layerBack", "client"}
  /\ answer \in {"none", "origin", "upgrade", "loop", "maxForwards"}

Entry(n) == IF Config[n].layer THEN "layer" ELSE "core"

Init ==
  /\ client \in Requests
  /\ msg = client
  /\ sent = NoMessage
  /\ \E n \in Proxies, v \in Versions : path = <<Hop(n, v)>> /\ stage = Entry(n)
  /\ answer = "none"

here == Last(path)
Nominated(m) == UNION Range(m.conn)

--------------------------------------------------------------------------------
(* Headers in forward_with *)

\* hop_by_hop_headers: the standard set without `te: trailers`, and all that the
\* Connection lines nominate.
StandardOnly(m) == HopByHop \ (IF m.trailers THEN {"te"} ELSE {})  \* faulty: no nominations

Strips(m) == (HopByHop \ (IF m.trailers THEN {"te"} ELSE {})) \cup Nominated(m)

\* is_websocket_upgrade and upgrade_headers.
IsUpgrade(m) == "upgrade" \in Nominated(m) /\ {"upgrade", "sec-websocket"} \subseteq m.hdrs

UpgradeHeaders(m) == [m EXCEPT !.hdrs = @ \cup {"upgrade"}, !.conn = <<{"upgrade"}>>]

Stripped(m) ==
  [m EXCEPT !.hdrs = @ \ Strips(m), !.conn = <<>>, !.via = IF "via" \in Strips(m) THEN <<>> ELSE @,
            !.maxForwards = IF "max-forwards" \in Strips(m) THEN None ELSE @]

\* append_via: all lines are joined to one.
ReplaceVia(lines, v, name) == <<<<[version |-> v, name |-> name]>>>>  \* faulty: chain lost

AppendVia(lines, v, name) == <<FlattenSeq(lines) \o <<[version |-> v, name |-> name]>>>>

WithVia(m, v, name) == IF name = None THEN m ELSE [m EXCEPT !.via = AppendVia(@, v, name)]

Forwarded(m) ==
  LET out == WithVia(Stripped(m), here.version, Config[here.proxy].via)
  IN  IF IsUpgrade(m) THEN UpgradeHeaders(out) ELSE out

\* via_contains_pseudonym, over all lines.
CoreLoop(m) ==
  /\ Config[here.proxy].via # None
  /\ \E e \in Range(FlattenSeq(m.via)) : e.name = Config[here.proxy].via

--------------------------------------------------------------------------------
(* Headers in the layer *)

SharedName(n) == "proxy"                              \* faulty: the configured name is not used

LayerName(n) == IF Config[n].pseudonym = None THEN "proxy" ELSE Config[n].pseudonym

\* True of every literal; the provers are told of this one.
ASSUME DefaultNameAssumption == "proxy" \in STRING

\* Only the first Via line is looked at, by detect_loop and by add_via_header.
FirstVia(m) == IF m.via = <<>> THEN <<>> ELSE m.via[1]

LayerLoop(m) == \E e \in Range(FirstVia(m)) : e.name = LayerName(here.proxy)

NeverPreserves(m) == FALSE                            \* faulty: preserve_websocket_headers lost

Preserves(m) == Config[here.proxy].preserve /\ "sec-websocket" \in m.hdrs

\* process_connection_header and process_response_headers: the first Connection line
\* counts, and it cannot remove a known end-to-end header.
LayerStripped(m, ws) ==
  LET nominated == IF m.conn = <<>> THEN {} ELSE m.conn[1] \ EndToEnd
      strips == (HopByHop \cup nominated) \ (IF ws THEN {"upgrade"} ELSE {})
  IN  [m EXCEPT !.hdrs = @ \ strips,
                !.conn = IF ws THEN @ ELSE <<>>,
                !.via = IF "via" \in strips THEN <<>> ELSE @,
                !.maxForwards = IF "max-forwards" \in strips THEN None ELSE @]

\* add_via_header: with combine_via and a pseudonym, entries of one version are replaced.
LayerVia(m) ==
  LET n == here.proxy
      own == [version |-> here.version, name |-> LayerName(n)]
      replaces == /\ m.via # <<>> /\ Config[n].combine /\ Config[n].pseudonym # None
                  /\ \A e \in Range(FirstVia(m)) : e.version = here.version
  IN  <<IF replaces THEN <<own>> ELSE Append(FirstVia(m), own)>>

\* process_max_forwards; a value that is no u32 is passed on as it is.
Counts(m) == m.traced /\ m.maxForwards \in 0..MaxCount

NeverExhausted(m) == FALSE                            \* faulty: zero is decremented too

Exhausted(m) == Counts(m) /\ m.maxForwards = 0

NotDecremented(m) == m                                \* faulty: passed on as it came

Decremented(m) == IF Counts(m) THEN [m EXCEPT !.maxForwards = @ - 1] ELSE m

--------------------------------------------------------------------------------
(* The request *)

Answer(kind, back) ==
  /\ answer' = kind
  /\ msg' = NoMessage
  /\ stage' = back
  /\ UNCHANGED <<client, sent>>

\* A message made by the layer goes straight to the hop before.
Popped(p) == IF Len(p) = 1 THEN <<>> ELSE Front(p)
BackTo(p) == IF p = <<>> THEN "client" ELSE "coreBack"

LayerLoops ==
  /\ stage = "layer"
  /\ LayerLoop(msg)
  /\ path' = Popped(path)
  /\ Answer("loop", BackTo(path'))

LayerAnswers ==
  /\ stage = "layer"
  /\ ~LayerLoop(msg)
  /\ Exhausted(msg)
  /\ path' = Popped(path)
  /\ Answer("maxForwards", BackTo(path'))

LayerPasses ==
  /\ stage = "layer"
  /\ ~LayerLoop(msg)
  /\ ~Exhausted(msg)
  /\ LET ws == Preserves(msg)
         m == LayerStripped(Decremented(msg), ws)
     IN  /\ msg' = [m EXCEPT !.via = LayerVia(m)]
         /\ path' = [path EXCEPT ![Len(path)] = [@ EXCEPT !.ws = ws, !.via = LayerVia(m)]]
  /\ stage' = "core"
  /\ UNCHANGED <<client, sent, answer>>

CoreLoops ==
  /\ stage = "core"
  /\ CoreLoop(msg)
  /\ path' = path
  /\ Answer("loop", "layerBack")

\* The upstream is another proxy or the origin.
CoreForwards ==
  /\ stage = "core"
  /\ ~CoreLoop(msg)
  /\ msg' = Forwarded(msg)
  /\ \/ stage' = "origin" /\ path' = path
     \/ /\ Len(path) < MaxHops
        /\ \E n \in Proxies, v \in Versions : path' = Append(path, Hop(n, v)) /\ stage' = Entry(n)
  /\ UNCHANGED <<client, sent, answer>>

--------------------------------------------------------------------------------
(* The response *)

\* External: the origin answers, an upgrade request maybe with a 101.
OriginAnswers ==
  /\ stage = "origin"
  /\ \E r \in Responses :
       \/ answer' = "origin" /\ sent' = r
       \/ IsUpgrade(msg) /\ answer' = "upgrade" /\ sent' = UpgradeHeaders(r)
  /\ msg' = sent'
  /\ stage' = "coreBack"
  /\ UNCHANGED <<client, path>>

\* strip_hop_by_hop_response_headers and what follows it in forward_with.
Returned(m, v) ==
  LET out == Stripped(m)
  IN  WithVia(IF answer = "upgrade" THEN UpgradeHeaders(out) ELSE out, v, Config[here.proxy].via)

CoreReturns ==
  /\ stage = "coreBack"
  /\ \E v \in Versions : msg' = Returned(msg, v)
  /\ stage' = "layerBack"
  /\ UNCHANGED <<client, sent, path, answer>>

\* process_response_headers does to a response what process_connection_header does to a
\* request.  The response then gets the Via of the request.
LayerResponse(m) == [LayerStripped(m, here.ws /\ answer = "upgrade") EXCEPT !.via = here.via]

LayerReturns ==
  /\ stage = "layerBack"
  /\ msg' = IF Config[here.proxy].layer THEN LayerResponse(msg) ELSE msg
  /\ path' = Popped(path)
  /\ stage' = BackTo(path')
  /\ UNCHANGED <<client, sent, answer>>

--------------------------------------------------------------------------------
Next ==
  \/ LayerLoops \/ LayerAnswers \/ LayerPasses \/ CoreLoops \/ CoreForwards
  \/ OriginAnswers \/ CoreReturns \/ LayerReturns

Spec == Init /\ [][Next]_vars

--------------------------------------------------------------------------------
(* Properties *)

\* The hops that have forwarded the request.
Relays == {i \in DOMAIN path : i < Len(path) \/ stage = "origin"}

Named(n) == Config[n].layer \/ Config[n].via # None

\* Loop detection: a proxy that puts its name into Via does not forward a request a second
\* time, whatever the proxies in between did to the chain.  A layer that keeps the client's
\* Connection header for an upgrade loses its name once if that header nominates Via.
LoopNoticed ==
  \A i, j \in Relays :
    i < j /\ path[i].proxy = path[j].proxy /\ Named(path[i].proxy) =>
      i = 1 /\ path[i].ws /\ "via" \in Nominated(client)

\* Loop detection raises no false alarm: 508 is answered only by a proxy that the request
\* has been through, or that the client itself named in Via, given distinct names.
NoFalseAlarm ==
  [][answer = "none" /\ answer' = "loop" =>
       \/ \E i \in Relays : path[i].proxy = here.proxy
       \/ \E e \in Range(FlattenSeq(client.via)) :
            e.name \in {Config[here.proxy].via, LayerName(here.proxy)}]_vars

\* Max-Forwards of TRACE and OPTIONS counts down along the whole chain, whatever happens to
\* the other headers: what is left and the layers passed add up to what the client allowed.
\* Of other requests, and when it is no number, the value stays.  It gets lost only if the
\* client lists it in Connection.
HopsCounted ==
  LET passed == {i \in DOMAIN path : Config[path[i].proxy].layer /\ (i < Len(path) \/ stage # "layer")}
      lost == msg.maxForwards = None /\ client.maxForwards # None
  IN  answer = "none" =>
        /\ lost => "max-forwards" \in Nominated(client)
        /\ ~lost =>
             IF Counts(client)
             THEN msg.maxForwards + Cardinality(passed) = client.maxForwards
             ELSE msg.maxForwards = client.maxForwards

\* The client does not list its own handshake in Connection, so that the first proxy keeps it.
KeepsHandshake(m) == IsUpgrade(m) => "sec-websocket" \notin Nominated(m)

\* What proxies without the layer pass on: exactly the end-to-end headers, `te: trailers`
\* and, for an upgrade, Upgrade and Connection, however many hops and Connection lines.
PassedOn(m) ==
  LET te == IF m.trailers THEN {"te"} ELSE {}
  IN  m.hdrs \ ((HopByHop \ te) \cup Nominated(m))

HopByHopStops ==
  (/\ answer = "none" /\ Relays # {} /\ KeepsHandshake(client)
   /\ \A i \in DOMAIN path : ~Config[path[i].proxy].layer) =>
    /\ msg.hdrs = PassedOn(client) \cup (IF IsUpgrade(client) THEN {"upgrade"} ELSE {})
    /\ msg.conn = IF IsUpgrade(client) THEN <<{"upgrade"}>> ELSE <<>>

\* An upgrade reaches the origin as an upgrade through every layer that is to preserve it.
UpgradeSurvives ==
  LET preserved == \A i \in DOMAIN path : Config[path[i].proxy].layer => Config[path[i].proxy].preserve
  IN  stage = "origin" /\ IsUpgrade(client) /\ KeepsHandshake(client) /\ preserved => IsUpgrade(msg)

\* The client gets the origin's end-to-end headers, none that is meant for one connection,
\* and Upgrade exactly with a 101.
ResponseArrivesClean ==
  stage = "client" /\ answer \in {"origin", "upgrade"} =>
    /\ msg.hdrs \cap Nominated(sent) \subseteq {"upgrade"}
    /\ "upgrade" \in msg.hdrs <=> answer = "upgrade"
    /\ PassedOn(sent) \subseteq msg.hdrs \cup {"te"}

\* What is meant for one connection ends with it, in both directions, and nothing else is
\* lost (hop_by_hop_headers, strip_hop_by_hop_response_headers, Rfc9110Layer).
HopByHopEnds == HopByHopStops /\ ResponseArrivesClean

\* "Remove Connection header and all headers listed within it" (src/src/rfc9110.rs:10): no
\* header the client listed, known end-to-end headers aside, gets past the layer.
ListedIsRemoved ==
  stage = "core" /\ Len(path) = 1 /\ Config[here.proxy].layer /\ ~here.ws =>
    msg.hdrs \cap Nominated(client) \subseteq EndToEnd
================================================================================
