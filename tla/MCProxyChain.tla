------------------------------ MODULE MCProxyChain ------------------------------
(***************************************************************************)
(* Chains for ProxyChain: the proxies that may be in them, the requests that *)
(* enter and the responses that come back.                                   *)
(***************************************************************************)
EXTENDS ProxyChain

Core(name) == [via |-> name, layer |-> FALSE, pseudonym |-> None, combine |-> FALSE, preserve |-> FALSE]
Layered(name, combine, preserve) ==
  [via |-> None, layer |-> TRUE, pseudonym |-> name, combine |-> combine, preserve |-> preserve]

\* With and without a Via name, with a layer that keeps upgrades and one that does not
\* (combine_via is without effect when there is no pseudonym).
MixedConfig ==
  [n \in Proxies |-> CASE n = "named"  -> Core("named")
                       [] n = "silent" -> Core(None)
                       [] n = "ws"     -> Layered("ws", FALSE, TRUE)
                       [] n = "plain"  -> Layered(None, TRUE, FALSE)]

\* combine_via in every proxy, each under its own name.
CombiningConfig == [n \in Proxies |-> Layered(n, TRUE, TRUE)]

\* Rfc9110Config::default() in every proxy: all bear one name.
DefaultConfig == [n \in Proxies |-> Layered(None, TRUE, TRUE)]

By(name) == [version |-> "1.1", name |-> name]

Get == [NoMessage EXCEPT !.hdrs = {"cache-control", "x-a", "x-b", "keep-alive", "te"}, !.trailers = TRUE,
                         !.conn = <<{"x-a", "cache-control"}, {"x-b"}>>]

Handshake == [NoMessage EXCEPT !.hdrs = {"upgrade", "sec-websocket", "x-a"},
                               !.conn = <<{"x-a"}, {"upgrade"}>>]

Relayed == [NoMessage EXCEPT !.hdrs = {"x-a", "te"}, !.conn = <<{"via", "te"}>>,
                             !.via = <<<<By("other")>>, <<By("named"), By("ws")>>>>]

Trace(k) == [NoMessage EXCEPT !.traced = TRUE, !.maxForwards = k, !.via = <<<<By("other")>>>>]

MixedRequests ==
  {Get, Handshake, [Handshake EXCEPT !.conn = <<{"via", "upgrade"}>>],
   [Handshake EXCEPT !.conn = <<{"sec-websocket", "upgrade"}>>],
   Relayed, [Relayed EXCEPT !.conn = <<>>],
   Trace(0), Trace(2), Trace(Unreadable), [Trace(1) EXCEPT !.traced = FALSE],
   [Trace(2) EXCEPT !.hdrs = {"x-a"}, !.conn = <<{"max-forwards"}, {"x-a"}>>]}

PlainRequests == {NoMessage}

MixedResponses ==
  {[NoMessage EXCEPT !.hdrs = {"x-a", "x-b", "cache-control", "keep-alive", "upgrade"},
                     !.conn = <<{"keep-alive"}, {"x-b"}>>]}
================================================================================
