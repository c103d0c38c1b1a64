---------------------------- MODULE ForwardHeaders -----------------------------
(***************************************************************************)
(* The headers by which a hop tells the next one where a request came from: *)
(* Host, X-Forwarded-For, -Host and -Proto, and Forwarded                   *)
(* (build_forward_headers and append_forwarded_header, src/src/forward.rs). *)
(*                                                                          *)
(* A request carries host (the Host header), authority (the :authority of   *)
(* HTTP/2, which hyper puts in the URI), xff and fwd (the elements of       *)
(* X-Forwarded-For and Forwarded), xfh, xfp, and nominated: the headers its *)
(* Connection header names, which therefore end at this hop.  The other     *)
(* headers are in ProxyChain.  Values are assumed to be visible ASCII.      *)
(***************************************************************************)
EXTENDS Sequences

NoValue == "none"

OrElse(value, other) == IF value = NoValue THEN other ELSE value

\* What is left of a header once the hop-by-hop ones are stripped.
Survives(req, name, value, absent) == IF name \in req.nominated THEN absent ELSE value

\* build_forward_headers: the client's Host only under HostBehaviour::Preserve, with the
\* client's :authority in its absence.
HostHeader(req, policy) ==
  IF policy.preserveHost
  THEN OrElse(Survives(req, "host", req.host, NoValue), req.authority)
  ELSE NoValue

\* forward_with fills a missing Host in from the upstream's authority.
ForwardedHost(req, policy, upstream) == OrElse(HostHeader(req, policy), upstream)

\* The host reported to the upstream comes from the headers as they arrived.
ReportedStripped(req) == OrElse(Survives(req, "host", req.host, NoValue), req.authority)  \* faulty

ClientHost(req) == OrElse(req.host, req.authority)

\* append_forwarded_header: host and proto belong to the first element only.
AppendForwarded(fwd, peer, host, scheme) ==
  LET first == fwd = <<>>
  IN  Append(fwd, [for   |-> peer,
                   host  |-> IF first THEN host ELSE NoValue,
                   proto |-> IF first THEN scheme ELSE NoValue])

AppendPeer(list, peer) == Append(list, peer)

\* build_forward_headers with the Host of forward_with.  peer is NoValue when the server
\* was started without connect info.
BuildForwardHeaders(req, peer, policy, upstream) ==
  LET xff  == Survives(req, "x-forwarded-for", req.xff, <<>>)
      fwd  == Survives(req, "forwarded", req.fwd, <<>>)
      xfh  == Survives(req, "x-forwarded-host", req.xfh, NoValue)
      xfp  == Survives(req, "x-forwarded-proto", req.xfp, NoValue)
      host == ForwardedHost(req, policy, upstream)
      known == peer # NoValue
  IN  IF policy.append
      THEN [host |-> host,
            xff  |-> IF known THEN AppendPeer(xff, peer) ELSE xff,
            fwd  |-> IF known THEN AppendForwarded(fwd, peer, ClientHost(req), policy.scheme) ELSE fwd,
            xfh  |-> OrElse(xfh, ClientHost(req)),
            xfp  |-> OrElse(xfp, policy.scheme)]
      ELSE [host |-> host, xff |-> xff, fwd |-> fwd, xfh |-> xfh, xfp |-> xfp]
================================================================================
