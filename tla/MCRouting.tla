------------------------------- MODULE MCRouting -------------------------------
(* An instance of Routing: every style of mount, a chain of three hops and two *)
(* balanced proxies.                                                          *)
EXTENDS Routing

Target1(server, path) == <<[server |-> server, path |-> path, query |-> NoValue]>>

Plain(style, base, targets) == [style |-> style, base |-> base, balanced |-> FALSE, targets |-> targets]

A == <<"/", "a">>
B == <<"/", "b">>

MCServers ==
  [nest   |-> Plain("router", A, Target1("origin", B)),
   root   |-> Plain("router", <<>>, Target1("origin", <<"/">>)),
   slash  |-> Plain("router", <<"/">>, Target1("origin", B)),
   bare   |-> Plain("fallback", A, Target1("origin", B)),
   fall   |-> Plain("fallback", <<"/", "a", "/">>, Target1("origin", <<"/", "b", "/">>)),
   route  |-> Plain("route", A, <<[server |-> "origin", path |-> <<"/", "b", "/">>, query |-> "own"]>>),
   tmpl   |-> Plain("template", A, Target1("origin", <<"/", "b", "/", Placeholder>>)),
   void   |-> Plain("template", A, Target1(NoValue, <<"/", Placeholder>>)),
   spread |-> [style |-> "router", base |-> A, balanced |-> TRUE,
               targets |-> Target1("origin", B) \o Target1("back", <<"/">>) \o Target1("other", A)],
   empty  |-> [style |-> "router", base |-> A, balanced |-> TRUE, targets |-> <<>>],
   front  |-> Plain("fallback", <<>>, Target1("mid", B)),
   mid    |-> Plain("router", B, Target1("back", A)),
   back   |-> Plain("fallback", <<>>, Target1("origin", <<"/">>))]

Default == [preserveHost |-> FALSE, append |-> TRUE, scheme |-> NoValue, cap |-> {}, knowsPeer |-> TRUE]

Defaults == [s \in DOMAIN MCServers |-> Default]

Request(path) ==
  [path |-> path, query |-> "q", host |-> "public", authority |-> NoValue,
   xff |-> <<>>, fwd |-> <<>>, xfh |-> NoValue, xfp |-> NoValue, nominated |-> {},
   size |-> 0, declared |-> TRUE]

\* Every path of up to six tokens over the slash and two letters, and below /a every escape
\* and every character that a template escapes.
Paths ==
  UNION {{<<"/">> \o s : s \in [1..n -> {"/", "a", "b"}]} : n \in 0..5}
    \cup UNION {{A \o <<"/", t>>, A \o <<"/", t, "b">>} :
                t \in {e[1] : e \in Escapes} \cup {"@", "backslash", "[", "]"}}

PathScenarios ==
  {[request |-> Request(p), entry |-> s, policy |-> Defaults] :
     p \in Paths, s \in {"nest", "root", "slash", "bare", "fall", "route", "tmpl"}}

BalancedScenarios ==
  {[request |-> Request(p), entry |-> s, policy |-> Defaults] :
     p \in {A, B, A \o B, A \o B \o A}, s \in {"void", "spread", "empty", "front"}}

\* What a policy says of the peer and of the scheme matters only when it appends.
Appending(scheme) ==
  {[Default EXCEPT !.preserveHost = h, !.knowsPeer = k, !.scheme = scheme] : h, k \in BOOLEAN}

Silent == {[Default EXCEPT !.preserveHost = h, !.append = FALSE] : h \in BOOLEAN}

\* A client over HTTP/1 or HTTP/2, with or without forwarding headers of its own.
HeaderRequests ==
  {[Request(A) EXCEPT !.host = o[1], !.authority = o[2], !.xff = f[1], !.fwd = f[2], !.xfh = f[3],
                      !.xfp = f[3], !.nominated = n] :
     o \in {<<"public", NoValue>>, <<NoValue, "public">>, <<NoValue, NoValue>>},
     f \in {<<<<>>, <<>>, NoValue>>,
            <<<<"earlier">>, <<[for |-> "earlier", host |-> "given", proto |-> NoValue]>>, "given">>},
     n \in {{}, {"host", "x-forwarded-for"}, {"forwarded", "x-forwarded-host", "x-forwarded-proto"}}}

HeaderScenarios ==
  {[request |-> r, entry |-> "front", policy |-> [Defaults EXCEPT !.front = p, !.mid = q]] :
     r \in HeaderRequests, p \in Appending("https") \cup Appending(NoValue) \cup Silent,
     q \in Appending("http") \cup Silent}

BodyScenarios ==
  {[request |-> [Request(A) EXCEPT !.size = n, !.declared = d], entry |-> s[1],
    policy |-> [Defaults EXCEPT ![s[1]].cap = c, ![s[2]].cap = e]] :
     n \in 0..3, d \in BOOLEAN, s \in {<<"front", "mid">>, <<"spread", "back">>},
     c, e \in {{}, {1}, {2}}}

MCScenarios == PathScenarios \cup BalancedScenarios \cup HeaderScenarios \cup BodyScenarios
================================================================================
