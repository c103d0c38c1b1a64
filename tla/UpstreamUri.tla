------------------------------ MODULE UpstreamUri ------------------------------
(***************************************************************************)
(* How the path of a request becomes the path of the upstream request:      *)
(* transform_uri (src/src/proxy.rs), strip_route_prefix, build_upstream_uri *)
(* and template substitution (src/src/router_ext.rs).  The code works on    *)
(* strings and has to find segment boundaries itself, so a path is a        *)
(* sequence of tokens: "/", letters, percent-escapes and, in patterns and   *)
(* templates, placeholders.                                                 *)
(***************************************************************************)
EXTENDS Naturals, Sequences, SequencesExt

Slash == "/"

\* str::trim_end_matches('/').
TrimEnd(s) == SubSeq(s, 1, Max({0} \cup {i \in DOMAIN s : s[i] # Slash}))

\* What follows a prefix, and whether it begins at a segment boundary.
After(s, prefix) == SubSeq(s, Len(prefix) + 1, Len(s))

AnyPrefix(s, prefix) == IsPrefix(prefix, s)            \* faulty: /apiary is under /api

AtBoundary(s, prefix) ==
  /\ IsPrefix(prefix, s)
  /\ After(s, prefix) = <<>> \/ IsPrefix(<<Slash>>, After(s, prefix))

--------------------------------------------------------------------------------
(* ReverseProxy *)

\* new_with_client: the target's path, prepared for joining.
TargetBase(target) == IF target = <<Slash>> THEN <<>> ELSE TrimEnd(target)

TargetTrailingSlash(target) == target # <<Slash>> /\ Last(target) = Slash

\* transform_uri: the base is stripped, the remainder joined to the target.
StripBase(path, base) ==
  LET trimmed == TrimEnd(base)
  IN  IF path = <<Slash>> /\ base # <<>> THEN <<>>
      ELSE IF trimmed # <<>> /\ AtBoundary(path, trimmed) THEN After(path, trimmed)
      ELSE path

Join(target, remaining) ==
  IF remaining # <<>> THEN TargetBase(target) \o remaining
  ELSE IF TargetBase(target) = <<>> THEN <<Slash>>
  ELSE IF TargetTrailingSlash(target) THEN Append(TargetBase(target), Slash)
  ELSE TargetBase(target)

TransformUri(base, target, path) == Join(target, StripBase(path, base))

--------------------------------------------------------------------------------
(* proxy_route *)

\* The pattern of a catch-all route and route_literal_prefix, which cuts it at the
\* first parameter.
CatchAll == "{*rest}"

RouteLiteralPrefix(pattern) ==
  LET parameters == {j \in DOMAIN pattern : pattern[j] = CatchAll}
  IN  TrimEnd(SubSeq(pattern, 1, Min({Len(pattern)} \cup {i - 1 : i \in parameters})))

StripRoutePrefix(path, prefix) ==
  IF prefix # <<>> /\ AtBoundary(path, prefix) THEN After(path, prefix) ELSE path

\* build_upstream_uri for a base URL and, with nothing to append, for a full one.
BuildUpstreamPath(target, append) == IF append = <<>> THEN target ELSE TrimEnd(target) \o append

RouteUri(pattern, target, path) ==
  BuildUpstreamPath(target, StripRoutePrefix(path, RouteLiteralPrefix(pattern)))

\* The escapes that stand for more than a letter; %0A is the one for a control character.
Escapes ==
  {<<"%0A", "newline">>, <<"%20", "space">>, <<"%23", "#">>, <<"%25", "%">>, <<"%2F", Slash>>,
   <<"%3C", "<">>, <<"%3E", ">">>, <<"%3F", "?">>, <<"%40", "@">>, <<"%5B", "[">>,
   <<"%5C", "backslash">>, <<"%5D", "]">>, <<"%60", "backtick">>}

\* Template parameters: the Path extractor (external) decodes them, TEMPLATE_ENCODE_SET
\* names what is encoded again.
Decoded(token) ==
  IF \E e \in Escapes : e[1] = token THEN (CHOOSE e \in Escapes : e[1] = token)[2] ELSE token

TemplateEncodeSet == {"newline", "space", "@", "#", "?", "backslash", "[", "]"}

Encoded(token) ==
  IF token \in TemplateEncodeSet THEN (CHOOSE e \in Escapes : e[2] = token)[1] ELSE token

Placeholder == "{rest}"

Substitute(template, value) ==
  FlattenSeq([i \in DOMAIN template |->
                IF template[i] = Placeholder THEN [j \in DOMAIN value |-> Encoded(value[j])]
                ELSE <<template[i]>>])

\* The catch-all parameter is what follows the prefix and its slash.
CatchAllParam(pattern, path) ==
  LET rest == Tail(StripRoutePrefix(path, RouteLiteralPrefix(pattern)))
  IN  [i \in DOMAIN rest |-> Decoded(rest[i])]

TemplateUri(pattern, template, path) == Substitute(template, CatchAllParam(pattern, path))

\* Uri::from_str ends the path at the first of these, and refuses some other characters.
Delimiters == {"?", "#"}

Refused == {"newline", "space", "<", ">", "backtick"}

ValidUri(path) == Range(path) \cap Refused = {}

--------------------------------------------------------------------------------
(* Routing by axum (external) *)

\* Router::nest serves its prefix and everything below, and hides the prefix from the
\* service; a catch-all route needs something to catch.
NestMatches(base, path) == path = base \/ (AtBoundary(path, base) /\ Len(path) > Len(base) + 1)

NestStripped(base, path) == IF path = base THEN <<Slash>> ELSE After(path, base)

CatchAllMatches(pattern, path) ==
  LET prefix == RouteLiteralPrefix(pattern)
  IN  AtBoundary(path, prefix) /\ Len(path) > Len(prefix) + 1

--------------------------------------------------------------------------------
(* Reference: the same on segments, where boundaries need no attention *)

\* Reading token by token, a slash opens a segment and anything else belongs to the last
\* one: "/a/b" has the segments a and b, "/a/" the segments a and the empty one, "" has none.
Read(segments, token) ==
  IF token = Slash THEN Append(segments, <<>>)
  ELSE IF segments = <<>> THEN <<>>
  ELSE Append(Front(segments), Append(Last(segments), token))

Segments(path) ==
  LET upTo[n \in 0..Len(path)] == IF n = 0 THEN <<>> ELSE Read(upTo[n - 1], path[n])
  IN  upTo[Len(path)]

\* The rules of the README's "Path Transform Semantics".
ReferenceSegments(base, target, path) ==
  LET b == Segments(TrimEnd(base))
      t == Segments(TrimEnd(target))
      p == Segments(path)
      rest == IF path = <<Slash>> /\ base # <<>> THEN <<>>
              ELSE IF IsPrefix(b, p) THEN After(p, b) ELSE p
      slash == IF rest = <<>> /\ (t = <<>> \/ Last(target) = Slash) THEN <<<<>>>> ELSE <<>>
  IN  t \o rest \o slash
================================================================================
