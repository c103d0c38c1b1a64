---------------------------- MODULE ProxyChainProofs ---------------------------
(***************************************************************************)
(* What ProxyChain guarantees for chains of any length, through any         *)
(* proxies, of any requests and responses.                                  *)
(***************************************************************************)
EXTENDS ProxyChain, SequenceLemmas, FiniteSetTheorems

--------------------------------------------------------------------------------
(* Joining the lines of Via *)

\* The joined lines are one.
LEMMA FlattenType ==
  ASSUME NEW T, NEW s \in Seq(Seq(T))
  PROVE  FlattenSeq(s) \in Seq(T)
<1>1. PICK f \in [0..Len(s) -> Seq(T)] : FlattenSeq(s) = f[Len(s)]
  BY FlattenRuns
<1>2. Len(s) \in 0..Len(s)
  OBVIOUS
<1> QED
  BY ONLY <1>1, <1>2

\* A line more comes last.
LEMMA FlattenAppend ==
  ASSUME NEW T, NEW s \in Seq(Seq(T)), NEW x \in Seq(T)
  PROVE  FlattenSeq(Append(s, x)) = FlattenSeq(s) \o x
<1> DEFINE t == Append(s, x)
           n == Len(s)
<1>1. n \in Nat /\ t \in Seq(Seq(T)) /\ Len(t) = n + 1 /\ t[n + 1] = x /\ \A i \in 1..n : t[i] = s[i]
  OBVIOUS
<1> HIDE DEF t
<1>2. PICK f : /\ f[0] = <<>>
               /\ \A i \in 1..n : f[i] = f[i - 1] \o s[i]
               /\ FlattenSeq(s) = f[n]
  BY FlattenRuns
<1>3. PICK g : /\ g[0] = <<>>
               /\ \A i \in 1..(n + 1) : g[i] = g[i - 1] \o t[i]
               /\ FlattenSeq(t) = g[n + 1]
  <2>1. \E g \in [0..Len(t) -> Seq(T)] :
           /\ g[0] = <<>>
           /\ \A i \in 1..Len(t) : g[i] = g[i - 1] \o t[i]
           /\ FlattenSeq(t) = g[Len(t)]
    BY ONLY <1>1, FlattenRuns
  <2> QED
    BY <1>1, <2>1
<1> HIDE DEF n
<1>4. SameSteps(f, g, n)
  <2>1. \A i \in 1..n : i \in 1..(n + 1)
    BY <1>1
  <2> QED
    BY <1>1, <1>2, <1>3, <2>1 DEF SameSteps
<1>5. \A i \in 0..n : f[i] = g[i]
  BY ONLY <1>1, <1>4, Unfolding
<1>6. n + 1 \in 1..(n + 1) /\ (n + 1) - 1 = n /\ n \in 0..n
  BY <1>1
<1> QED
  BY <1>1, <1>2, <1>3, <1>5, <1>6 DEF t

\* No line, and a single one.
LEMMA FlattenNone == FlattenSeq(<<>>) = <<>>
  BY DEF FlattenSeq

LEMMA FlattenOne ==
  ASSUME NEW T, NEW x \in Seq(T)
  PROVE  FlattenSeq(<<x>>) = x
<1> DEFINE empty == <<>>
<1>1. empty \in Seq(Seq(T)) /\ <<x>> = Append(empty, x) /\ empty \o x = x
  OBVIOUS
<1>2. FlattenSeq(empty) = empty
  BY FlattenNone
<1> HIDE DEF empty
<1>3. FlattenSeq(Append(empty, x)) = FlattenSeq(empty) \o x
  BY ONLY <1>1, x \in Seq(T), FlattenAppend
<1> QED
  BY <1>1, <1>2, <1>3

\* The entries are those of the lines.
LEMMA FlattenRange ==
  ASSUME NEW T, NEW s \in Seq(Seq(T))
  PROVE  Range(FlattenSeq(s)) = UNION {Range(s[i]) : i \in DOMAIN s}
<1> DEFINE L == Seq(T)
           Entries(q) == UNION {Range(q[i]) : i \in DOMAIN q}
           P == {q \in Seq(L) : Range(FlattenSeq(q)) = Entries(q)}
<1>1. <<>> \in P
  BY FlattenNone DEF Range
<1>2. ASSUME NEW q \in Seq(L), NEW x \in L, q \in P PROVE Append(q, x) \in P
  <2> DEFINE r == Append(q, x)
             F == FlattenSeq(q)
  <2>1. r \in Seq(L) /\ DOMAIN r = DOMAIN q \cup {Len(q) + 1} /\ r[Len(q) + 1] = x
        /\ \A i \in DOMAIN q : r[i] = q[i]
    OBVIOUS
  <2>2. F \in Seq(T)
    BY ONLY q \in Seq(L), FlattenType DEF L
  <2>3. FlattenSeq(r) = F \o x
    BY ONLY q \in Seq(L), x \in L, FlattenAppend DEF L, r, F
  <2> HIDE DEF r, F
  <2>4. Range(F \o x) = Range(F) \cup Range(x)
    <3>1. /\ DOMAIN (F \o x) = 1..(Len(F) + Len(x)) /\ Len(F) \in Nat /\ Len(x) \in Nat
          /\ DOMAIN F = 1..Len(F) /\ DOMAIN x = 1..Len(x)
          /\ \A i \in 1..Len(F) : (F \o x)[i] = F[i]
          /\ \A i \in 1..Len(x) : (F \o x)[Len(F) + i] = x[i]
      BY <2>2
    <3>2. \A i \in 1..(Len(F) + Len(x)) : i \in 1..Len(F) \/ \E j \in 1..Len(x) : i = Len(F) + j
      <4> SUFFICES ASSUME NEW i \in 1..(Len(F) + Len(x)), i \notin 1..Len(F)
                   PROVE  \E j \in 1..Len(x) : i = Len(F) + j
        OBVIOUS
      <4>1. i - Len(F) \in 1..Len(x) /\ i = Len(F) + (i - Len(F))
        BY <3>1
      <4> QED
        BY <4>1
    <3>3. \A i \in 1..Len(F) : i \in 1..(Len(F) + Len(x))
      BY <3>1
    <3>4. \A i \in 1..Len(x) : Len(F) + i \in 1..(Len(F) + Len(x))
      BY <3>1
    <3>5. Range(F \o x) \subseteq Range(F) \cup Range(x)
      <4> SUFFICES ASSUME NEW i \in 1..(Len(F) + Len(x)) PROVE (F \o x)[i] \in Range(F) \cup Range(x)
        BY <3>1 DEF Range
      <4>1. CASE i \in 1..Len(F)
        BY <3>1, <4>1 DEF Range
      <4>2. ASSUME NEW j \in 1..Len(x), i = Len(F) + j PROVE (F \o x)[i] \in Range(F) \cup Range(x)
        BY <3>1, <4>2 DEF Range
      <4> QED
        BY <3>2, <4>1, <4>2
    <3>6. Range(F) \subseteq Range(F \o x)
      BY <3>1, <3>3 DEF Range
    <3>7. Range(x) \subseteq Range(F \o x)
      <4> SUFFICES ASSUME NEW i \in 1..Len(x) PROVE x[i] \in Range(F \o x)
        BY <3>1 DEF Range
      <4>1. (F \o x)[Len(F) + i] = x[i] /\ Len(F) + i \in DOMAIN (F \o x)
        BY <3>1, <3>4
      <4> QED
        BY <4>1 DEF Range
    <3> QED
      BY <3>5, <3>6, <3>7
  <2>5. Entries(r) = Entries(q) \cup Range(x)
    BY <2>1
  <2>6. Range(F) = Entries(q)
    BY <1>2 DEF F
  <2> QED
    BY <2>1, <2>3, <2>4, <2>5, <2>6 DEF r
<1> HIDE DEF P
<1>3. Seq(L) \subseteq P
  BY ONLY <1>1, <1>2, InductionOnSeq
<1> QED
  BY <1>3 DEF P

--------------------------------------------------------------------------------
(* Messages *)

ViaEntries == [version : Versions, name : STRING]

Hops == [proxy : Proxies, version : Versions, ws : BOOLEAN, via : ViaLines]

Limits == {None, Unreadable} \cup 0..MaxCount

\* The fields of a message and their types.
LEMMA MessageFields ==
  ASSUME NEW m \in Messages
  PROVE  /\ DOMAIN m = {"hdrs", "trailers", "conn", "via", "maxForwards", "traced"}
         /\ m.hdrs \subseteq Names /\ m.trailers \in BOOLEAN
         /\ m.conn \in Seq(SUBSET Listable)
         /\ m.via \in Seq(Seq(ViaEntries)) /\ m.maxForwards \in Limits /\ m.traced \in BOOLEAN
  BY DEF Messages, ViaLines, ViaEntries, Limits

Listings == Seq(SUBSET Listable)

Lines == Seq(Seq(ViaEntries))

\* Stripping empties Connection, and Via and Max-Forwards if they were listed.
LEMMA StrippedFields ==
  ASSUME NEW m \in Messages
  PROVE  LET r == Stripped(m)
         IN  /\ r \in Messages /\ r.hdrs = m.hdrs \ Strips(m) /\ r.conn = <<>>
             /\ r.via = IF "via" \in Strips(m) THEN <<>> ELSE m.via
             /\ r.maxForwards = IF "max-forwards" \in Strips(m) THEN None ELSE m.maxForwards
             /\ r.trailers = m.trailers /\ r.traced = m.traced
<1> DEFINE h == m.hdrs \ Strips(m)
           c == <<>>
           v == IF "via" \in Strips(m) THEN <<>> ELSE m.via
           k == IF "max-forwards" \in Strips(m) THEN None ELSE m.maxForwards
<1>0. h \in SUBSET Names
  BY MessageFields
<1>1. c \in Listings
  BY DEF Listings
<1>2. v \in Lines
  <2>1. m.via \in Lines /\ <<>> \in Lines
    BY MessageFields DEF Lines
  <2> QED
    BY <2>1
<1> DEFINE r == Stripped(m)
<1>3. r = [m EXCEPT !.hdrs = h, !.conn = c, !.via = v, !.maxForwards = k]
  BY DEF Stripped
<1>4. k \in Limits
  BY MessageFields DEF Limits
<1> HIDE DEF h, c, v, k, r
<1> DEFINE H == SUBSET Names
<1>5. Messages = [hdrs : H, trailers : BOOLEAN, conn : Listings, via : Lines,
                  maxForwards : Limits, traced : BOOLEAN]
  BY DEF Messages, ViaLines, ViaEntries, Lines, Listings, Limits
<1>6. h \in H
  BY <1>0
<1> HIDE DEF H
<1>7. r.hdrs = h /\ r.conn = c /\ r.via = v /\ r.maxForwards = k
  BY <1>3, <1>5
<1>8. r.trailers = m.trailers /\ r.traced = m.traced
  BY <1>3, <1>5
<1>9. r \in Messages
  BY <1>1, <1>2, <1>3, <1>4, <1>5, <1>6
<1> QED
  BY <1>7, <1>8, <1>9 DEF h, c, v, k, r

\* What marks an upgrade again once it has been stripped.
LEMMA UpgradeFields ==
  ASSUME NEW m \in Messages
  PROVE  LET r == UpgradeHeaders(m)
         IN  /\ r \in Messages /\ r.hdrs = m.hdrs \cup {"upgrade"} /\ r.conn = <<{"upgrade"}>>
             /\ r.via = m.via
             /\ r.trailers = m.trailers /\ r.maxForwards = m.maxForwards /\ r.traced = m.traced
<1> DEFINE h == m.hdrs \cup {"upgrade"}
           c == <<{"upgrade"}>>
<1>1. h \in SUBSET Names /\ c \in Listings
  <2>1. h \in SUBSET Names
    BY MessageFields DEF Names, HopByHop
  <2>2. {"upgrade"} \in SUBSET Listable
    BY DEF Listable, Names, HopByHop
  <2> QED
    BY <2>1, <2>2 DEF Listings
<1>2. UpgradeHeaders(m) = [m EXCEPT !.hdrs = h, !.conn = c]
  BY DEF UpgradeHeaders
<1> HIDE DEF h, c
<1>3. LET r == [m EXCEPT !.hdrs = h, !.conn = c]
      IN  /\ r \in Messages /\ r.hdrs = h /\ r.conn = c /\ r.via = m.via
          /\ r.trailers = m.trailers /\ r.maxForwards = m.maxForwards /\ r.traced = m.traced
  BY <1>1 DEF Messages, Listings
<1> QED
  BY <1>2, <1>3 DEF h, c

\* A single line with the proxy's name at its end, unless it has none.
LEMMA WithViaFields ==
  ASSUME NEW m \in Messages, NEW v \in Versions, NEW name \in STRING \cup {None}
  PROVE  LET r == WithVia(m, v, name)
         IN  /\ r \in Messages /\ r.hdrs = m.hdrs /\ r.conn = m.conn
             /\ r.via = IF name = None THEN m.via ELSE AppendVia(m.via, v, name)
             /\ r.trailers = m.trailers /\ r.maxForwards = m.maxForwards /\ r.traced = m.traced
             /\ name # None => FlattenSeq(m.via) \in Seq(ViaEntries)
<1>1. m.via \in Seq(Seq(ViaEntries))
  BY MessageFields
<1>2. FlattenSeq(m.via) \in Seq(ViaEntries)
  BY <1>1, FlattenType
<1>3. CASE name = None
  BY <1>2, <1>3 DEF WithVia
<1>4. CASE name # None
  <2> DEFINE own == [version |-> v, name |-> name]
             line == FlattenSeq(m.via) \o <<own>>
             lines == <<line>>
  <2>1. own \in ViaEntries
    BY <1>4 DEF ViaEntries
  <2> HIDE DEF own
  <2>2. line \in Seq(ViaEntries)
    BY <1>2, <2>1
  <2> HIDE DEF line
  <2>3. lines \in Lines
    BY <2>2 DEF Lines
  <2>4. AppendVia(m.via, v, name) = lines
    BY DEF AppendVia, line, own
  <2> HIDE DEF lines
  <2>5. LET r == [m EXCEPT !.via = lines]
        IN  /\ r \in Messages /\ r.hdrs = m.hdrs /\ r.conn = m.conn /\ r.via = lines
            /\ r.trailers = m.trailers /\ r.maxForwards = m.maxForwards /\ r.traced = m.traced
    BY <2>3 DEF Messages, ViaLines, Lines, ViaEntries
  <2>6. WithVia(m, v, name) = [m EXCEPT !.via = lines]
    BY <1>4, <2>4 DEF WithVia
  <2> QED
    BY <1>2, <1>4, <2>4, <2>5, <2>6
<1> QED
  BY <1>3, <1>4

\* What forward_with makes of a request.
LEMMA ForwardedFields ==
  ASSUME NEW m \in Messages, here \in Hops
  PROVE  LET r == Forwarded(m)
             own == Config[here.proxy].via
             kept == IF "via" \in Strips(m) THEN <<>> ELSE m.via
         IN  /\ r \in Messages
             /\ r.hdrs = (m.hdrs \ Strips(m)) \cup (IF IsUpgrade(m) THEN {"upgrade"} ELSE {})
             /\ r.conn = IF IsUpgrade(m) THEN <<{"upgrade"}>> ELSE <<>>
             /\ r.via = IF own = None THEN kept ELSE AppendVia(kept, here.version, own)
             /\ r.maxForwards = IF "max-forwards" \in Strips(m) THEN None ELSE m.maxForwards
             /\ r.trailers = m.trailers /\ r.traced = m.traced
<1> DEFINE v == here.version
           name == Config[here.proxy].via
           stripped == Stripped(m)
           out == WithVia(stripped, v, name)
<1>1. v \in Versions
  BY DEF Hops
<1>2. name \in STRING \cup {None}
  <2>1. here.proxy \in Proxies
    BY DEF Hops
  <2> QED
    BY <2>1, ConfigAssumption
<1>3. /\ stripped \in Messages /\ stripped.hdrs = m.hdrs \ Strips(m) /\ stripped.conn = <<>>
      /\ stripped.via = IF "via" \in Strips(m) THEN <<>> ELSE m.via
      /\ stripped.maxForwards = IF "max-forwards" \in Strips(m) THEN None ELSE m.maxForwards
      /\ stripped.trailers = m.trailers /\ stripped.traced = m.traced
  BY StrippedFields
<1>4. Forwarded(m) = IF IsUpgrade(m) THEN UpgradeHeaders(out) ELSE out
  BY DEF Forwarded
<1> HIDE DEF v, name, stripped
<1>5. /\ out \in Messages /\ out.hdrs = stripped.hdrs /\ out.conn = stripped.conn
      /\ out.via = IF name = None THEN stripped.via ELSE AppendVia(stripped.via, v, name)
      /\ out.trailers = stripped.trailers /\ out.maxForwards = stripped.maxForwards
      /\ out.traced = stripped.traced
  BY <1>1, <1>2, <1>3, WithViaFields
<1> HIDE DEF out
<1>6. CASE IsUpgrade(m)
  <2>1. /\ UpgradeHeaders(out) \in Messages
        /\ UpgradeHeaders(out).hdrs = out.hdrs \cup {"upgrade"}
        /\ UpgradeHeaders(out).conn = <<{"upgrade"}>>
        /\ UpgradeHeaders(out).via = out.via
        /\ UpgradeHeaders(out).trailers = out.trailers
        /\ UpgradeHeaders(out).maxForwards = out.maxForwards
        /\ UpgradeHeaders(out).traced = out.traced
    BY <1>5, UpgradeFields
  <2> QED
    BY <1>3, <1>4, <1>5, <1>6, <2>1 DEF name, v
<1>7. CASE ~IsUpgrade(m)
  BY <1>3, <1>4, <1>5, <1>7 DEF name, v
<1> QED
  BY <1>6, <1>7

\* The same of a response, with Upgrade for a 101.
LEMMA ReturnedFields ==
  ASSUME NEW m \in Messages, NEW v \in Versions, here \in Hops
  PROVE  LET r == Returned(m, v)
         IN  /\ r \in Messages
             /\ r.hdrs = (m.hdrs \ Strips(m)) \cup (IF answer = "upgrade" THEN {"upgrade"} ELSE {})
             /\ r.conn = IF answer = "upgrade" THEN <<{"upgrade"}>> ELSE <<>>
<1> DEFINE name == Config[here.proxy].via
           stripped == Stripped(m)
           out == IF answer = "upgrade" THEN UpgradeHeaders(stripped) ELSE stripped
<1>1. name \in STRING \cup {None}
  <2>1. here.proxy \in Proxies
    BY DEF Hops
  <2> QED
    BY <2>1, ConfigAssumption
<1>2. stripped \in Messages /\ stripped.hdrs = m.hdrs \ Strips(m) /\ stripped.conn = <<>>
  BY StrippedFields
<1>3. Returned(m, v) = WithVia(out, v, name)
  BY DEF Returned
<1> HIDE DEF name, stripped
<1>4. /\ out \in Messages
      /\ out.hdrs = stripped.hdrs \cup (IF answer = "upgrade" THEN {"upgrade"} ELSE {})
      /\ out.conn = IF answer = "upgrade" THEN <<{"upgrade"}>> ELSE <<>>
  <2>1. /\ UpgradeHeaders(stripped) \in Messages
        /\ UpgradeHeaders(stripped).hdrs = stripped.hdrs \cup {"upgrade"}
        /\ UpgradeHeaders(stripped).conn = <<{"upgrade"}>>
    BY <1>2, UpgradeFields
  <2> QED
    BY <1>2, <2>1
<1> HIDE DEF out
<1>5. /\ WithVia(out, v, name) \in Messages
      /\ WithVia(out, v, name).hdrs = out.hdrs /\ WithVia(out, v, name).conn = out.conn
  BY <1>1, <1>4, WithViaFields
<1> QED
  BY <1>2, <1>3, <1>4, <1>5

\* A hop is paid for.
LEMMA DecrementedFields ==
  ASSUME NEW m \in Messages, ~Exhausted(m)
  PROVE  LET r == Decremented(m)
         IN  /\ r \in Messages /\ r.hdrs = m.hdrs /\ r.conn = m.conn /\ r.via = m.via
             /\ r.trailers = m.trailers /\ r.traced = m.traced
             /\ r.maxForwards = IF Counts(m) THEN m.maxForwards - 1 ELSE m.maxForwards
             /\ Counts(m) => m.maxForwards \in Nat /\ Counts(r)
<1>1. CASE ~Counts(m)
  BY <1>1 DEF Decremented
<1>2. CASE Counts(m)
  <2> DEFINE k == m.maxForwards - 1
             H == SUBSET Names
  <2>1. Decremented(m) = [m EXCEPT !.maxForwards = k]
    BY <1>2 DEF Decremented
  <2>2. m.traced /\ m.maxForwards \in 0..MaxCount /\ m.maxForwards # 0
    BY <1>2 DEF Counts, Exhausted
  <2>3. m.maxForwards \in Nat /\ k \in 0..MaxCount /\ k \in Limits
    BY <2>2, MaxCountAssumption DEF Limits
  <2>4. Messages = [hdrs : H, trailers : BOOLEAN, conn : Listings, via : Lines,
                    maxForwards : Limits, traced : BOOLEAN]
    BY DEF Messages, ViaLines, ViaEntries, Lines, Listings, Limits
  <2> DEFINE r == Decremented(m)
  <2> HIDE DEF H, k, r
  <2>5. r.hdrs = m.hdrs /\ r.conn = m.conn /\ r.via = m.via /\ r.trailers = m.trailers
        /\ r.traced = m.traced /\ r.maxForwards = k
    BY <2>1, <2>4 DEF r
  <2>6. r \in Messages
    BY <2>1, <2>3, <2>4 DEF r
  <2>7. Counts(r)
    BY <2>2, <2>3, <2>5 DEF Counts
  <2> QED
    BY <1>2, <2>3, <2>5, <2>6, <2>7 DEF r, k
<1> QED
  BY <1>1, <1>2

\* What the layer drops: of what Connection lists, only the first line.
Listed(m) == IF m.conn = <<>> THEN {} ELSE m.conn[1] \ EndToEnd

LayerStrips(m, ws) == (HopByHop \cup Listed(m)) \ (IF ws THEN {"upgrade"} ELSE {})

LEMMA LayerFields ==
  ASSUME NEW m \in Messages, NEW ws \in BOOLEAN
  PROVE  LET r == LayerStripped(m, ws)
         IN  /\ r \in Messages /\ r.hdrs = m.hdrs \ LayerStrips(m, ws)
             /\ r.conn = IF ws THEN m.conn ELSE <<>>
             /\ r.via = IF "via" \in LayerStrips(m, ws) THEN <<>> ELSE m.via
             /\ r.maxForwards = IF "max-forwards" \in LayerStrips(m, ws) THEN None ELSE m.maxForwards
             /\ r.trailers = m.trailers /\ r.traced = m.traced
<1> DEFINE h == m.hdrs \ LayerStrips(m, ws)
           c == IF ws THEN m.conn ELSE <<>>
           v == IF "via" \in LayerStrips(m, ws) THEN <<>> ELSE m.via
           k == IF "max-forwards" \in LayerStrips(m, ws) THEN None ELSE m.maxForwards
           r == LayerStripped(m, ws)
           H == SUBSET Names
<1>1. h \in H
  BY MessageFields
<1>2. c \in Listings
  <2>1. m.conn \in Listings /\ <<>> \in Listings
    BY MessageFields DEF Listings
  <2> QED
    BY <2>1
<1>3. v \in Lines
  <2>1. m.via \in Lines /\ <<>> \in Lines
    BY MessageFields DEF Lines
  <2> QED
    BY <2>1
<1>4. r = [m EXCEPT !.hdrs = h, !.conn = c, !.via = v, !.maxForwards = k]
  <2> DEFINE L == LayerStrips(m, ws)
             nominated == IF m.conn = <<>> THEN {} ELSE m.conn[1] \ EndToEnd
             strips == (HopByHop \cup nominated) \ (IF ws THEN {"upgrade"} ELSE {})
  <2>1. strips = L
    BY DEF LayerStrips, Listed
  <2>2. r = [m EXCEPT !.hdrs = @ \ strips, !.conn = IF ws THEN @ ELSE <<>>,
                      !.via = IF "via" \in strips THEN <<>> ELSE @,
                      !.maxForwards = IF "max-forwards" \in strips THEN None ELSE @]
    BY DEF LayerStripped
  <2> HIDE DEF r, L, strips
  <2>3. r = [m EXCEPT !.hdrs = @ \ L, !.conn = IF ws THEN @ ELSE <<>>,
                      !.via = IF "via" \in L THEN <<>> ELSE @,
                      !.maxForwards = IF "max-forwards" \in L THEN None ELSE @]
    BY <2>1, <2>2
  <2>4. r = [m EXCEPT !.hdrs = m.hdrs \ L, !.conn = IF ws THEN m.conn ELSE <<>>,
                      !.via = IF "via" \in L THEN <<>> ELSE m.via,
                      !.maxForwards = IF "max-forwards" \in L THEN None ELSE m.maxForwards]
    BY <2>3
  <2> QED
    BY <2>4 DEF L
<1>5. k \in Limits
  BY MessageFields DEF Limits
<1> HIDE DEF h, c, v, k, r
<1>6. Messages = [hdrs : H, trailers : BOOLEAN, conn : Listings, via : Lines,
                  maxForwards : Limits, traced : BOOLEAN]
  BY DEF Messages, ViaLines, ViaEntries, Lines, Listings, Limits
<1> HIDE DEF H
<1>7. r.hdrs = h /\ r.conn = c /\ r.via = v /\ r.maxForwards = k
  BY <1>4, <1>6
<1>8. r.trailers = m.trailers /\ r.traced = m.traced
  BY <1>4, <1>6
<1>9. r \in Messages
  BY <1>1, <1>2, <1>3, <1>4, <1>5, <1>6
<1> QED
  BY <1>7, <1>8, <1>9 DEF h, c, v, k, r

\* The layer's own entry, and those of the first line unless they are replaced.
Own(n) == [version |-> here.version, name |-> LayerName(n)]

NoCombining == \A n \in Proxies : Config[n].combine => Config[n].pseudonym = None

LEMMA LayerNameType ==
  ASSUME NEW n \in Proxies
  PROVE  LayerName(n) \in STRING
  BY ConfigAssumption, DefaultNameAssumption DEF LayerName

LEMMA LayerViaFields ==
  ASSUME NEW m \in Messages, here \in Hops
  PROVE  /\ Own(here.proxy) \in ViaEntries
         /\ FirstVia(m) \in Seq(ViaEntries)
         /\ LayerVia(m) \in Lines
         /\ \/ LayerVia(m) = <<Append(FirstVia(m), Own(here.proxy))>>
            \/ ~NoCombining /\ LayerVia(m) = <<<<Own(here.proxy)>>>>
<1> DEFINE own == Own(here.proxy)
           first == FirstVia(m)
           short == <<own>>
           long == Append(first, own)
<1>1. own \in ViaEntries
  BY LayerNameType DEF Own, Hops, ViaEntries
<1>2. first \in Seq(ViaEntries)
  <2>1. m.via \in Seq(Seq(ViaEntries))
    BY MessageFields
  <2>2. m.via # <<>> => m.via[1] \in Seq(ViaEntries)
    BY <2>1
  <2>3. <<>> \in Seq(ViaEntries)
    OBVIOUS
  <2> QED
    BY <2>2, <2>3 DEF FirstVia
<1>3. /\ LayerVia(m) = <<long>> \/ LayerVia(m) = <<short>>
      /\ NoCombining => LayerVia(m) = <<long>>
  <2>1. here.proxy \in Proxies
    BY DEF Hops
  <2> QED
    BY <2>1 DEF LayerVia, Own, NoCombining
<1> HIDE DEF own, first
<1>4. short \in Seq(ViaEntries) /\ long \in Seq(ViaEntries)
  BY <1>1, <1>2
<1> HIDE DEF short, long
<1>5. <<short>> \in Lines /\ <<long>> \in Lines
  BY <1>4 DEF Lines
<1> QED
  BY <1>1, <1>2, <1>3, <1>5 DEF own, first, short, long

LEMMA NoMessageType == NoMessage \in Messages
<1>1. <<>> \in Listings /\ <<>> \in Lines
  BY DEF Listings, Lines
<1>2. Messages = [hdrs : SUBSET Names, trailers : BOOLEAN, conn : Listings, via : Lines,
                  maxForwards : Limits, traced : BOOLEAN]
  BY DEF Messages, ViaLines, ViaEntries, Lines, Listings, Limits
<1> QED
  BY <1>1, <1>2 DEF NoMessage, Limits

--------------------------------------------------------------------------------
(* The path, and the types *)

\* The hop at hand is the last of the path.
LEMMA HereIsLast ==
  ASSUME TypeOK, path # <<>>
  PROVE  /\ path \in Seq(Hops) /\ Len(path) \in Nat \ {0} /\ DOMAIN path = 1..Len(path)
         /\ here = path[Len(path)] /\ here \in Hops /\ here.proxy \in Proxies
         /\ Config[here.proxy].layer \in BOOLEAN
<1>1. path \in Seq(Hops)
  BY DEF TypeOK, Hops
<1>2. Len(path) \in Nat \ {0} /\ DOMAIN path = 1..Len(path)
  BY <1>1
<1>3. here = path[Len(path)] /\ here \in Hops
  BY <1>1, <1>2 DEF here, Last
<1>4. here.proxy \in Proxies
  BY <1>3 DEF Hops
<1> QED
  BY <1>1, <1>2, <1>3, <1>4, ConfigAssumption

LEMMA PathGrows ==
  ASSUME TypeOK, path # <<>>, NEW n \in Proxies, NEW v \in Versions, path' = Append(path, Hop(n, v))
  PROVE  /\ path' \in Seq(Hops) /\ path' # <<>>
         /\ Len(path') = Len(path) + 1 /\ DOMAIN path' = 1..(Len(path) + 1)
         /\ \A i \in 1..Len(path) : path'[i] = path[i]
         /\ path'[Len(path) + 1] = Hop(n, v)
<1> DEFINE h == Hop(n, v)
           old == path
           new == path'
<1>1. h \in Hops
  BY DEF Hop, Hops, ViaLines
<1>2. old \in Seq(Hops)
  BY HereIsLast
<1>3. new = Append(old, h)
  OBVIOUS
<1> HIDE DEF h, old, new
<1>4. /\ new \in Seq(Hops) /\ new # <<>>
      /\ Len(new) = Len(old) + 1 /\ DOMAIN new = 1..(Len(old) + 1)
      /\ \A i \in 1..Len(old) : new[i] = old[i]
      /\ new[Len(old) + 1] = h
  BY <1>1, <1>2, <1>3
<1> QED
  BY <1>4 DEF h, old, new

LEMMA PathPops ==
  ASSUME TypeOK, path # <<>>, path' = Popped(path)
  PROVE  /\ path' \in Seq(Hops)
         /\ Len(path') = Len(path) - 1 /\ DOMAIN path' = 1..(Len(path) - 1)
         /\ \A i \in 1..(Len(path) - 1) : path'[i] = path[i]
         /\ path' = <<>> <=> Len(path) = 1
<1> DEFINE old == path
           new == path'
           T == Hops
<1>1. old \in Seq(T) /\ Len(old) \in Nat \ {0}
  BY HereIsLast
<1>2. new = IF Len(old) = 1 THEN <<>> ELSE SubSeq(old, 1, Len(old) - 1)
  BY DEF Popped, Front
<1> HIDE DEF old, new, T
<1>3. CASE Len(old) = 1
  <2>1. new = <<>>
    BY <1>2, <1>3
  <2>2. new \in Seq(T) /\ Len(new) = 0 /\ DOMAIN new = 1..0 /\ Len(old) - 1 = 0
    BY <1>3, <2>1
  <2> QED
    BY <1>3, <2>1, <2>2 DEF old, new, T
<1>4. CASE Len(old) # 1
  <2>1. PICK k \in Nat \ {0} : k = Len(old) - 1
    <3>1. Len(old) - 1 \in Nat \ {0}
      BY <1>1, <1>4
    <3> QED
      BY <3>1
  <2>2. new = SubSeq(old, 1, k)
    BY <1>2, <1>4, <2>1
  <2>3. k =< Len(old) /\ Len(old) = k + 1
    BY <1>1, <2>1
  <2>4. new \in Seq(T)
    <3>1. \A i \in 1..k : old[i] \in T
      BY <1>1, <2>3
    <3> QED
      BY <1>1, <2>2, <2>3, <3>1
  <2>5. Len(new) = k /\ DOMAIN new = 1..k
    BY <1>1, <2>2, <2>3, <2>4
  <2>6. \A i \in 1..k : new[i] = old[i]
    BY <1>1, <2>2, <2>3
  <2>7. new # <<>>
    BY <2>5
  <2> QED
    BY <1>4, <2>1, <2>4, <2>5, <2>6, <2>7 DEF old, new, T
<1> QED
  BY <1>3, <1>4

\* What the layer notes of the request it passes on.
LEMMA PathMarked ==
  ASSUME TypeOK, LayerPasses
  PROVE  /\ path # <<>> /\ path' \in Seq(Hops) /\ path' # <<>>
         /\ Len(path') = Len(path) /\ DOMAIN path' = 1..Len(path)
         /\ \A i \in 1..(Len(path) - 1) : path'[i] = path[i]
         /\ path'[Len(path)].proxy = here.proxy
         /\ path'[Len(path)].ws = Preserves(msg)
         /\ here \in Hops /\ msg \in Messages /\ Preserves(msg) \in BOOLEAN
         /\ LET m == LayerStripped(Decremented(msg), Preserves(msg))
            IN  /\ m \in Messages /\ LayerVia(m) \in Lines
                /\ msg' = [m EXCEPT !.via = LayerVia(m)]
                /\ msg' \in Messages /\ msg'.hdrs = m.hdrs /\ msg'.conn = m.conn
                /\ msg'.via = LayerVia(m) /\ msg'.trailers = m.trailers
                /\ msg'.maxForwards = m.maxForwards /\ msg'.traced = m.traced
<1> DEFINE n == Len(path)
           ws == Preserves(msg)
           m == LayerStripped(Decremented(msg), ws)
           lines == LayerVia(m)
<1>1. path # <<>>
  BY DEF LayerPasses, TypeOK
<1>2. path \in Seq(Hops) /\ n \in Nat \ {0} /\ here = path[n] /\ here \in Hops /\ here.proxy \in Proxies
  BY <1>1, HereIsLast
<1>3. ws \in BOOLEAN
  BY DEF Preserves
<1>4. m \in Messages
  <2>1. msg \in Messages /\ ~Exhausted(msg)
    BY DEF TypeOK, LayerPasses
  <2>2. Decremented(msg) \in Messages
    BY <2>1, DecrementedFields
  <2> QED
    BY <1>3, <2>2, LayerFields
<1>5. lines \in Lines
  BY <1>2, <1>4, LayerViaFields
<1>6. /\ msg' = [m EXCEPT !.via = lines]
      /\ path' = [path EXCEPT ![n] = [@ EXCEPT !.ws = ws, !.via = lines]]
  BY DEF LayerPasses
<1> HIDE DEF m, ws, n, lines
<1>7. /\ msg' \in Messages /\ msg'.hdrs = m.hdrs /\ msg'.conn = m.conn
      /\ msg'.via = lines /\ msg'.trailers = m.trailers
      /\ msg'.maxForwards = m.maxForwards /\ msg'.traced = m.traced
  BY <1>4, <1>5, <1>6 DEF Messages, ViaLines, Lines, ViaEntries
<1> DEFINE h == [here EXCEPT !.ws = ws, !.via = lines]
<1>8. h \in Hops /\ h.proxy = here.proxy /\ h.ws = ws
  BY <1>2, <1>3, <1>5 DEF Hops, ViaLines, Lines, ViaEntries
<1>9. path' = [path EXCEPT ![n] = h]
  BY <1>2, <1>6
<1> HIDE DEF h
<1>10. /\ path' \in Seq(Hops) /\ Len(path') = Len(path) /\ path' # <<>>
       /\ DOMAIN path' = 1..Len(path)
       /\ path'[n] = h /\ \A i \in 1..(n - 1) : path'[i] = path[i]
  BY <1>2, <1>8, <1>9 DEF n
<1>11. msg \in Messages
  BY DEF TypeOK
<1> QED
  BY <1>1, <1>2, <1>3, <1>4, <1>5, <1>6, <1>7, <1>8, <1>10, <1>11 DEF n, ws, m, lines

\* An answer of the layer's own goes to the hop before.
LEMMA SentBack ==
  ASSUME TypeOK, path # <<>>, path' = Popped(path), stage' = BackTo(path'), client' \in Messages,
         sent' \in Messages, msg' \in Messages,
         answer' \in {"none", "origin", "upgrade", "loop", "maxForwards"}
  PROVE  TypeOK'
<1>1. path' \in Seq(Hops)
  BY PathPops
<1>2. stage' \in {"client", "coreBack"} /\ (path' = <<>> <=> stage' = "client")
  BY DEF BackTo
<1> QED
  BY <1>1, <1>2 DEF TypeOK, Hops

LEMMA TypeStep == TypeOK /\ [Next]_vars => TypeOK'
<1> SUFFICES ASSUME TypeOK, [Next]_vars PROVE TypeOK'
  OBVIOUS
<1>0. stage # "client" => path # <<>>
  BY DEF TypeOK
<1>a. client \in Messages /\ sent \in Messages /\ msg \in Messages
      /\ answer \in {"none", "origin", "upgrade", "loop", "maxForwards"}
  BY DEF TypeOK
<1>1. CASE LayerLoops
  BY <1>0, <1>1, <1>a, SentBack, NoMessageType DEF LayerLoops, Answer
<1>2. CASE LayerAnswers
  BY <1>0, <1>2, <1>a, SentBack, NoMessageType DEF LayerAnswers, Answer
<1>3. CASE LayerPasses
  <2>1. path' \in Seq(Hops) /\ path' # <<>> /\ msg' \in Messages
    BY <1>3, PathMarked
  <2> QED
    BY <1>3, <1>a, <2>1 DEF LayerPasses, TypeOK, Hops
<1>4. CASE CoreLoops
  BY <1>0, <1>4, NoMessageType DEF CoreLoops, Answer, TypeOK
<1>5. CASE CoreForwards
  <2>1. here \in Hops /\ path # <<>>
    BY <1>0, <1>5, HereIsLast DEF CoreForwards
  <2>2. msg' \in Messages
    BY <1>5, <1>a, <2>1, ForwardedFields DEF CoreForwards
  <2>3. path' \in Seq(Hops) /\ path' # <<>>
    <3>1. CASE path' = path
      BY <2>1, <3>1, HereIsLast
    <3>2. ASSUME NEW n \in Proxies, NEW v \in Versions, path' = Append(path, Hop(n, v))
          PROVE  path' \in Seq(Hops) /\ path' # <<>>
      BY <2>1, <3>2, PathGrows
    <3> QED
      BY <1>5, <3>1, <3>2 DEF CoreForwards
  <2>4. stage' \in {"origin", "layer", "core"}
    BY <1>5 DEF CoreForwards, Entry
  <2> QED
    BY <1>5, <1>a, <2>2, <2>3, <2>4 DEF CoreForwards, TypeOK, Hops
<1>6. CASE OriginAnswers
  <2>1. sent' \in Messages /\ answer' \in {"origin", "upgrade"}
    <3>1. PICK r \in Responses :
            \/ answer' = "origin" /\ sent' = r
            \/ answer' = "upgrade" /\ sent' = UpgradeHeaders(r)
      BY <1>6 DEF OriginAnswers
    <3>2. r \in Messages
      BY MessagesAssumption
    <3>3. UpgradeHeaders(r) \in Messages
      BY <3>2, UpgradeFields
    <3> QED
      BY <3>1, <3>2, <3>3
  <2> QED
    BY <1>0, <1>6, <2>1 DEF OriginAnswers, TypeOK
<1>7. CASE CoreReturns
  <2>1. here \in Hops /\ path # <<>>
    BY <1>0, <1>7, HereIsLast DEF CoreReturns
  <2>2. msg' \in Messages
    BY <1>7, <1>a, <2>1, ReturnedFields DEF CoreReturns
  <2> QED
    BY <1>7, <2>1, <2>2 DEF CoreReturns, TypeOK
<1>8. CASE LayerReturns
  <2>1. here \in Hops /\ path # <<>>
    BY <1>0, <1>8, HereIsLast DEF LayerReturns
  <2>2. LayerResponse(msg) \in Messages
    <3> DEFINE ws == here.ws /\ answer = "upgrade"
               m == LayerStripped(msg, ws)
               lines == here.via
    <3>1. m \in Messages
      BY <1>a, LayerFields
    <3>2. lines \in Lines
      BY <2>1 DEF Hops, ViaLines, Lines, ViaEntries
    <3>3. LayerResponse(msg) = [m EXCEPT !.via = lines]
      BY DEF LayerResponse
    <3> HIDE DEF m, lines
    <3> QED
      BY <3>1, <3>2, <3>3 DEF Messages, ViaLines, Lines, ViaEntries
  <2>3. msg' \in Messages
    BY <1>8, <1>a, <2>2 DEF LayerReturns
  <2> QED
    BY <1>8, <1>a, <2>1, <2>3, SentBack DEF LayerReturns
<1>9. CASE UNCHANGED vars
  BY <1>9 DEF vars, TypeOK
<1> QED
  BY <1>1, <1>2, <1>3, <1>4, <1>5, <1>6, <1>7, <1>8, <1>9 DEF Next

LEMMA TypeInit == Init => TypeOK
<1> SUFFICES ASSUME Init PROVE TypeOK
  OBVIOUS
<1>1. PICK n \in Proxies, v \in Versions : path = <<Hop(n, v)>> /\ stage = Entry(n)
  BY DEF Init
<1>2. Hop(n, v) \in Hops
  BY DEF Hop, Hops, ViaLines
<1>3. path \in Seq(Hops) /\ path # <<>>
  <2> DEFINE h == Hop(n, v)
  <2> HIDE DEF h
  <2> QED
    BY <1>1, <1>2 DEF h
<1>4. client \in Messages /\ sent \in Messages
  BY MessagesAssumption, NoMessageType DEF Init
<1> QED
  BY <1>1, <1>3, <1>4 DEF Init, TypeOK, Hops, Entry

\* Every message is one, and the path is empty exactly when the client has its answer.
THEOREM TypeCorrect == Spec => []TypeOK
<1> QED
  BY TypeInit, TypeStep, PTL DEF Spec

--------------------------------------------------------------------------------
(* The request on its way *)

\* There is no answer exactly as long as the request travels, and it stops in a layer only
\* where there is one.
PhaseInv ==
  /\ answer = "none" <=> stage \in {"layer", "core", "origin"}
  /\ stage = "layer" => Config[here.proxy].layer

\* The layers it has passed.
Passed == {i \in DOMAIN path : Config[path[i].proxy].layer /\ (i < Len(path) \/ stage # "layer")}

CountLost == msg.maxForwards = None /\ client.maxForwards # None

\* HopsCounted, and that what counted still counts.
CountInv ==
  answer = "none" =>
    /\ msg.traced = client.traced
    /\ CountLost => "max-forwards" \in Nominated(client)
    /\ ~CountLost =>
         IF Counts(client)
         THEN Counts(msg) /\ msg.maxForwards + Cardinality(Passed) = client.maxForwards
         ELSE msg.maxForwards = client.maxForwards

\* Before the first proxy has forwarded it, the request is the client's, and afterwards
\* nothing but an upgrade is listed.
ListingInv ==
  answer = "none" =>
    /\ msg.trailers = client.trailers
    /\ Relays = {} /\ (stage = "layer" \/ ~Config[here.proxy].layer) => msg = client
    /\ Relays = {} /\ stage = "core" /\ Config[here.proxy].layer =>
         msg.conn = IF here.ws THEN client.conn ELSE <<>>
    /\ Relays # {} => msg.conn \in {<<>>, <<{"upgrade"}>>}

\* UpgradeSurvives, all the way.
SurvivesInv ==
  LET preserved == \A i \in DOMAIN path : Config[path[i].proxy].layer => Config[path[i].proxy].preserve
  IN  answer = "none" /\ IsUpgrade(client) /\ KeepsHandshake(client) /\ preserved =>
        IsUpgrade(msg) /\ "sec-websocket" \notin Nominated(msg)

\* A layer that does not preserve the handshake ends the upgrade.
HandshakeInv ==
  /\ answer = "none" /\ (\E i \in Passed : ~path[i].ws) => msg.conn = <<>>
  /\ answer = "upgrade" => \A i \in DOMAIN path : Config[path[i].proxy].layer => path[i].ws

\* A response that has been through a proxy.
Clean ==
  /\ msg.hdrs \cap Nominated(sent) \subseteq {"upgrade"}
  /\ "upgrade" \in msg.hdrs <=> answer = "upgrade"
  /\ PassedOn(sent) \subseteq msg.hdrs \cup {"te"}
  /\ msg.conn = IF answer = "upgrade" THEN <<{"upgrade"}>> ELSE <<>>

ResponseInv ==
  answer \in {"origin", "upgrade"} => (stage = "coreBack" /\ msg = sent) \/ Clean

\* The names in the first line of Via.
NamesIn(m) == {e.name : e \in Range(FirstVia(m))}

Excused(i) == i = 1 /\ path[i].ws /\ "via" \in Nominated(client)

\* Every proxy that has forwarded the request is in the first line of Via.
MarkedInv ==
  answer = "none" =>
    /\ \A i \in Relays : ~Excused(i) =>
         /\ Config[path[i].proxy].layer => LayerName(path[i].proxy) \in NamesIn(msg)
         /\ Config[path[i].proxy].via # None => Config[path[i].proxy].via \in NamesIn(msg)
    /\ stage = "core" /\ Config[here.proxy].layer =>
         /\ LayerName(here.proxy) \in NamesIn(msg)
         /\ \A i \in Relays : path[i].proxy = here.proxy => Excused(i)

\* The names anywhere in Via.
Entries(m) == {e.name : e \in Range(FlattenSeq(m.via))}

BorneBy(n) ==
  (IF Config[n].layer THEN {LayerName(n)} ELSE {}) \cup ({Config[n].via} \ {None})

\* Via names proxies that the request has been through, and those the client named.
Before == UNION {BorneBy(path[i].proxy) : i \in Relays}

TrueNamesInv ==
  answer = "none" =>
    Entries(msg) \subseteq
      Entries(client) \cup Before
        \cup (IF stage = "core" /\ Config[here.proxy].layer THEN {LayerName(here.proxy)} ELSE {})

DistinctNames ==
  \A m, n \in Proxies :
    /\ BorneBy(m) \cap BorneBy(n) # {} => m = n
    /\ Config[n].layer => LayerName(n) # Config[n].via

--------------------------------------------------------------------------------
(* Steps of the request *)

\* The hops before the last have forwarded the request, and at the origin all have.
LEMMA RelaysAre ==
  ASSUME TypeOK, path # <<>>
  PROVE  /\ Relays = 1..(IF stage = "origin" THEN Len(path) ELSE Len(path) - 1)
         /\ Relays \subseteq DOMAIN path
<1>1. Len(path) \in Nat \ {0} /\ DOMAIN path = 1..Len(path)
  BY HereIsLast
<1> QED
  BY <1>1 DEF Relays

\* Forwarding adds the last hop to those, and goes on to a fresh one or to the origin.
LEMMA PathForwarded ==
  ASSUME TypeOK, CoreForwards
  PROVE  /\ path # <<>> /\ path \in Seq(Hops) /\ Len(path) \in Nat \ {0}
         /\ DOMAIN path = 1..Len(path) /\ here = path[Len(path)]
         /\ here \in Hops /\ msg \in Messages
         /\ Relays = 1..(Len(path) - 1) /\ Relays' = Relays \cup {Len(path)}
         /\ Len(path) \notin Relays
         /\ Relays' \subseteq DOMAIN path /\ Relays' \subseteq DOMAIN path'
         /\ path' \in Seq(Hops) /\ path' # <<>>
         /\ \A i \in DOMAIN path : i \in DOMAIN path' /\ path'[i] = path[i]
         /\ \/ stage' = "origin" /\ path' = path
            \/ /\ Len(path') = Len(path) + 1 /\ DOMAIN path' = DOMAIN path \cup {Len(path')}
               /\ path'[Len(path')].ws = FALSE /\ path'[Len(path')].proxy \in Proxies
               /\ stage' = Entry(path'[Len(path')].proxy)
<1>1. path # <<>> /\ stage = "core" /\ msg \in Messages
  BY DEF TypeOK, CoreForwards
<1>2. /\ path \in Seq(Hops) /\ Len(path) \in Nat \ {0}
      /\ DOMAIN path = 1..Len(path) /\ here = path[Len(path)] /\ here \in Hops
  BY <1>1, HereIsLast
<1>3. Relays = 1..(Len(path) - 1)
  BY <1>1, <1>2, RelaysAre
<1>4. CASE stage' = "origin" /\ path' = path
  <2>1. Relays' = 1..Len(path)
    BY <1>2, <1>4 DEF Relays
  <2>2. Relays' = Relays \cup {Len(path)}
    BY <1>2, <1>3, <2>1
  <2> QED
    BY <1>1, <1>2, <1>3, <1>4, <2>1, <2>2
<1>5. ASSUME NEW n \in Proxies, NEW v \in Versions, path' = Append(path, Hop(n, v)), stage' = Entry(n)
      PROVE  /\ Relays' = Relays \cup {Len(path)} /\ Relays' \subseteq DOMAIN path'
             /\ Relays' \subseteq DOMAIN path
             /\ path' \in Seq(Hops) /\ path' # <<>>
             /\ \A i \in DOMAIN path : i \in DOMAIN path' /\ path'[i] = path[i]
             /\ Len(path') = Len(path) + 1 /\ DOMAIN path' = DOMAIN path \cup {Len(path')}
             /\ path'[Len(path')].ws = FALSE /\ path'[Len(path')].proxy \in Proxies
             /\ stage' = Entry(path'[Len(path')].proxy)
  <2>1. /\ path' \in Seq(Hops) /\ path' # <<>>
        /\ Len(path') = Len(path) + 1 /\ DOMAIN path' = 1..(Len(path) + 1)
        /\ \A i \in 1..Len(path) : path'[i] = path[i]
        /\ path'[Len(path) + 1] = Hop(n, v)
    BY <1>1, <1>5, PathGrows
  <2>2. stage' # "origin"
    BY <1>5 DEF Entry
  <2>3. Relays' = 1..Len(path)
    BY <1>2, <2>1, <2>2 DEF Relays
  <2>4. Relays' = Relays \cup {Len(path)} /\ DOMAIN path' = DOMAIN path \cup {Len(path')}
    BY <1>2, <1>3, <2>1, <2>3
  <2>5. \A i \in DOMAIN path : i \in DOMAIN path' /\ path'[i] = path[i]
    BY <1>2, <2>1
  <2>6. Hop(n, v).ws = FALSE /\ Hop(n, v).proxy = n
    BY DEF Hop
  <2> QED
    BY <1>2, <1>5, <2>1, <2>3, <2>4, <2>5, <2>6
<1>6. \/ stage' = "origin" /\ path' = path
      \/ \E n \in Proxies, v \in Versions : path' = Append(path, Hop(n, v)) /\ stage' = Entry(n)
  BY DEF CoreForwards
<1>7. Len(path) \notin Relays
  BY <1>2, <1>3
<1> QED
  BY <1>1, <1>2, <1>3, <1>4, <1>5, <1>6, <1>7

LEMMA PhaseStep == TypeOK /\ PhaseInv /\ [Next]_vars => PhaseInv'
<1> SUFFICES ASSUME TypeOK, PhaseInv, [Next]_vars PROVE PhaseInv'
  OBVIOUS
<1>0. TypeOK'
  BY TypeStep
<1>1. CASE LayerLoops
  BY <1>1 DEF LayerLoops, Answer, BackTo, PhaseInv
<1>2. CASE LayerAnswers
  BY <1>2 DEF LayerAnswers, Answer, BackTo, PhaseInv
<1>3. CASE LayerPasses
  BY <1>3 DEF LayerPasses, PhaseInv
<1>4. CASE CoreLoops
  BY <1>4 DEF CoreLoops, Answer, PhaseInv
<1>5. CASE CoreForwards
  <2>1. stage' = "layer" => Config[here'.proxy].layer
    <3> SUFFICES ASSUME stage' = "layer" PROVE Config[here'.proxy].layer
      OBVIOUS
    <3>1. stage' = Entry(path'[Len(path')].proxy)
      BY <1>5, PathForwarded
    <3>2. here' = path'[Len(path')]
      BY DEF here, Last
    <3> QED
      BY <3>1, <3>2 DEF Entry
  <2> QED
    BY <1>5, <2>1 DEF CoreForwards, PhaseInv, Entry
<1>6. CASE OriginAnswers
  BY <1>6 DEF OriginAnswers, PhaseInv
<1>7. CASE CoreReturns
  BY <1>7 DEF CoreReturns, PhaseInv
<1>8. CASE LayerReturns
  BY <1>8 DEF LayerReturns, BackTo, PhaseInv
<1>9. CASE UNCHANGED vars
  BY <1>9 DEF vars, PhaseInv, here
<1> QED
  BY <1>1, <1>2, <1>3, <1>4, <1>5, <1>6, <1>7, <1>8, <1>9 DEF Next

\* The layer that passes the request on is one more that it has passed.
LEMMA PassedGrows ==
  ASSUME TypeOK, PhaseInv, LayerPasses
  PROVE  /\ Passed' = Passed \cup {Len(path)} /\ Len(path) \notin Passed
         /\ IsFiniteSet(Passed)
<1>1. /\ path # <<>> /\ Len(path') = Len(path) /\ DOMAIN path' = 1..Len(path)
      /\ \A i \in 1..(Len(path) - 1) : path'[i] = path[i]
      /\ path'[Len(path)].proxy = here.proxy
  BY PathMarked
<1>2. Len(path) \in Nat \ {0} /\ DOMAIN path = 1..Len(path) /\ here = path[Len(path)]
  BY <1>1, HereIsLast
<1>3. stage = "layer" /\ stage' = "core" /\ Config[here.proxy].layer
  BY DEF LayerPasses, PhaseInv
<1> DEFINE k == Len(path)
           L(i) == Config[path[i].proxy].layer
           N(i) == Config[path'[i].proxy].layer
<1>4. k \in Nat \ {0}
  BY <1>2
<1>5. Passed' = {i \in 1..k : N(i)}
  BY <1>1, <1>3 DEF Passed
<1>6. Passed = {i \in 1..k : L(i) /\ i < k}
  BY <1>2, <1>3 DEF Passed
<1>7. N(k)
  BY <1>1, <1>3
<1>8. \A i \in 1..(k - 1) : N(i) <=> L(i)
  BY <1>1
<1> HIDE DEF k, L, N
<1>9. Passed' = Passed \cup {k}
  <2>1. \A i \in 1..k : (i \in 1..(k - 1) /\ i < k) \/ (i = k /\ ~(i < k))
    BY <1>4
  <2> QED
    BY <1>4, <1>5, <1>6, <1>7, <1>8, <2>1
<1>10. k \notin Passed
  BY <1>4, <1>6
<1>11. IsFiniteSet(Passed)
  <2>1. IsFiniteSet(1..k) /\ Passed \subseteq 1..k
    BY <1>4, <1>6, FS_Interval
  <2> QED
    BY <2>1, FS_Subset
<1> QED
  BY <1>9, <1>10, <1>11 DEF k

\* Forwarding passes no layer.
LEMMA PassedStays ==
  ASSUME TypeOK, CoreForwards
  PROVE  Passed' = Passed
<1>1. stage = "core" /\ Len(path) \in Nat \ {0} /\ DOMAIN path = 1..Len(path)
  BY PathForwarded DEF CoreForwards
<1>2. CASE stage' = "origin" /\ path' = path
  BY <1>1, <1>2 DEF Passed
<1>3. CASE /\ Len(path') = Len(path) + 1 /\ DOMAIN path' = DOMAIN path \cup {Len(path')}
           /\ path'[Len(path')].ws = FALSE /\ path'[Len(path')].proxy \in Proxies
           /\ stage' = Entry(path'[Len(path')].proxy)
  <2> DEFINE k == Len(path')
  <2>1. \A i \in DOMAIN path : path'[i] = path[i] /\ i < k
    BY <1>1, <1>3, PathForwarded
  <2>2. k \notin Passed'
    BY <1>3 DEF Passed, Entry
  <2>3. Passed = {i \in DOMAIN path : Config[path[i].proxy].layer}
    BY <1>1 DEF Passed
  <2>4. Passed' = {i \in DOMAIN path : Config[path[i].proxy].layer}
    BY <1>3, <2>1, <2>2 DEF Passed
  <2> QED
    BY <2>3, <2>4
<1> QED
  BY <1>2, <1>3, PathForwarded

\* The request is still on its way after a step only if a proxy has passed it on.
LEMMA RequestSteps ==
  ASSUME PhaseInv, [Next]_vars, answer' = "none"
  PROVE  /\ answer = "none" /\ client' = client
         /\ LayerPasses \/ CoreForwards \/ UNCHANGED vars
  BY DEF Next, PhaseInv, vars, LayerLoops, LayerAnswers, LayerPasses, CoreLoops, CoreForwards,
         OriginAnswers, CoreReturns, LayerReturns, Answer

\* At first there is one hop, and no layer has been passed.
LEMMA FirstHop ==
  ASSUME Init
  PROVE  /\ TypeOK /\ PhaseInv /\ path # <<>> /\ Len(path) = 1 /\ DOMAIN path = {1}
         /\ Relays = {} /\ Passed = {} /\ answer = "none" /\ msg = client
         /\ stage = Entry(here.proxy) /\ here = path[1] /\ here.ws = FALSE
         /\ client \in Messages
<1>1. TypeOK
  BY TypeInit
<1>2. PICK n \in Proxies, v \in Versions : path = <<Hop(n, v)>> /\ stage = Entry(n)
  BY DEF Init
<1>3. Len(path) = 1 /\ DOMAIN path = 1..1 /\ path[1] = Hop(n, v) /\ path # <<>>
  <2> DEFINE h == Hop(n, v)
  <2>1. path = <<h>>
    BY <1>2
  <2> HIDE DEF h
  <2>2. Len(path) = 1 /\ DOMAIN path = 1..1 /\ path[1] = h /\ path # <<>>
    BY <2>1
  <2> QED
    BY <2>2 DEF h
<1>4. here = path[1]
  BY <1>3 DEF here, Last
<1>5. here.proxy = n /\ here.ws = FALSE
  BY <1>3, <1>4 DEF Hop
<1>6. stage = Entry(here.proxy)
  BY <1>2, <1>5
<1>7. Relays = {}
  BY <1>1, <1>3, <1>6, RelaysAre DEF Entry
<1>8. Passed = {}
  BY <1>3, <1>4, <1>6 DEF Passed, Entry
<1>9. answer = "none" /\ msg = client /\ client \in Messages
  BY <1>1 DEF Init, TypeOK
<1>10. PhaseInv
  BY <1>6, <1>9 DEF PhaseInv, Entry
<1> QED
  BY <1>1, <1>3, <1>4, <1>5, <1>6, <1>7, <1>8, <1>9, <1>10

--------------------------------------------------------------------------------
(* Connection headers on the way *)

\* What the two Connection headers that proxies write list.
LEMMA ListingOf ==
  ASSUME NEW m
  PROVE  /\ m.conn = <<>> => Nominated(m) = {} /\ Listed(m) = {} /\ ~IsUpgrade(m)
         /\ m.conn = <<{"upgrade"}>> => Nominated(m) = {"upgrade"} /\ Listed(m) = {"upgrade"}
<1>1. ASSUME m.conn = <<>> PROVE Nominated(m) = {} /\ Listed(m) = {} /\ ~IsUpgrade(m)
  BY <1>1 DEF Nominated, Range, Listed, IsUpgrade
<1>2. ASSUME m.conn = <<{"upgrade"}>> PROVE Nominated(m) = {"upgrade"} /\ Listed(m) = {"upgrade"}
  <2> DEFINE u == {"upgrade"}
  <2>1. m.conn = <<u>>
    BY <1>2
  <2>2. u \ EndToEnd = u
    BY DEF EndToEnd
  <2> HIDE DEF u
  <2>3. Range(m.conn) = {u}
    BY <2>1 DEF Range
  <2>4. m.conn # <<>> /\ m.conn[1] = u
    BY <2>1
  <2> QED
    BY <2>2, <2>3, <2>4 DEF Nominated, Listed, u
<1> QED
  BY <1>1, <1>2

LEMMA ListedNominated ==
  ASSUME NEW m \in Messages
  PROVE  Listed(m) \subseteq Nominated(m)
<1>1. m.conn \in Seq(SUBSET Listable)
  BY MessageFields
<1>2. ASSUME m.conn # <<>> PROVE m.conn[1] \in Range(m.conn)
  BY <1>1, <1>2 DEF Range
<1> QED
  BY <1>2 DEF Listed, Nominated

\* A layer passes on what it does not strip, for a hop that has not forwarded yet.
LEMMA LayerPassesOn ==
  ASSUME TypeOK, PhaseInv, LayerPasses
  PROVE  LET ws == Preserves(msg)
         IN  /\ path # <<>> /\ path' # <<>> /\ Len(path) \in Nat \ {0} /\ here = path[Len(path)]
             /\ stage = "layer" /\ stage' = "core" /\ Config[here.proxy].layer
             /\ Len(path') = Len(path) /\ DOMAIN path' = DOMAIN path /\ DOMAIN path = 1..Len(path)
             /\ \A i \in DOMAIN path : path'[i].proxy = path[i].proxy
             /\ Relays = 1..(Len(path) - 1) /\ Relays' = Relays
             /\ \A i \in Relays : path'[i] = path[i]
             /\ here' = path'[Len(path)] /\ here'.proxy = here.proxy /\ here'.ws = ws
             /\ msg' \in Messages /\ ws \in BOOLEAN /\ msg'.trailers = msg.trailers
             /\ msg'.hdrs = msg.hdrs \ LayerStrips(msg, ws)
             /\ msg'.conn = IF ws THEN msg.conn ELSE <<>>
             /\ FirstVia(LayerStripped(Decremented(msg), ws))
                  = IF "via" \in LayerStrips(msg, ws) THEN <<>> ELSE FirstVia(msg)
             /\ LayerStripped(Decremented(msg), ws) \in Messages
             /\ msg'.via = LayerVia(LayerStripped(Decremented(msg), ws))
<1> DEFINE ws == Preserves(msg)
           d == Decremented(msg)
           m == LayerStripped(d, ws)
           k == Len(path)
<1>1. /\ path # <<>> /\ path' # <<>> /\ Len(path') = k /\ DOMAIN path' = 1..k
      /\ \A i \in 1..(k - 1) : path'[i] = path[i]
      /\ path'[k].proxy = here.proxy /\ path'[k].ws = ws
  BY PathMarked
<1>2. k \in Nat \ {0} /\ DOMAIN path = 1..k /\ here = path[k]
  BY <1>1, HereIsLast
<1>3. stage = "layer" /\ stage' = "core" /\ Config[here.proxy].layer
  BY DEF LayerPasses, PhaseInv
<1>4. Relays = 1..(k - 1)
  BY <1>1, <1>3, RelaysAre
<1>5. Relays' = Relays
  BY <1>1, <1>2, <1>3, <1>4 DEF Relays
<1>6. here' = path'[k]
  BY <1>1 DEF here, Last
<1>7. \A i \in DOMAIN path : path'[i].proxy = path[i].proxy
  <2>1. \A i \in 1..k : i \in 1..(k - 1) \/ i = k
    <3> HIDE DEF k
    <3> QED
      BY <1>2
  <2> QED
    BY <1>1, <1>2, <2>1
<1>8. /\ msg \in Messages /\ ws \in BOOLEAN
      /\ m \in Messages /\ msg' \in Messages /\ msg'.hdrs = m.hdrs /\ msg'.conn = m.conn
      /\ msg'.via = LayerVia(m) /\ msg'.trailers = m.trailers
  BY PathMarked
<1>9. /\ d \in Messages /\ d.hdrs = msg.hdrs /\ d.conn = msg.conn /\ d.via = msg.via
      /\ d.trailers = msg.trailers
  BY <1>8, DecrementedFields DEF LayerPasses
<1> HIDE DEF ws, d
<1>10. /\ m.hdrs = d.hdrs \ LayerStrips(d, ws) /\ m.conn = (IF ws THEN d.conn ELSE <<>>)
       /\ m.via = (IF "via" \in LayerStrips(d, ws) THEN <<>> ELSE d.via) /\ m.trailers = d.trailers
  BY <1>8, <1>9, LayerFields
<1>11. LayerStrips(d, ws) = LayerStrips(msg, ws)
  BY <1>9 DEF LayerStrips, Listed
<1> HIDE DEF m
<1>12. FirstVia(m) = IF "via" \in LayerStrips(msg, ws) THEN <<>> ELSE FirstVia(msg)
  BY <1>9, <1>10, <1>11 DEF FirstVia
<1> HIDE DEF k
<1>13. \A i \in Relays : path'[i] = path[i]
  BY <1>1, <1>4
<1> QED
  BY <1>1, <1>2, <1>3, <1>4, <1>5, <1>6, <1>7, <1>8, <1>9, <1>10, <1>11, <1>12, <1>13 DEF ws, d, m, k

LEMMA ListingStep == TypeOK /\ PhaseInv /\ ListingInv /\ [Next]_vars => ListingInv'
<1> SUFFICES ASSUME TypeOK, PhaseInv, ListingInv, [Next]_vars, answer' = "none"
             PROVE  ListingInv'
  BY DEF ListingInv
<1>0. answer = "none" /\ client' = client
  BY RequestSteps
<1>1. CASE LayerPasses
  <2> DEFINE ws == Preserves(msg)
  <2>1. /\ stage = "layer" /\ stage' = "core" /\ Config[here.proxy].layer
        /\ here'.proxy = here.proxy /\ here'.ws = ws
        /\ msg'.trailers = msg.trailers /\ Relays' = Relays
        /\ msg'.conn = (IF ws THEN msg.conn ELSE <<>>)
    BY <1>1, LayerPassesOn
  <2> HIDE DEF ws
  <2> QED
    BY <1>0, <2>1 DEF ListingInv
<1>2. CASE CoreForwards
  <2>1. here \in Hops /\ msg \in Messages /\ Relays' # {}
    BY <1>2, PathForwarded
  <2>2. /\ msg'.trailers = msg.trailers
        /\ msg'.conn = IF IsUpgrade(msg) THEN <<{"upgrade"}>> ELSE <<>>
    BY <1>2, <2>1, ForwardedFields DEF CoreForwards
  <2> QED
    BY <1>0, <2>1, <2>2 DEF ListingInv
<1>3. CASE UNCHANGED vars
  BY <1>0, <1>3 DEF vars, ListingInv, Relays, here
<1> QED
  BY <1>1, <1>2, <1>3, RequestSteps

LEMMA ListingInit == Init => ListingInv
  BY FirstHop DEF ListingInv, Entry

--------------------------------------------------------------------------------
(* Max-Forwards *)

\* Proxies list nothing but Upgrade of their own accord.
LEMMA NominatedStays ==
  ASSUME TypeOK, PhaseInv, ListingInv, answer = "none"
  PROVE  Nominated(msg) \subseteq Nominated(client) \cup {"upgrade"}
<1>1. stage \in {"layer", "core", "origin"} /\ path # <<>>
  BY DEF PhaseInv, TypeOK
<1>2. CASE Relays # {}
  BY <1>2, ListingOf DEF ListingInv
<1>3. CASE Relays = {} /\ (stage = "layer" \/ ~Config[here.proxy].layer)
  BY <1>3 DEF ListingInv
<1>4. CASE Relays = {} /\ stage = "core" /\ Config[here.proxy].layer
  <2>1. msg.conn = client.conn \/ msg.conn = <<>>
    BY <1>4 DEF ListingInv
  <2>2. msg.conn = client.conn => Nominated(msg) = Nominated(client)
    BY DEF Nominated
  <2> QED
    BY <2>1, <2>2, ListingOf
<1>5. stage = "origin" => Relays # {}
  <2>1. Len(path) \in Nat \ {0} /\ DOMAIN path = 1..Len(path)
    BY <1>1, HereIsLast
  <2>2. Len(path) \in DOMAIN path
    BY <2>1
  <2> QED
    BY <2>2 DEF Relays
<1> QED
  BY <1>1, <1>2, <1>3, <1>4, <1>5

\* So a proxy strips Max-Forwards only if the client listed it.
LEMMA CountIsStripped ==
  ASSUME TypeOK, PhaseInv, ListingInv, answer = "none"
  PROVE  /\ "max-forwards" \in Strips(msg) => "max-forwards" \in Nominated(client)
         /\ \A ws \in BOOLEAN :
              "max-forwards" \in LayerStrips(msg, ws) => "max-forwards" \in Nominated(client)
<1>1. "max-forwards" \in Nominated(msg) => "max-forwards" \in Nominated(client)
  BY NominatedStays
<1>2. Listed(msg) \subseteq Nominated(msg)
  BY ListedNominated DEF TypeOK
<1> QED
  BY <1>1, <1>2 DEF Strips, LayerStrips, HopByHop

\* A count that is stripped is lost, and there was nothing to count without it.
LEMMA NowLost ==
  ASSUME msg'.traced = client'.traced, msg'.maxForwards = None,
         "max-forwards" \in Nominated(client'), None \notin 0..MaxCount
  PROVE  CountInv'
<1>1. client'.maxForwards = None => ~Counts(client')
  BY DEF Counts
<1> QED
  BY <1>1 DEF CountInv, CountLost

LEMMA CountStep == TypeOK /\ PhaseInv /\ ListingInv /\ CountInv /\ [Next]_vars => CountInv'
<1> SUFFICES ASSUME TypeOK, PhaseInv, ListingInv, CountInv, [Next]_vars, answer' = "none"
             PROVE  CountInv'
  BY DEF CountInv
<1>0. answer = "none" /\ client' = client
  BY RequestSteps
<1>1. /\ msg.traced = client.traced
      /\ CountLost => "max-forwards" \in Nominated(client)
      /\ ~CountLost =>
           IF Counts(client)
           THEN Counts(msg) /\ msg.maxForwards + Cardinality(Passed) = client.maxForwards
           ELSE msg.maxForwards = client.maxForwards
  BY <1>0 DEF CountInv
<1>2. client \in Messages /\ msg \in Messages
  BY DEF TypeOK
<1>3. None \notin 0..MaxCount
  BY NoneAssumption, MaxCountAssumption
<1>4. Counts(msg) => msg.maxForwards # None
  BY <1>3 DEF Counts
<1>5. CASE LayerPasses
  <2> DEFINE d == Decremented(msg)
             ws == Preserves(msg)
             m == LayerStripped(d, ws)
             strips == "max-forwards" \in LayerStrips(msg, ws)
  <2>1. /\ d \in Messages /\ d.traced = msg.traced /\ d.conn = msg.conn
        /\ d.maxForwards = IF Counts(msg) THEN msg.maxForwards - 1 ELSE msg.maxForwards
        /\ Counts(msg) => msg.maxForwards \in Nat /\ Counts(d)
    BY <1>2, <1>5, DecrementedFields DEF LayerPasses
  <2>2. msg'.maxForwards = m.maxForwards /\ msg'.traced = m.traced /\ ws \in BOOLEAN
    BY <1>5, PathMarked
  <2>3. strips => "max-forwards" \in Nominated(client)
    BY <1>0, <2>2, CountIsStripped
  <2>4. LayerStrips(d, ws) = LayerStrips(msg, ws)
    BY <2>1 DEF LayerStrips, Listed
  <2> HIDE DEF d, ws
  <2>5. m.maxForwards = (IF strips THEN None ELSE d.maxForwards) /\ m.traced = d.traced
    BY <2>1, <2>2, <2>4, LayerFields
  <2> HIDE DEF m, strips
  <2>6. msg'.traced = client'.traced
    BY <1>0, <1>1, <2>1, <2>2, <2>5
  <2>7. Passed' = Passed \cup {Len(path)} /\ Len(path) \notin Passed /\ IsFiniteSet(Passed)
    BY <1>5, PassedGrows
  <2>8. Cardinality(Passed') = Cardinality(Passed) + 1 /\ Cardinality(Passed) \in Nat
    BY <2>7, FS_AddElement, FS_CardinalityType
  <2>9. CASE strips
    BY <1>0, <1>3, <2>2, <2>3, <2>5, <2>6, <2>9, NowLost
  <2>10. CASE ~strips /\ Counts(msg)
    <3>1. msg'.maxForwards = msg.maxForwards - 1 /\ msg.maxForwards \in Nat /\ Counts(msg')
      <4>1. msg'.maxForwards = d.maxForwards /\ msg'.traced = d.traced
        BY <2>2, <2>5, <2>10
      <4> QED
        BY <2>1, <2>10, <4>1 DEF Counts
    <3>2. msg'.maxForwards # None /\ ~CountLost
      BY <1>3, <1>4, <2>10, <3>1 DEF Counts, CountLost
    <3>3. Counts(client)
      BY <1>1, <2>10, <3>2 DEF Counts
    <3>4. msg.maxForwards + Cardinality(Passed) = client.maxForwards
      BY <1>1, <3>2, <3>3
    <3>5. msg'.maxForwards + Cardinality(Passed') = client.maxForwards
      BY <2>8, <3>1, <3>4
    <3> QED
      BY <1>0, <2>6, <3>1, <3>2, <3>3, <3>5 DEF CountInv, CountLost
  <2>11. CASE ~strips /\ ~Counts(msg)
    <3>1. msg'.maxForwards = msg.maxForwards
      BY <2>1, <2>2, <2>5, <2>11
    <3>2. CountLost' <=> CountLost
      BY <1>0, <3>1 DEF CountLost
    <3>3. ~CountLost => ~Counts(client)
      BY <1>1, <2>11
    <3>4. ~CountLost' => ~Counts(client') /\ msg'.maxForwards = client'.maxForwards
      BY <1>0, <1>1, <3>1, <3>2, <3>3
    <3> QED
      BY <1>0, <1>1, <2>6, <3>2, <3>4 DEF CountInv
  <2> QED
    BY <2>9, <2>10, <2>11
<1>6. CASE CoreForwards
  <2> DEFINE strips == "max-forwards" \in Strips(msg)
  <2>1. Passed' = Passed
    BY <1>6, PassedStays
  <2>2. /\ msg'.traced = msg.traced
        /\ msg'.maxForwards = IF strips THEN None ELSE msg.maxForwards
    <3>1. here \in Hops
      BY <1>6, PathForwarded
    <3> QED
      BY <1>2, <1>6, <3>1, ForwardedFields DEF CoreForwards
  <2>3. strips => "max-forwards" \in Nominated(client)
    BY <1>0, CountIsStripped
  <2> HIDE DEF strips
  <2>4. CASE strips
    BY <1>0, <1>1, <1>3, <2>2, <2>3, <2>4, NowLost
  <2>5. CASE ~strips
    <3>1. msg'.maxForwards = msg.maxForwards /\ (CountLost' <=> CountLost) /\ (Counts(msg') <=> Counts(msg))
      BY <1>0, <2>2, <2>5 DEF CountLost, Counts
    <3> QED
      BY <1>0, <1>1, <2>1, <2>2, <3>1 DEF CountInv
  <2> QED
    BY <2>4, <2>5
<1>7. CASE UNCHANGED vars
  BY <1>7 DEF vars, CountInv, CountLost, Passed, Counts
<1> QED
  BY <1>5, <1>6, <1>7, RequestSteps

LEMMA CountInit == Init => CountInv
<1> SUFFICES ASSUME Init PROVE CountInv
  OBVIOUS
<1>1. msg = client /\ Passed = {} /\ client \in Messages
  BY FirstHop
<1>2. Cardinality(Passed) = 0
  BY <1>1, FS_EmptySet
<1>3. Counts(client) => client.maxForwards \in Nat
  BY MaxCountAssumption DEF Counts
<1>4. Counts(client) => client.maxForwards + 0 = client.maxForwards
  BY <1>3
<1> QED
  BY <1>1, <1>2, <1>4 DEF CountInv, CountLost

\* The hops that a TRACE or OPTIONS request may make are counted by every layer, in chains of
\* any length: process_max_forwards takes exactly one off for each.  No proxy of the chain
\* loses the count unless the client had listed Max-Forwards in Connection.
THEOREM CountTheorem == Spec => []HopsCounted
<1> DEFINE IInv == TypeOK /\ PhaseInv /\ ListingInv /\ CountInv
<1>1. Init => IInv
  BY FirstHop, CountInit, ListingInit
<1>2. IInv /\ [Next]_vars => IInv'
  BY TypeStep, PhaseStep, ListingStep, CountStep
<1>3. IInv => HopsCounted
  BY DEF CountInv, CountLost, HopsCounted, Passed
<1> QED
  BY <1>1, <1>2, <1>3, PTL DEF Spec

LEMMA StopsStep == TypeOK /\ PhaseInv /\ ListingInv /\ HopByHopStops /\ [Next]_vars => HopByHopStops'
<1> DEFINE up == IF IsUpgrade(client) THEN {"upgrade"} ELSE {}
           Listing == IF IsUpgrade(client) THEN <<{"upgrade"}>> ELSE <<>>
<1> SUFFICES ASSUME TypeOK, PhaseInv, ListingInv, HopByHopStops, [Next]_vars, answer' = "none",
                    client' = client, KeepsHandshake(client), Relays' # {},
                    \A i \in DOMAIN path' : ~Config[path'[i].proxy].layer
             PROVE  msg'.hdrs = PassedOn(client) \cup up /\ msg'.conn = Listing
  BY RequestSteps DEF HopByHopStops
<1>0. answer = "none"
  BY RequestSteps
<1>1. CASE LayerPasses
  <2>1. Config[here.proxy].layer /\ here'.proxy = here.proxy /\ here' = path'[Len(path)]
        /\ Len(path) \in DOMAIN path'
    BY <1>1, LayerPassesOn
  <2> QED
    BY <2>1
<1>2. CASE CoreForwards
  <2>1. /\ here \in Hops /\ msg \in Messages /\ here = path[Len(path)] /\ Len(path) \in DOMAIN path
        /\ \A i \in DOMAIN path : i \in DOMAIN path' /\ path'[i] = path[i]
    BY <1>2, PathForwarded
  <2>2. \A i \in DOMAIN path : ~Config[path[i].proxy].layer
    BY <2>1
  <2>3. /\ msg'.hdrs = (msg.hdrs \ Strips(msg)) \cup (IF IsUpgrade(msg) THEN {"upgrade"} ELSE {})
        /\ msg'.conn = IF IsUpgrade(msg) THEN <<{"upgrade"}>> ELSE <<>>
    BY <1>2, <2>1, ForwardedFields DEF CoreForwards
  <2>4. CASE Relays = {}
    <3>1. msg = client
      BY <1>0, <2>1, <2>2, <2>4 DEF ListingInv
    <3>2. msg.hdrs \ Strips(msg) = PassedOn(client)
      BY <3>1 DEF Strips, PassedOn
    <3> QED
      BY <2>3, <3>1, <3>2
  <2>5. CASE Relays # {}
    <3>1. msg.hdrs = PassedOn(client) \cup up /\ msg.conn = Listing
      BY <1>0, <2>2, <2>5 DEF HopByHopStops
    <3>2. msg.trailers = client.trailers
      BY <1>0 DEF ListingInv
    <3> DEFINE T == HopByHop \ (IF client.trailers THEN {"te"} ELSE {})
    <3>3. Strips(msg) = T \cup Nominated(msg) /\ PassedOn(client) \cap T = {}
      BY <3>2 DEF Strips, PassedOn
    <3>4. CASE IsUpgrade(client)
      <4>1. Nominated(msg) = {"upgrade"}
        BY <3>1, <3>4, ListingOf
      <4>2. "sec-websocket" \in PassedOn(client)
        BY <3>4 DEF IsUpgrade, PassedOn, KeepsHandshake, HopByHop
      <4>3. IsUpgrade(msg)
        BY <3>1, <3>4, <4>1, <4>2 DEF IsUpgrade
      <4>4. ((PassedOn(client) \cup {"upgrade"}) \ (T \cup {"upgrade"})) \cup {"upgrade"}
              = PassedOn(client) \cup {"upgrade"}
        BY <3>3
      <4> HIDE DEF T
      <4> QED
        BY <2>3, <3>1, <3>3, <3>4, <4>1, <4>3, <4>4
    <3>5. CASE ~IsUpgrade(client)
      <4>1. Nominated(msg) = {} /\ ~IsUpgrade(msg)
        BY <3>1, <3>5, ListingOf
      <4> HIDE DEF T
      <4> QED
        BY <2>3, <3>1, <3>3, <3>5, <4>1
    <3> QED
      BY <3>4, <3>5
  <2> QED
    BY <2>4, <2>5
<1>3. CASE UNCHANGED vars
  BY <1>0, <1>3 DEF vars, HopByHopStops, Relays
<1> QED
  BY <1>1, <1>2, <1>3, RequestSteps

\* An upgrade that every layer is to preserve is one on every connection.
LEMMA SurvivesStep == TypeOK /\ PhaseInv /\ SurvivesInv /\ [Next]_vars => SurvivesInv'
<1> DEFINE Kept(p) == \A i \in DOMAIN p : Config[p[i].proxy].layer => Config[p[i].proxy].preserve
<1> SUFFICES ASSUME TypeOK, PhaseInv, SurvivesInv, [Next]_vars, answer' = "none", client' = client,
                    IsUpgrade(client), KeepsHandshake(client), Kept(path')
             PROVE  IsUpgrade(msg') /\ "sec-websocket" \notin Nominated(msg')
  BY RequestSteps DEF SurvivesInv
<1>0. answer = "none"
  BY RequestSteps
<1>a. ASSUME Kept(path) PROVE IsUpgrade(msg) /\ "sec-websocket" \notin Nominated(msg)
  BY <1>0, <1>a DEF SurvivesInv
<1>1. CASE LayerPasses
  <2> DEFINE ws == Preserves(msg)
  <2>1. /\ Len(path) \in DOMAIN path /\ DOMAIN path' = DOMAIN path /\ here = path[Len(path)]
        /\ \A i \in DOMAIN path : path'[i].proxy = path[i].proxy
        /\ Config[here.proxy].layer
        /\ msg'.hdrs = msg.hdrs \ LayerStrips(msg, ws)
        /\ msg'.conn = IF ws THEN msg.conn ELSE <<>>
    BY <1>1, LayerPassesOn
  <2>2. Kept(path)
    BY <2>1
  <2>3. IsUpgrade(msg) /\ "sec-websocket" \notin Nominated(msg)
    BY <1>a, <2>2
  <2>4. ws
    BY <2>1, <2>2, <2>3 DEF Preserves, IsUpgrade
  <2>5. LayerStrips(msg, ws) = (HopByHop \cup Listed(msg)) \ {"upgrade"}
    BY <2>4 DEF LayerStrips
  <2>6. "sec-websocket" \notin Listed(msg)
    BY <2>3, ListedNominated DEF TypeOK
  <2>7. {"upgrade", "sec-websocket"} \subseteq msg'.hdrs
    BY <2>1, <2>3, <2>5, <2>6 DEF IsUpgrade, HopByHop
  <2>8. Nominated(msg') = Nominated(msg)
    BY <2>1, <2>4 DEF Nominated
  <2> QED
    BY <2>3, <2>7, <2>8 DEF IsUpgrade
<1>2. CASE CoreForwards
  <2>1. /\ here \in Hops /\ msg \in Messages
        /\ \A i \in DOMAIN path : i \in DOMAIN path' /\ path'[i] = path[i]
    BY <1>2, PathForwarded
  <2>2. Kept(path)
    BY <2>1
  <2>3. IsUpgrade(msg) /\ "sec-websocket" \notin Nominated(msg)
    BY <1>a, <2>2
  <2>4. /\ msg'.hdrs = (msg.hdrs \ Strips(msg)) \cup {"upgrade"}
        /\ msg'.conn = <<{"upgrade"}>>
    BY <1>2, <2>1, <2>3, ForwardedFields DEF CoreForwards
  <2>5. "sec-websocket" \notin Strips(msg)
    BY <2>3 DEF Strips, HopByHop
  <2>6. Nominated(msg') = {"upgrade"}
    BY <2>4, ListingOf
  <2> QED
    BY <2>3, <2>4, <2>5, <2>6 DEF IsUpgrade
<1>3. CASE UNCHANGED vars
  BY <1>a, <1>3 DEF vars
<1> QED
  BY <1>1, <1>2, <1>3, RequestSteps

\* A WebSocket handshake reaches the origin as one through chains of any length, whatever
\* proxies without a layer are between those that preserve it.
THEOREM UpgradeTheorem == Spec => []UpgradeSurvives
<1> DEFINE IInv == TypeOK /\ PhaseInv /\ SurvivesInv
<1>1. Init => SurvivesInv
  BY FirstHop DEF SurvivesInv, KeepsHandshake
<1>2. Init => IInv
  BY <1>1, FirstHop
<1>3. IInv /\ [Next]_vars => IInv'
  BY TypeStep, PhaseStep, SurvivesStep
<1>4. IInv => UpgradeSurvives
  BY DEF PhaseInv, SurvivesInv, UpgradeSurvives
<1> QED
  BY <1>2, <1>3, <1>4, PTL DEF Spec

--------------------------------------------------------------------------------
(* The response *)

\* The hops that are left when one has been left behind.
LEMMA HopsLeft ==
  ASSUME TypeOK, path # <<>>, path' = Popped(path)
  PROVE  /\ DOMAIN path' \subseteq DOMAIN path
         /\ \A i \in DOMAIN path' : path'[i] = path[i]
<1>1. Len(path) \in Nat \ {0} /\ DOMAIN path = 1..Len(path)
  BY HereIsLast
<1>2. /\ DOMAIN path' = 1..(Len(path) - 1)
      /\ \A i \in 1..(Len(path) - 1) : path'[i] = path[i]
  BY PathPops
<1>3. 1..(Len(path) - 1) \subseteq 1..Len(path)
  BY <1>1
<1> QED
  BY <1>1, <1>2, <1>3

LEMMA HandshakeStep == TypeOK /\ PhaseInv /\ HandshakeInv /\ [Next]_vars => HandshakeInv'
<1> SUFFICES ASSUME TypeOK, PhaseInv, HandshakeInv, [Next]_vars PROVE HandshakeInv'
  OBVIOUS
<1>1. ASSUME answer' = "none", NEW i \in Passed', ~path'[i].ws
      PROVE  msg'.conn = <<>>
  <2>0. answer = "none"
    BY <1>1, RequestSteps
  <2>1. CASE LayerPasses
    <3>1. /\ DOMAIN path = 1..Len(path) /\ Relays = 1..(Len(path) - 1)
          /\ here' = path'[Len(path)] /\ here'.ws = Preserves(msg)
          /\ \A j \in Relays : path'[j] = path[j]
          /\ msg'.conn = IF Preserves(msg) THEN msg.conn ELSE <<>>
      BY <2>1, LayerPassesOn
    <3>2. i \in Passed \/ i = Len(path)
      BY <2>1, PassedGrows
    <3>3. CASE i = Len(path)
      BY <1>1, <3>1, <3>3
    <3>4. CASE i \in Passed
      <4>1. i \in Relays
        BY <2>1, <3>4 DEF Passed, Relays, LayerPasses
      <4>2. msg.conn = <<>>
        BY <1>1, <2>0, <3>1, <3>4, <4>1 DEF HandshakeInv
      <4> QED
        BY <3>1, <4>2
    <3> QED
      BY <3>2, <3>3, <3>4
  <2>2. CASE CoreForwards
    <3>1. /\ here \in Hops /\ msg \in Messages
          /\ \A j \in DOMAIN path : path'[j] = path[j]
      BY <2>2, PathForwarded
    <3>2. i \in Passed
      BY <2>2, PassedStays
    <3>3. i \in DOMAIN path
      BY <3>2 DEF Passed
    <3>4. msg.conn = <<>>
      BY <1>1, <2>0, <3>1, <3>2, <3>3 DEF HandshakeInv
    <3>5. ~IsUpgrade(msg)
      BY <3>4, ListingOf
    <3> QED
      BY <2>2, <3>1, <3>5, ForwardedFields DEF CoreForwards
  <2>3. CASE UNCHANGED vars
    BY <1>1, <2>0, <2>3 DEF vars, HandshakeInv, Passed
  <2> QED
    BY <1>1, <2>1, <2>2, <2>3, RequestSteps
<1>2. ASSUME answer' = "upgrade", NEW i \in DOMAIN path', Config[path'[i].proxy].layer
      PROVE  path'[i].ws
  <2>1. CASE OriginAnswers
    <3>1. stage = "origin" /\ answer = "none" /\ path' = path /\ IsUpgrade(msg)
      BY <1>2, <2>1 DEF OriginAnswers, PhaseInv
    <3>2. i \in Passed
      BY <1>2, <3>1 DEF Passed
    <3>3. msg.conn # <<>>
      BY <3>1, ListingOf
    <3> QED
      BY <3>1, <3>2, <3>3 DEF HandshakeInv
  <2>2. CASE CoreReturns
    BY <1>2, <2>2 DEF CoreReturns, HandshakeInv
  <2>3. CASE LayerReturns
    <3>1. path # <<>> /\ answer = "upgrade"
      BY <1>2, <2>3 DEF LayerReturns, TypeOK
    <3>2. i \in DOMAIN path /\ path'[i] = path[i]
      BY <2>3, <3>1, HopsLeft DEF LayerReturns
    <3> QED
      BY <1>2, <3>1, <3>2 DEF HandshakeInv
  <2>4. CASE UNCHANGED vars
    BY <1>2, <2>4 DEF vars, HandshakeInv
  <2>5. CASE LayerPasses \/ CoreForwards
    BY <1>2, <2>5 DEF LayerPasses, CoreForwards, PhaseInv
  <2>6. CASE LayerLoops \/ LayerAnswers \/ CoreLoops
    BY <1>2, <2>6 DEF LayerLoops, LayerAnswers, CoreLoops, Answer
  <2> QED
    BY <2>1, <2>2, <2>3, <2>4, <2>5, <2>6 DEF Next
<1> QED
  BY <1>1, <1>2 DEF HandshakeInv

LEMMA ResponseStep ==
  TypeOK /\ PhaseInv /\ HandshakeInv /\ ResponseInv /\ [Next]_vars => ResponseInv'
<1> SUFFICES ASSUME TypeOK, PhaseInv, HandshakeInv, ResponseInv, [Next]_vars,
                    answer' \in {"origin", "upgrade"}
             PROVE  (stage' = "coreBack" /\ msg' = sent') \/ Clean'
  BY DEF ResponseInv
<1>0. msg \in Messages /\ sent \in Messages
  BY DEF TypeOK
<1>1. CASE OriginAnswers
  BY <1>1 DEF OriginAnswers
<1>2. CASE CoreReturns
  <2> DEFINE up == IF answer = "upgrade" THEN {"upgrade"} ELSE {}
  <2>1. path # <<>> /\ answer' = answer /\ sent' = sent /\ answer \in {"origin", "upgrade"}
    BY <1>2 DEF CoreReturns, TypeOK
  <2>2. here \in Hops
    BY <2>1, HereIsLast
  <2>3. /\ msg'.hdrs = (msg.hdrs \ Strips(msg)) \cup up
        /\ msg'.conn = IF answer = "upgrade" THEN <<{"upgrade"}>> ELSE <<>>
    BY <1>0, <1>2, <2>2, ReturnedFields DEF CoreReturns
  <2>4. "upgrade" \in Strips(msg)
    BY DEF Strips, HopByHop
  <2>5. /\ msg.hdrs \ Strips(msg) \subseteq msg.hdrs
        /\ (msg.hdrs \cap Nominated(sent)) \ Strips(msg) \subseteq {"upgrade"}
        /\ PassedOn(sent) \subseteq (msg.hdrs \ Strips(msg)) \cup {"te", "upgrade"}
    <3>1. CASE msg = sent
      BY <3>1 DEF Strips, PassedOn
    <3>2. CASE Clean
      <4>1. Nominated(msg) \subseteq {"upgrade"}
        BY <2>1, <3>2, ListingOf DEF Clean
      <4>2. PassedOn(sent) \cap (HopByHop \ {"te"}) = {}
        BY DEF PassedOn
      <4>3. Strips(msg) \subseteq HopByHop \cup {"upgrade"}
        BY <4>1 DEF Strips
      <4> QED
        BY <3>2, <4>2, <4>3 DEF Clean, HopByHop
    <3> QED
      BY <2>1, <3>1, <3>2 DEF ResponseInv
  <2>6. "upgrade" \notin PassedOn(sent)
    BY DEF PassedOn, HopByHop
  <2>7. Clean'
    <3>1. msg'.hdrs \cap Nominated(sent') \subseteq {"upgrade"}
      BY <2>1, <2>3, <2>5
    <3>2. "upgrade" \in msg'.hdrs <=> answer' = "upgrade"
      BY <2>1, <2>3, <2>4
    <3>3. PassedOn(sent') \subseteq msg'.hdrs \cup {"te"}
      BY <2>1, <2>3, <2>5, <2>6
    <3> QED
      BY <2>1, <2>3, <3>1, <3>2, <3>3 DEF Clean
  <2> QED
    BY <2>7
<1>3. CASE LayerReturns
  <2>1. /\ path # <<>> /\ answer' = answer /\ sent' = sent /\ answer \in {"origin", "upgrade"}
        /\ stage = "layerBack"
    BY <1>3 DEF LayerReturns, TypeOK
  <2>2. Clean
    BY <2>1 DEF ResponseInv
  <2>3. CASE ~Config[here.proxy].layer
    <3>1. msg' = msg
      BY <1>3, <2>3 DEF LayerReturns
    <3> QED
      BY <2>1, <2>2, <3>1 DEF Clean
  <2>4. CASE Config[here.proxy].layer
    <3> DEFINE ws == here.ws /\ answer = "upgrade"
               m == LayerStripped(msg, ws)
    <3>1. here = path[Len(path)] /\ Len(path) \in DOMAIN path /\ here \in Hops
      BY <2>1, HereIsLast
    <3>2. ws \in BOOLEAN /\ (ws <=> answer = "upgrade")
      BY <2>1, <2>4, <3>1 DEF HandshakeInv, Hops
    <3>3. msg' = [m EXCEPT !.via = here.via]
      BY <1>3, <2>4 DEF LayerReturns, LayerResponse
    <3>4. /\ m \in Messages /\ m.hdrs = msg.hdrs \ LayerStrips(msg, ws)
          /\ m.conn = IF ws THEN msg.conn ELSE <<>>
      BY <1>0, <3>2, LayerFields
    <3> HIDE DEF ws, m
    <3>5. msg'.hdrs = m.hdrs /\ msg'.conn = m.conn
      BY <3>3, <3>4 DEF Messages
    <3>6. Listed(msg) \subseteq {"upgrade"}
      BY <2>2, ListingOf DEF Clean
    <3>7. LayerStrips(msg, ws) \subseteq HopByHop /\ ("upgrade" \in LayerStrips(msg, ws) <=> ~ws)
      BY <3>6 DEF LayerStrips, HopByHop
    <3>8. PassedOn(sent) \cap HopByHop \subseteq {"te"}
      BY DEF PassedOn, HopByHop
    <3>9. msg'.hdrs \cap Nominated(sent') \subseteq {"upgrade"}
      BY <2>1, <2>2, <3>4, <3>5 DEF Clean
    <3>10. "upgrade" \in msg'.hdrs <=> answer' = "upgrade"
      BY <2>1, <2>2, <3>2, <3>4, <3>5, <3>7 DEF Clean
    <3>11. PassedOn(sent') \subseteq msg'.hdrs \cup {"te"}
      BY <2>1, <2>2, <3>4, <3>5, <3>7, <3>8 DEF Clean
    <3>12. msg'.conn = IF answer' = "upgrade" THEN <<{"upgrade"}>> ELSE <<>>
      BY <2>1, <2>2, <3>2, <3>4, <3>5 DEF Clean
    <3> QED
      BY <3>9, <3>10, <3>11, <3>12 DEF Clean
  <2> QED
    BY <2>3, <2>4
<1>4. CASE UNCHANGED vars
  BY <1>4 DEF vars, ResponseInv, Clean
<1>5. CASE LayerPasses \/ CoreForwards
  BY <1>5 DEF LayerPasses, CoreForwards, PhaseInv
<1>6. CASE LayerLoops \/ LayerAnswers \/ CoreLoops
  BY <1>6 DEF LayerLoops, LayerAnswers, CoreLoops, Answer
<1> QED
  BY <1>1, <1>2, <1>3, <1>4, <1>5, <1>6 DEF Next

\* What is meant for one connection ends with it, on the way to the origin and back: chains
\* without a layer pass on exactly the end-to-end headers, and no response reaches the client
\* with a header of a connection, or without one that the origin sent for it.
THEOREM HopByHopTheorem == Spec => []HopByHopEnds
<1> DEFINE IInv == TypeOK /\ PhaseInv /\ ListingInv /\ HopByHopStops /\ HandshakeInv /\ ResponseInv
<1>1. Init => IInv
  <2> SUFFICES ASSUME Init PROVE IInv
    OBVIOUS
  <2>1. TypeOK /\ PhaseInv /\ Relays = {} /\ Passed = {} /\ answer = "none"
    BY FirstHop
  <2>2. HopByHopStops
    BY <2>1 DEF HopByHopStops
  <2>3. HandshakeInv /\ ResponseInv
    BY <2>1 DEF HandshakeInv, ResponseInv
  <2> QED
    BY <2>1, <2>2, <2>3, ListingInit
<1>2. IInv /\ [Next]_vars => IInv'
  BY TypeStep, PhaseStep, ListingStep, StopsStep, HandshakeStep, ResponseStep
<1>3. IInv => HopByHopEnds
  BY DEF ResponseInv, Clean, HopByHopEnds, ResponseArrivesClean
<1> QED
  BY <1>1, <1>2, <1>3, PTL DEF Spec

--------------------------------------------------------------------------------
(* Via *)

LEMMA RangeAppend ==
  ASSUME NEW T, NEW s \in Seq(T), NEW x \in T
  PROVE  Append(s, x) \in Seq(T) /\ s \o <<x>> = Append(s, x) /\ Range(Append(s, x)) = Range(s) \cup {x}
<1> DEFINE r == Append(s, x)
           n == Len(s)
<1>1. /\ r \in Seq(T) /\ n \in Nat /\ DOMAIN s = 1..n /\ DOMAIN r = 1..(n + 1)
      /\ r[n + 1] = x /\ \A i \in 1..n : r[i] = s[i]
  OBVIOUS
<1>2. s \o <<x>> = r
  OBVIOUS
<1> HIDE DEF r, n
<1>3. \A i \in 1..(n + 1) : i \in 1..n \/ i = n + 1
  BY <1>1
<1>4. n + 1 \in 1..(n + 1) /\ 1..n \subseteq 1..(n + 1)
  BY <1>1
<1>5. Range(r) = Range(s) \cup {x}
  BY <1>1, <1>3, <1>4 DEF Range
<1> QED
  BY <1>1, <1>2, <1>5 DEF r

\* The names of the first line are among all names.
LEMMA FirstAmongAll ==
  ASSUME NEW m \in Messages
  PROVE  /\ FlattenSeq(m.via) \in Seq(ViaEntries)
         /\ FirstVia(m) \in Seq(ViaEntries)
         /\ Range(FirstVia(m)) \subseteq Range(FlattenSeq(m.via))
         /\ NamesIn(m) \subseteq Entries(m)
<1> DEFINE s == m.via
           L == Seq(ViaEntries)
<1>1. s \in Seq(L)
  BY MessageFields
<1>2. FlattenSeq(s) \in L
  BY ONLY <1>1, FlattenType
<1>3. Range(FlattenSeq(s)) = UNION {Range(s[i]) : i \in DOMAIN s}
  BY ONLY <1>1, FlattenRange
<1>4. <<>> \in L
  OBVIOUS
<1>5. FirstVia(m) = IF s = <<>> THEN <<>> ELSE s[1]
  BY DEF FirstVia
<1> HIDE DEF s, L
<1>6. CASE s = <<>>
  <2>1. FirstVia(m) = <<>>
    BY <1>5, <1>6
  <2>2. Range(FirstVia(m)) = {}
    BY <2>1 DEF Range
  <2> QED
    BY <1>2, <1>4, <2>1, <2>2 DEF s, L, NamesIn, Entries
<1>7. CASE s # <<>>
  <2>1. 1 \in DOMAIN s /\ s[1] \in L
    BY <1>1, <1>7
  <2>2. FirstVia(m) = s[1]
    BY <1>5, <1>7
  <2>3. Range(FirstVia(m)) \subseteq Range(FlattenSeq(s))
    BY <1>3, <2>1, <2>2
  <2> QED
    BY <1>2, <2>1, <2>2, <2>3 DEF s, L, NamesIn, Entries
<1> QED
  BY <1>6, <1>7

\* A single line is the first one and all there is.
LEMMA OneLine ==
  ASSUME NEW m \in Messages, NEW line \in Seq(ViaEntries), m.via = <<line>>
  PROVE  FirstVia(m) = line /\ FlattenSeq(m.via) = line
<1>1. FlattenSeq(<<line>>) = line
  BY FlattenOne
<1>2. m.via # <<>> /\ m.via[1] = line
  OBVIOUS
<1> QED
  BY <1>1, <1>2 DEF FirstVia

\* What forward_with leaves of the names, and the one it adds.
LEMMA ForwardedNames ==
  ASSUME TypeOK, CoreForwards
  PROVE  LET own == Config[here.proxy].via
         IN  /\ "via" \notin Strips(msg) => NamesIn(msg) \subseteq NamesIn(msg')
             /\ own # None => own \in NamesIn(msg')
             /\ Entries(msg') \subseteq Entries(msg) \cup ({own} \ {None})
<1> DEFINE own == Config[here.proxy].via
           kept == IF "via" \in Strips(msg) THEN <<>> ELSE msg.via
           e == [version |-> here.version, name |-> own]
           flat == FlattenSeq(kept)
<1>1. here \in Hops /\ msg \in Messages
  BY PathForwarded
<1>2. /\ msg' \in Messages
      /\ msg'.via = IF own = None THEN kept ELSE AppendVia(kept, here.version, own)
  BY <1>1, ForwardedFields DEF CoreForwards
<1>3. own \in STRING \cup {None}
  <2>1. here.proxy \in Proxies
    BY <1>1 DEF Hops
  <2> QED
    BY <2>1, ConfigAssumption
<1>4. /\ FlattenSeq(msg.via) \in Seq(ViaEntries)
      /\ NamesIn(msg) \subseteq Entries(msg)
      /\ NamesIn(msg') \subseteq Entries(msg')
  BY <1>1, <1>2, FirstAmongAll
<1>5. flat \in Seq(ViaEntries) /\ Range(flat) \subseteq Range(FlattenSeq(msg.via))
      /\ ("via" \notin Strips(msg) => flat = FlattenSeq(msg.via))
  <2>1. CASE "via" \notin Strips(msg)
    BY <1>4, <2>1
  <2>2. CASE "via" \in Strips(msg)
    <3>1. flat = <<>>
      BY <2>2, FlattenNone
    <3>2. Range(flat) = {}
      BY <3>1 DEF Range
    <3>3. flat \in Seq(ViaEntries)
      <4> HIDE DEF flat
      <4> QED
        BY <3>1
    <3> HIDE DEF flat
    <3> QED
      BY <2>2, <3>2, <3>3
  <2> QED
    BY <2>1, <2>2
<1>6. CASE own = None
  <2>1. msg'.via = kept
    BY <1>2, <1>6
  <2>2. "via" \notin Strips(msg) => NamesIn(msg') = NamesIn(msg)
    BY <2>1 DEF NamesIn, FirstVia
  <2>3. Entries(msg') \subseteq Entries(msg)
    BY <1>5, <2>1 DEF Entries
  <2> QED
    BY <1>6, <2>2, <2>3
<1>7. CASE own # None
  <2> DEFINE line == flat \o <<e>>
  <2>1. e \in ViaEntries /\ e.name = own
    BY <1>1, <1>3, <1>7 DEF Hops, ViaEntries
  <2>2. msg'.via = <<line>>
    BY <1>2, <1>7 DEF AppendVia
  <2> HIDE DEF e, flat
  <2>3. line \in Seq(ViaEntries) /\ Range(line) = Range(flat) \cup {e}
    <3>1. flat \in Seq(ViaEntries) /\ e \in ViaEntries
      BY <1>5, <2>1
    <3>2. /\ Append(flat, e) \in Seq(ViaEntries) /\ flat \o <<e>> = Append(flat, e)
          /\ Range(Append(flat, e)) = Range(flat) \cup {e}
      BY ONLY <3>1, RangeAppend
    <3> QED
      BY <3>2
  <2> HIDE DEF line, own
  <2>4. FirstVia(msg') = line /\ FlattenSeq(msg'.via) = line
    BY <1>2, <2>2, <2>3, OneLine
  <2>5. NamesIn(msg') = {x.name : x \in Range(flat)} \cup {own}
        /\ Entries(msg') = {x.name : x \in Range(flat)} \cup {own}
    BY <2>1, <2>3, <2>4 DEF NamesIn, Entries
  <2>6. {x.name : x \in Range(flat)} \subseteq Entries(msg)
    BY <1>5 DEF Entries
  <2>7. "via" \notin Strips(msg) => Entries(msg) = {x.name : x \in Range(flat)}
    BY <1>5 DEF Entries
  <2> QED
    BY <1>4, <1>7, <2>5, <2>6, <2>7 DEF own
<1> QED
  BY <1>6, <1>7

\* What the layer leaves of the names of the first line, and the one it adds.
LEMMA LayerNames ==
  ASSUME TypeOK, PhaseInv, LayerPasses
  PROVE  LET own == LayerName(here.proxy)
         IN  /\ own \in NamesIn(msg')
             /\ NoCombining /\ "via" \notin LayerStrips(msg, Preserves(msg)) =>
                  NamesIn(msg) \subseteq NamesIn(msg')
             /\ Entries(msg') \subseteq NamesIn(msg) \cup {own}
<1> DEFINE ws == Preserves(msg)
           m == LayerStripped(Decremented(msg), ws)
           e == Own(here.proxy)
           first == FirstVia(m)
<1>1. /\ path # <<>> /\ msg' \in Messages /\ m \in Messages /\ msg'.via = LayerVia(m)
      /\ first = IF "via" \in LayerStrips(msg, ws) THEN <<>> ELSE FirstVia(msg)
  BY LayerPassesOn
<1>2. here \in Hops /\ msg \in Messages
  BY <1>1, HereIsLast DEF TypeOK
<1>3. /\ e \in ViaEntries /\ first \in Seq(ViaEntries)
      /\ \/ msg'.via = <<Append(first, e)>>
         \/ ~NoCombining /\ msg'.via = <<<<e>>>>
  BY <1>1, <1>2, LayerViaFields
<1>4. e.name = LayerName(here.proxy)
  BY DEF Own
<1>5. Range(first) \subseteq Range(FirstVia(msg))
      /\ ("via" \notin LayerStrips(msg, ws) => Range(first) = Range(FirstVia(msg)))
  BY <1>1 DEF Range
<1> HIDE DEF m, e, first, ws
<1>6. CASE msg'.via = <<Append(first, e)>>
  <2> DEFINE line == Append(first, e)
  <2>1. line \in Seq(ViaEntries) /\ Range(line) = Range(first) \cup {e}
    BY <1>3, RangeAppend
  <2>2. msg'.via = <<line>>
    BY <1>6
  <2> HIDE DEF line
  <2>3. FirstVia(msg') = line /\ FlattenSeq(msg'.via) = line
    BY <1>1, <2>1, <2>2, OneLine
  <2> QED
    BY <1>4, <1>5, <2>1, <2>3 DEF NamesIn, Entries, ws
<1>7. CASE ~NoCombining /\ msg'.via = <<<<e>>>>
  <2> DEFINE line == <<e>>
  <2>1. line \in Seq(ViaEntries) /\ Range(line) = {e}
    BY <1>3 DEF Range
  <2>2. msg'.via = <<line>>
    BY <1>7
  <2> HIDE DEF line
  <2>3. FirstVia(msg') = line /\ FlattenSeq(msg'.via) = line
    BY <1>1, <2>1, <2>2, OneLine
  <2> QED
    BY <1>4, <1>7, <2>1, <2>3 DEF NamesIn, Entries
<1> QED
  BY <1>3, <1>6, <1>7

\* Once it has been forwarded, a request no longer lists Via.
LEMMA ViaStays ==
  ASSUME TypeOK, ListingInv, answer = "none", Relays # {}
  PROVE  "via" \notin Strips(msg) /\ \A ws \in BOOLEAN : "via" \notin LayerStrips(msg, ws)
<1>1. msg.conn \in {<<>>, <<{"upgrade"}>>}
  BY DEF ListingInv
<1>2. "via" \notin Nominated(msg) /\ "via" \notin Listed(msg)
  BY <1>1, ListingOf
<1> QED
  BY <1>2 DEF Strips, LayerStrips, HopByHop

LEMMA MarkedStep ==
  NoCombining /\ TypeOK /\ PhaseInv /\ ListingInv /\ MarkedInv /\ [Next]_vars => MarkedInv'
<1> SUFFICES ASSUME NoCombining, TypeOK, PhaseInv, ListingInv, MarkedInv, [Next]_vars, answer' = "none"
             PROVE  MarkedInv'
  BY DEF MarkedInv
<1>0. answer = "none" /\ client' = client
  BY RequestSteps
<1>a. ASSUME NEW i \in Relays, ~Excused(i)
      PROVE  /\ Config[path[i].proxy].layer => LayerName(path[i].proxy) \in NamesIn(msg)
             /\ Config[path[i].proxy].via # None => Config[path[i].proxy].via \in NamesIn(msg)
  BY <1>0, <1>a DEF MarkedInv
<1>1. CASE LayerPasses
  <2>1. /\ stage' = "core" /\ here'.proxy = here.proxy /\ Config[here.proxy].layer
        /\ Relays' = Relays /\ (\A i \in Relays : path'[i] = path[i])
        /\ Preserves(msg) \in BOOLEAN
    BY <1>1, LayerPassesOn
  <2>2. /\ LayerName(here.proxy) \in NamesIn(msg')
        /\ "via" \notin LayerStrips(msg, Preserves(msg)) => NamesIn(msg) \subseteq NamesIn(msg')
    BY <1>1, LayerNames
  <2>3. \A i \in Relays : Excused(i)' <=> Excused(i)
    BY <1>0, <2>1 DEF Excused
  <2>4. ASSUME NEW i \in Relays', ~Excused(i)'
        PROVE  /\ Config[path'[i].proxy].layer => LayerName(path'[i].proxy) \in NamesIn(msg')
               /\ Config[path'[i].proxy].via # None => Config[path'[i].proxy].via \in NamesIn(msg')
    <3>1. i \in Relays /\ ~Excused(i) /\ path'[i] = path[i]
      BY <2>1, <2>3, <2>4
    <3>2. NamesIn(msg) \subseteq NamesIn(msg')
      BY <1>0, <2>1, <2>2, <3>1, ViaStays
    <3> QED
      BY <1>a, <3>1, <3>2
  <2>5. ASSUME NEW i \in Relays', path'[i].proxy = here'.proxy
        PROVE  Excused(i)'
    <3>1. i \in Relays /\ path[i].proxy = here.proxy
      BY <2>1, <2>5
    <3>2. LayerName(here.proxy) \notin NamesIn(msg)
      BY <1>1 DEF LayerPasses, LayerLoop, NamesIn
    <3> QED
      BY <1>a, <2>1, <2>3, <3>1, <3>2
  <2> QED
    BY <2>1, <2>2, <2>4, <2>5 DEF MarkedInv
<1>2. CASE CoreForwards
  <2> DEFINE k == Len(path)
  <2>1. /\ k \in DOMAIN path /\ here = path[k] /\ Relays' = Relays \cup {k} /\ Relays = 1..(k - 1)
        /\ Relays \subseteq DOMAIN path
        /\ (\A i \in DOMAIN path : path'[i] = path[i])
        /\ k \in Nat \ {0} /\ stage = "core"
    BY <1>2, PathForwarded DEF CoreForwards
  <2>2. /\ "via" \notin Strips(msg) => NamesIn(msg) \subseteq NamesIn(msg')
        /\ Config[here.proxy].via # None => Config[here.proxy].via \in NamesIn(msg')
    BY <1>2, ForwardedNames
  <2> HIDE DEF k
  <2>3. ASSUME NEW i \in Relays', ~Excused(i)'
        PROVE  /\ Config[path'[i].proxy].layer => LayerName(path'[i].proxy) \in NamesIn(msg')
               /\ Config[path'[i].proxy].via # None => Config[path'[i].proxy].via \in NamesIn(msg')
    <3>0. i \in DOMAIN path /\ path'[i] = path[i]
      BY <2>1
    <3>1. ~Excused(i)
      BY <1>0, <2>3, <3>0 DEF Excused
    <3>2. CASE i \in Relays
      <4>1. NamesIn(msg) \subseteq NamesIn(msg')
        BY <1>0, <2>2, <3>2, ViaStays
      <4> QED
        BY <1>a, <3>0, <3>1, <3>2, <4>1
    <3>3. CASE i = k
      <4>1. path'[i] = here
        BY <2>1, <3>0, <3>3
      <4>2. ASSUME Config[here.proxy].layer PROVE LayerName(here.proxy) \in NamesIn(msg')
        <5>1. LayerName(here.proxy) \in NamesIn(msg)
          BY <1>0, <2>1, <4>2 DEF MarkedInv
        <5>2. "via" \notin Strips(msg)
          <6> SUFFICES ASSUME "via" \in Strips(msg) PROVE FALSE
            OBVIOUS
          <6>1. "via" \in Nominated(msg)
            BY DEF Strips, HopByHop
          <6>2. Relays = {}
            BY <1>0, ViaStays
          <6>3. k = 1
            BY <2>1, <6>2
          <6>4. msg.conn = IF here.ws THEN client.conn ELSE <<>>
            BY <1>0, <2>1, <4>2, <6>2 DEF ListingInv
          <6>5. here.ws /\ msg.conn = client.conn
            BY <6>1, <6>4, ListingOf
          <6>6. "via" \in Nominated(client)
            BY <6>1, <6>5 DEF Nominated
          <6> QED
            BY <2>1, <3>1, <3>3, <6>3, <6>5, <6>6 DEF Excused
        <5> QED
          BY <2>2, <5>1, <5>2
      <4> QED
        BY <2>2, <4>1, <4>2
    <3> QED
      BY <2>1, <3>2, <3>3
  <2>4. ~(stage' = "core" /\ Config[here'.proxy].layer)
    <3> SUFFICES ASSUME stage' = "core" PROVE ~Config[here'.proxy].layer
      OBVIOUS
    <3>1. stage' = Entry(path'[Len(path')].proxy)
      BY <1>2, PathForwarded
    <3>2. here' = path'[Len(path')]
      BY DEF here, Last
    <3> QED
      BY <3>1, <3>2 DEF Entry
  <2> QED
    BY <2>3, <2>4 DEF MarkedInv
<1>3. CASE UNCHANGED vars
  <2>1. /\ path' = path /\ stage' = stage /\ msg' = msg /\ answer' = answer /\ client' = client
        /\ Relays' = Relays /\ here' = here
    BY <1>3 DEF vars, Relays, here
  <2>2. \A i \in Relays : Excused(i)' <=> Excused(i)
    BY <2>1 DEF Excused
  <2> QED
    BY <1>0, <2>1, <2>2 DEF MarkedInv
<1> QED
  BY <1>1, <1>2, <1>3, RequestSteps

\* Only forwarding makes a hop one of those that have forwarded the request.
LEMMA RelaysShrink ==
  ASSUME TypeOK, PhaseInv, [Next]_vars, ~CoreForwards
  PROVE  /\ client' = client /\ Relays' \subseteq Relays
         /\ \A i \in Relays' : path'[i] = path[i]
<1>1. CASE LayerPasses
  <2>1. Relays' = Relays /\ \A i \in Relays : path'[i] = path[i]
    BY <1>1, LayerPassesOn
  <2> QED
    BY <1>1, <2>1 DEF LayerPasses
<1>2. ASSUME path' = path, stage' = stage \/ stage' # "origin", client' = client
      PROVE  /\ client' = client /\ Relays' \subseteq Relays
             /\ \A i \in Relays' : path'[i] = path[i]
  BY <1>2 DEF Relays
<1>3. ASSUME path # <<>>, path' = Popped(path), stage' = BackTo(path'), client' = client
      PROVE  /\ client' = client /\ Relays' \subseteq Relays
             /\ \A i \in Relays' : path'[i] = path[i]
  <2>1. /\ DOMAIN path' \subseteq DOMAIN path
        /\ \A i \in DOMAIN path' : path'[i] = path[i]
    BY <1>3, HopsLeft
  <2>2. Len(path) \in Nat \ {0} /\ DOMAIN path = 1..Len(path) /\ Len(path') = Len(path) - 1
    BY <1>3, HereIsLast, PathPops
  <2>3. stage' # "origin"
    BY <1>3 DEF BackTo
  <2>4. \A i \in DOMAIN path' : i < Len(path') => i < Len(path)
    BY <2>1, <2>2
  <2> QED
    BY <1>3, <2>1, <2>3, <2>4 DEF Relays
<1>4. CASE LayerLoops \/ LayerAnswers \/ LayerReturns
  BY <1>3, <1>4 DEF LayerLoops, LayerAnswers, LayerReturns, Answer, TypeOK
<1>5. CASE CoreLoops \/ OriginAnswers \/ CoreReturns
  BY <1>2, <1>5 DEF CoreLoops, OriginAnswers, CoreReturns, Answer
<1>6. CASE UNCHANGED vars
  BY <1>2, <1>6 DEF vars
<1> QED
  BY <1>1, <1>4, <1>5, <1>6 DEF Next

LEMMA NoticedStep ==
  TypeOK /\ PhaseInv /\ MarkedInv /\ LoopNoticed /\ [Next]_vars => LoopNoticed'
<1> SUFFICES ASSUME TypeOK, PhaseInv, MarkedInv, LoopNoticed, [Next]_vars,
                    NEW i \in Relays', NEW j \in Relays', i < j, path'[i].proxy = path'[j].proxy,
                    Named(path'[i].proxy)
             PROVE  i = 1 /\ path'[i].ws /\ "via" \in Nominated(client')
  BY DEF LoopNoticed
<1>1. CASE CoreForwards
  <2> DEFINE k == Len(path)
  <2>1. /\ here = path[k] /\ Relays' = Relays \cup {k} /\ Relays = 1..(k - 1)
        /\ Relays' \subseteq DOMAIN path
        /\ (\A x \in DOMAIN path : path'[x] = path[x]) /\ msg \in Messages
        /\ k \in Nat \ {0} /\ stage = "core" /\ client' = client /\ answer = "none"
    BY <1>1, PathForwarded DEF CoreForwards, PhaseInv
  <2> HIDE DEF k
  <2>2. i \in Relays /\ path'[i] = path[i] /\ path'[j] = path[j]
    BY <2>1
  <2>3. CASE j \in Relays
    BY <2>1, <2>2, <2>3 DEF LoopNoticed
  <2>4. CASE j = k
    <3> SUFFICES ASSUME ~Excused(i) PROVE FALSE
      BY <2>1, <2>2 DEF Excused
    <3>1. path[i].proxy = here.proxy
      BY <2>1, <2>2, <2>4
    <3>2. ~Config[here.proxy].layer
      BY <2>1, <2>2, <3>1 DEF MarkedInv
    <3>3. Config[here.proxy].via # None
      BY <2>2, <3>1, <3>2 DEF Named
    <3>4. Config[here.proxy].via \in NamesIn(msg)
      BY <2>1, <2>2, <3>1, <3>3 DEF MarkedInv
    <3>5. Config[here.proxy].via \in Entries(msg)
      BY <2>1, <3>4, FirstAmongAll
    <3>6. CoreLoop(msg)
      BY <3>3, <3>5 DEF Entries, CoreLoop
    <3> QED
      BY <1>1, <3>6 DEF CoreForwards
  <2> QED
    BY <2>1, <2>3, <2>4
<1>2. CASE ~CoreForwards
  <2>1. i \in Relays /\ j \in Relays /\ path'[i] = path[i] /\ path'[j] = path[j] /\ client' = client
    BY <1>2, RelaysShrink
  <2> QED
    BY <2>1 DEF LoopNoticed
<1> QED
  BY <1>1, <1>2

\* Loop detection in chains of any length: no proxy that names itself forwards a request a
\* second time, with the one exception that LoopNoticed states, provided that no layer with
\* a pseudonym has combine_via, with which others' names are lost.
THEOREM LoopTheorem == NoCombining => (Spec => []LoopNoticed)
<1> SUFFICES ASSUME NoCombining PROVE Spec => []LoopNoticed
  OBVIOUS
<1> DEFINE IInv == TypeOK /\ PhaseInv /\ ListingInv /\ MarkedInv /\ LoopNoticed
<1>1. Init => IInv
  <2> SUFFICES ASSUME Init PROVE IInv
    OBVIOUS
  <2>1. TypeOK /\ PhaseInv /\ Relays = {} /\ stage = Entry(here.proxy)
    BY FirstHop
  <2>2. MarkedInv /\ LoopNoticed
    BY <2>1 DEF MarkedInv, LoopNoticed, Entry
  <2> QED
    BY <2>1, <2>2, ListingInit
<1>2. IInv /\ [Next]_vars => IInv'
  BY TypeStep, PhaseStep, ListingStep, MarkedStep, NoticedStep
<1>3. IInv => LoopNoticed
  OBVIOUS
<1> QED
  BY <1>1, <1>2, <1>3, PTL DEF Spec

LEMMA TrueNamesStep == TypeOK /\ PhaseInv /\ TrueNamesInv /\ [Next]_vars => TrueNamesInv'
<1> SUFFICES ASSUME TypeOK, PhaseInv, TrueNamesInv, [Next]_vars, answer' = "none"
             PROVE  TrueNamesInv'
  BY DEF TrueNamesInv
<1>0. answer = "none" /\ client' = client
  BY RequestSteps
<1>a. Entries(msg) \subseteq Entries(client) \cup Before
        \cup (IF stage = "core" /\ Config[here.proxy].layer THEN {LayerName(here.proxy)} ELSE {})
  BY <1>0 DEF TrueNamesInv
<1>1. CASE LayerPasses
  <2>1. /\ stage = "layer" /\ stage' = "core" /\ here'.proxy = here.proxy /\ Config[here.proxy].layer
        /\ Relays' = Relays /\ (\A i \in Relays : path'[i] = path[i])
    BY <1>1, LayerPassesOn
  <2>2. Entries(msg') \subseteq NamesIn(msg) \cup {LayerName(here.proxy)}
    BY <1>1, LayerNames
  <2>3. NamesIn(msg) \subseteq Entries(msg)
    BY FirstAmongAll DEF TypeOK
  <2>4. Entries(msg) \subseteq Entries(client) \cup Before
    BY <1>a, <2>1
  <2>5. Before' = Before
    BY <2>1 DEF Before
  <2>6. Entries(msg') \subseteq Entries(client') \cup Before' \cup {LayerName(here'.proxy)}
    BY <1>0, <2>1, <2>2, <2>3, <2>4, <2>5
  <2> QED
    BY <2>1, <2>6 DEF TrueNamesInv
<1>2. CASE CoreForwards
  <2> DEFINE k == Len(path)
             own == Config[here.proxy].via
  <2>1. /\ k \in DOMAIN path /\ here = path[k] /\ Relays' = Relays \cup {k}
        /\ Relays \subseteq DOMAIN path
        /\ (\A i \in DOMAIN path : path'[i] = path[i]) /\ stage = "core"
    BY <1>2, PathForwarded DEF CoreForwards
  <2>2. Entries(msg') \subseteq Entries(msg) \cup ({own} \ {None})
    BY <1>2, ForwardedNames
  <2> HIDE DEF k
  <2>3. Before' = Before \cup BorneBy(here.proxy)
    <3>1. \A i \in Relays' : path'[i] = path[i]
      BY <2>1
    <3>2. Before' = UNION {BorneBy(path[i].proxy) : i \in Relays \cup {k}}
      BY <2>1, <3>1 DEF Before
    <3> QED
      BY <2>1, <3>2 DEF Before
  <2>4. {own} \ {None} \subseteq BorneBy(here.proxy)
        /\ (Config[here.proxy].layer => LayerName(here.proxy) \in BorneBy(here.proxy))
    BY DEF BorneBy
  <2> HIDE DEF own
  <2>5. Entries(msg') \subseteq Entries(client') \cup Before'
    BY <1>0, <1>a, <2>2, <2>3, <2>4
  <2> QED
    BY <2>5 DEF TrueNamesInv
<1>3. CASE UNCHANGED vars
  <2>1. /\ path' = path /\ stage' = stage /\ msg' = msg /\ client' = client
        /\ Before' = Before /\ here' = here
    BY <1>3 DEF vars, Relays, here, Before
  <2> QED
    BY <1>a, <2>1 DEF TrueNamesInv
<1> QED
  BY <1>1, <1>2, <1>3, RequestSteps

\* A name in Via that is a proxy's own is there because the request has been through it, or
\* because the client put it there.
LEMMA NameIsTrue ==
  ASSUME DistinctNames, TypeOK, TrueNamesInv, answer = "none", path # <<>>,
         NEW name, name \in Entries(msg),
         \/ stage = "layer" /\ Config[here.proxy].layer /\ name = LayerName(here.proxy)
         \/ Config[here.proxy].via # None /\ name = Config[here.proxy].via
  PROVE  name \in Entries(client) \/ \E i \in Relays : path[i].proxy = here.proxy
<1>1. here.proxy \in Proxies /\ path \in Seq(Hops)
  BY HereIsLast
<1>2. name \in BorneBy(here.proxy)
  BY DEF BorneBy
<1>3. ~(stage = "core" /\ Config[here.proxy].layer /\ name = LayerName(here.proxy))
  BY <1>1 DEF DistinctNames
<1>4. \/ name \in Entries(client)
      \/ \E i \in Relays : name \in BorneBy(path[i].proxy)
  BY <1>3 DEF TrueNamesInv, Before
<1>5. ASSUME NEW i \in Relays, name \in BorneBy(path[i].proxy)
      PROVE  path[i].proxy = here.proxy
  <2>1. i \in DOMAIN path
    BY <1>5, RelaysAre
  <2>2. path[i] \in Hops
    BY <1>1, <2>1
  <2>3. path[i].proxy \in Proxies
    BY <2>2 DEF Hops
  <2> QED
    BY <1>1, <1>2, <1>5, <2>3 DEF DistinctNames
<1> QED
  BY <1>4, <1>5

\* Loop detection never answers 508 to a request that has not been there, in chains of any
\* length: provided that the proxies have names of their own, the one of a proxy's layer
\* differing from the one that its core writes.
THEOREM AlarmTheorem == DistinctNames => (Spec => NoFalseAlarm)
<1> SUFFICES ASSUME DistinctNames PROVE Spec => NoFalseAlarm
  OBVIOUS
<1> DEFINE IInv == TypeOK /\ PhaseInv /\ TrueNamesInv
           Looped == \E i \in Relays : path[i].proxy = here.proxy
           Claimed == \E e \in Range(FlattenSeq(client.via)) :
                        e.name \in {Config[here.proxy].via, LayerName(here.proxy)}
           Alarm == answer = "none" /\ answer' = "loop" => Looped \/ Claimed
<1>1. Init => IInv
  <2> SUFFICES ASSUME Init PROVE IInv
    OBVIOUS
  <2>1. TypeOK /\ PhaseInv /\ msg = client
    BY FirstHop
  <2> QED
    BY <2>1 DEF TrueNamesInv
<1>2. IInv /\ [Next]_vars => IInv'
  BY TypeStep, PhaseStep, TrueNamesStep
<1>3. IInv /\ [Next]_vars => [Alarm]_vars
  <2> SUFFICES ASSUME IInv, Next, answer = "none", answer' = "loop" PROVE Looped \/ Claimed
    OBVIOUS
  <2>1. path # <<>> /\ msg \in Messages
    BY DEF TypeOK, PhaseInv
  <2>2. NamesIn(msg) \subseteq Entries(msg)
    BY <2>1, FirstAmongAll
  <2>3. CASE LayerLoops
    <3>1. /\ stage = "layer" /\ Config[here.proxy].layer
          /\ LayerName(here.proxy) \in NamesIn(msg)
      BY <2>3 DEF LayerLoops, LayerLoop, NamesIn, PhaseInv
    <3>2. LayerName(here.proxy) \in Entries(client) \/ Looped
      BY <2>1, <2>2, <3>1, NameIsTrue
    <3> QED
      BY <3>2 DEF Entries
  <2>4. CASE CoreLoops
    <3>1. Config[here.proxy].via # None /\ Config[here.proxy].via \in Entries(msg)
      BY <2>4 DEF CoreLoops, CoreLoop, Entries
    <3>2. Config[here.proxy].via \in Entries(client) \/ Looped
      BY <2>1, <3>1, NameIsTrue
    <3> QED
      BY <3>2 DEF Entries
  <2>5. LayerLoops \/ CoreLoops
    BY DEF Next, LayerAnswers, LayerPasses, CoreForwards, OriginAnswers, CoreReturns, LayerReturns,
           Answer
  <2> QED
    BY <2>3, <2>4, <2>5
<1> QED
  BY <1>1, <1>2, <1>3, PTL DEF Spec, NoFalseAlarm
================================================================================
