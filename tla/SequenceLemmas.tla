----------------------------- MODULE SequenceLemmas ----------------------------
(***************************************************************************)
(* Induction with a set for the property, and with it what Filter and Total *)
(* return, for sequences of any length: bodies of frames (Retry), lists of  *)
(* endpoints (DiscoverableBalancer).  FlattenSeq and parts of sequences:    *)
(* header lines (ProxyChain), paths (Routing).                              *)
(***************************************************************************)
EXTENDS SequenceFolds, SequencesExt, SequenceTheorems, WellFoundedInduction, TLAPS

\* Every set of naturals with a member has a least one.
LEMMA LeastOf ==
  ASSUME NEW T \in SUBSET Nat, T # {}
  PROVE  \E x \in T : \A y \in T : x <= y
<1> DEFINE R == OpToRel(<, Nat)
<1>1. IsWellFoundedOn(R, Nat)
  BY NatLessThanWellFounded
<1>2. \A x, y \in Nat : <<y, x>> \in R <=> y < x
  BY DEF OpToRel
<1> HIDE DEF R
<1>3. PICK x \in T : \A y \in T : ~ (<<y, x>> \in R)
  BY <1>1, WFMin
<1>4. \A y \in T : ~ (y < x)
  BY <1>2, <1>3
<1> QED
  BY <1>4

\* Induction, with a set for the property.
LEMMA InductionOnNat ==
  ASSUME NEW P, 0 \in P, \A n \in Nat : n \in P => n + 1 \in P
  PROVE  Nat \subseteq P
<1> SUFFICES ASSUME Nat \ P # {} PROVE FALSE
  OBVIOUS
<1>1. PICK x \in Nat \ P : \A y \in Nat \ P : x <= y
  BY LeastOf
<1>2. x # 0 /\ x \in Nat
  BY <1>1
<1>3. x - 1 \in Nat /\ x - 1 \in P
  BY <1>1, <1>2
<1> QED
  BY <1>1, <1>2, <1>3

\* The same for sequences that grow at their end.
LEMMA InductionOnSeq ==
  ASSUME NEW T, NEW P, <<>> \in P,
         \A s \in Seq(T), x \in T : s \in P => Append(s, x) \in P
  PROVE  Seq(T) \subseteq P
<1> DEFINE Q == {n \in Nat : \A s \in Seq(T) : Len(s) = n => s \in P}
<1>1. 0 \in Q
  BY EmptySeq
<1>2. ASSUME NEW n \in Nat, n \in Q PROVE n + 1 \in Q
  <2> SUFFICES ASSUME NEW s \in Seq(T), Len(s) = n + 1 PROVE s \in P
    OBVIOUS
  <2>1. s # <<>>
    OBVIOUS
  <2> DEFINE front == SubSeq(s, 1, Len(s) - 1)
  <2>2. front \in Seq(T) /\ s[Len(s)] \in T /\ s = Append(front, s[Len(s)])
    BY <2>1, SequenceEmptyOrAppend DEF front
  <2>3. Len(front) = n
    BY <2>2
  <2> QED
    BY <1>2, <2>2, <2>3
<1> HIDE DEF Q
<1>3. Nat \subseteq Q
  BY <1>1, <1>2, InductionOnNat
<1> QED
  BY <1>3 DEF Q

\* f starts at base and takes the steps of `step`.
Recurs(f, n, base, step) == f[0] = base /\ \A i \in 1..n : f[i] = step[<<i, f[i - 1]>>]

\* A step function and a start determine a function on the prefixes of a sequence.
LEMMA RecursionOnPrefixes ==
  ASSUME NEW V, NEW n \in Nat, NEW base \in V, NEW step \in [(1..n) \X V -> V]
  PROVE  \E f \in [0..n -> V] : Recurs(f, n, base, step)
<1> DEFINE Upto(k) == \E f \in [0..k -> V] : f[0] = base /\ \A i \in 1..k : f[i] = step[<<i, f[i - 1]>>]
           P == {k \in Nat : k <= n => Upto(k)}
<1>1. 0 \in P
  <2> DEFINE g == [i \in 0..0 |-> base]
  <2>1. g \in [0..0 -> V] /\ g[0] = base
    OBVIOUS
  <2> HIDE DEF g
  <2>2. \A i \in 1..0 : g[i] = step[<<i, g[i - 1]>>]
    OBVIOUS
  <2>3. Upto(0)
    BY <2>1, <2>2
  <2> QED
    BY <2>3
<1>2. ASSUME NEW k \in Nat, k \in P PROVE k + 1 \in P
  <2> SUFFICES ASSUME k + 1 <= n PROVE Upto(k + 1)
    OBVIOUS
  <2>1. PICK f \in [0..k -> V] : f[0] = base /\ \A i \in 1..k : f[i] = step[<<i, f[i - 1]>>]
    BY <1>2
  <2> DEFINE g == [i \in 0..k + 1 |-> IF i = k + 1 THEN step[<<k + 1, f[k]>>] ELSE f[i]]
  <2>2. <<k + 1, f[k]>> \in (1..n) \X V
    OBVIOUS
  <2>3. g \in [0..k + 1 -> V]
    BY <2>2
  <2>4. \A i \in 0..k : g[i] = f[i]
    OBVIOUS
  <2>7. g[k + 1] = step[<<k + 1, f[k]>>]
    OBVIOUS
  <2> HIDE DEF g
  <2>5. ASSUME NEW i \in 1..k + 1 PROVE g[i] = step[<<i, g[i - 1]>>]
    <3>1. CASE i = k + 1
      BY <3>1, <2>4, <2>7
    <3>2. CASE i # k + 1
      <4>1. i \in 1..k /\ i - 1 \in 0..k /\ i \in 0..k
        BY <3>2
      <4> QED
        BY <4>1, <2>1, <2>4
    <3> QED
      BY <3>1, <3>2
  <2>6. g[0] = base
    BY <2>1, <2>4
  <2> QED
    BY <2>3, <2>5, <2>6
<1> HIDE DEF P
<1>3. n \in P
  BY <1>1, <1>2, InductionOnNat
<1> QED
  BY <1>3 DEF P, Recurs

\* f and g agree at the start and stay in step.
SameSteps(f, g, n) == f[0] = g[0] /\ \A i \in 1..n : f[i - 1] = g[i - 1] => f[i] = g[i]

\* Two functions that agree at the start and take the same steps are the same.
LEMMA Unfolding ==
  ASSUME NEW n \in Nat, NEW f, NEW g, SameSteps(f, g, n)
  PROVE  \A i \in 0..n : f[i] = g[i]
<1> USE DEF SameSteps
<1> DEFINE P == {k \in Nat : k <= n => f[k] = g[k]}
<1>1. 0 \in P
  OBVIOUS
<1>2. ASSUME NEW k \in Nat, k \in P PROVE k + 1 \in P
  <2> SUFFICES ASSUME k + 1 <= n PROVE f[k + 1] = g[k + 1]
    OBVIOUS
  <2>1. k + 1 \in 1..n /\ (k + 1) - 1 = k /\ f[k] = g[k]
    BY <1>2
  <2> QED
    BY <2>1
<1> HIDE DEF P
<1>3. Nat \subseteq P
  BY <1>1, <1>2, InductionOnNat
<1> QED
  BY <1>3 DEF P

--------------------------------------------------------------------------------
(* Filter *)

FilterUpTo(s, S) ==
  CHOOSE f : f = [n \in 0..Len(s) |-> IF n = 0 THEN <<>>
                                      ELSE IF s[n] \in S THEN Append(f[n - 1], s[n]) ELSE f[n - 1]]

\* Filter is what its recursion says, prefix by prefix.
LEMMA FilterUnfolds ==
  ASSUME NEW T, NEW s \in Seq(T), NEW S
  PROVE  /\ Filter(s, S) = FilterUpTo(s, S)[Len(s)]
         /\ FilterUpTo(s, S) \in [0..Len(s) -> Seq(T)]
         /\ FilterUpTo(s, S)[0] = <<>>
         /\ \A n \in 1..Len(s) :
              FilterUpTo(s, S)[n] = IF s[n] \in S THEN Append(FilterUpTo(s, S)[n - 1], s[n])
                                    ELSE FilterUpTo(s, S)[n - 1]
<1> DEFINE step == [p \in (1..Len(s)) \X Seq(T) |->
                      IF s[p[1]] \in S THEN Append(p[2], s[p[1]]) ELSE p[2]]
           Def(f) == [n \in 0..Len(s) |-> IF n = 0 THEN <<>>
                        ELSE IF s[n] \in S THEN Append(f[n - 1], s[n]) ELSE f[n - 1]]
           h == FilterUpTo(s, S)
<1>1. step \in [(1..Len(s)) \X Seq(T) -> Seq(T)]
  OBVIOUS
<1>2. \A i \in 1..Len(s), v \in Seq(T) :
        step[<<i, v>>] = IF s[i] \in S THEN Append(v, s[i]) ELSE v
  OBVIOUS
<1> HIDE DEF step
<1>3. PICK f \in [0..Len(s) -> Seq(T)] :
        f[0] = <<>> /\ \A i \in 1..Len(s) : f[i] = step[<<i, f[i - 1]>>]
  <2> DEFINE len == Len(s)
             V == Seq(T)
             empty == <<>>
  <2>1. len \in Nat /\ empty \in V /\ step \in [(1..len) \X V -> V]
    BY <1>1
  <2> HIDE DEF len, V, empty
  <2>2. \E f \in [0..len -> V] : Recurs(f, len, empty, step)
    BY ONLY <2>1, RecursionOnPrefixes
  <2> QED
    BY <2>2 DEF len, V, empty, Recurs
<1>4. \A i \in 1..Len(s) : f[i] = IF s[i] \in S THEN Append(f[i - 1], s[i]) ELSE f[i - 1]
  <2> SUFFICES ASSUME NEW i \in 1..Len(s)
               PROVE  f[i] = IF s[i] \in S THEN Append(f[i - 1], s[i]) ELSE f[i - 1]
    OBVIOUS
  <2>1. i - 1 \in 0..Len(s) /\ f[i - 1] \in Seq(T)
    OBVIOUS
  <2> QED
    BY <1>2, <1>3, <2>1
<1>5. f = Def(f)
  <2>1. f[0] = Def(f)[0]
    BY <1>3
  <2>2. \A n \in 1..Len(s) : f[n] = Def(f)[n]
    BY <1>4
  <2>3. \A n \in 0..Len(s) : f[n] = Def(f)[n]
    <3>1. \A n \in 0..Len(s) : n = 0 \/ n \in 1..Len(s)
      OBVIOUS
    <3> QED
      BY <2>1, <2>2, <3>1
  <2> QED
    BY <2>3
<1>6. h = Def(h)
  BY <1>5 DEF FilterUpTo
<1> HIDE DEF h
<1>7. h[0] = <<>> /\ \A i \in 1..Len(s) : h[i] = IF s[i] \in S THEN Append(h[i - 1], s[i]) ELSE h[i - 1]
  <2>1. \A n \in 0..Len(s) : h[n] = Def(h)[n]
    BY <1>6
  <2> QED
    BY <2>1
<1>8. \A i \in 0..Len(s) : h[i] = f[i]
  <2>1. \A i \in 1..Len(s) : h[i - 1] = f[i - 1] => h[i] = f[i]
    BY <1>4, <1>7
  <2>2. h[0] = f[0]
    BY <1>3, <1>7
  <2>3. SameSteps(h, f, Len(s))
    BY <2>1, <2>2 DEF SameSteps
  <2>4. Len(s) \in Nat
    OBVIOUS
  <2> QED
    BY ONLY <2>3, <2>4, Unfolding
<1>9. h \in [0..Len(s) -> Seq(T)]
  <2>1. DOMAIN h = 0..Len(s) /\ h = [n \in 0..Len(s) |-> h[n]]
    BY <1>6
  <2> QED
    BY <1>8, <2>1
<1>10. Filter(s, S) = h[Len(s)]
  BY DEF Filter, FilterUpTo, h
<1> QED
  BY <1>7, <1>9, <1>10 DEF h

\* The result is a sequence of elements of the same set.
LEMMA FilterType ==
  ASSUME NEW T, NEW s \in Seq(T), NEW S
  PROVE  Filter(s, S) \in Seq(T)
<1>1. Len(s) \in 0..Len(s)
  OBVIOUS
<1>2. Filter(s, S) = FilterUpTo(s, S)[Len(s)] /\ FilterUpTo(s, S) \in [0..Len(s) -> Seq(T)]
  BY FilterUnfolds
<1> QED
  BY ONLY <1>1, <1>2

\* Nothing is left of the empty sequence.
LEMMA FilterEmpty == \A S : Filter(<<>>, S) = <<>>
<1> SUFFICES ASSUME NEW S PROVE Filter(<<>>, S) = <<>>
  OBVIOUS
<1> DEFINE empty == <<>>
           T == {}
<1>0. empty \in Seq(T)
  OBVIOUS
<1>1. Len(empty) = 0
  OBVIOUS
<1> HIDE DEF empty, T
<1>2. Filter(empty, S) = FilterUpTo(empty, S)[Len(empty)] /\ FilterUpTo(empty, S)[0] = <<>>
  BY ONLY <1>0, FilterUnfolds
<1> QED
  BY <1>1, <1>2 DEF empty

\* Filter looks at one element after the other.
LEMMA FilterAppend ==
  ASSUME NEW T, NEW s \in Seq(T), NEW x \in T, NEW S
  PROVE  Filter(Append(s, x), S) = IF x \in S THEN Append(Filter(s, S), x) ELSE Filter(s, S)
<1> DEFINE t == Append(s, x)
           f == FilterUpTo(s, S)
           g == FilterUpTo(t, S)
<1>1. t \in Seq(T) /\ Len(t) = Len(s) + 1 /\ t[Len(s) + 1] = x /\ \A i \in 1..Len(s) : t[i] = s[i]
  OBVIOUS
<1>2. Len(s) \in Nat
  OBVIOUS
<1> HIDE DEF t
<1>3. /\ Filter(s, S) = f[Len(s)]
      /\ f \in [0..Len(s) -> Seq(T)]
      /\ f[0] = <<>>
      /\ \A n \in 1..Len(s) : f[n] = IF s[n] \in S THEN Append(f[n - 1], s[n]) ELSE f[n - 1]
  BY FilterUnfolds
<1>4. /\ Filter(t, S) = g[Len(s) + 1]
      /\ g[0] = <<>>
      /\ \A n \in 1..Len(s) + 1 : g[n] = IF t[n] \in S THEN Append(g[n - 1], t[n]) ELSE g[n - 1]
  BY <1>1, FilterUnfolds
<1> HIDE DEF f, g
<1>5. \A i \in 0..Len(s) : g[i] = f[i]
  <2>1. \A n \in 1..Len(s) : g[n - 1] = f[n - 1] => g[n] = f[n]
    BY <1>1, <1>2, <1>3, <1>4
  <2>2. g[0] = f[0]
    BY <1>3, <1>4
  <2>3. SameSteps(g, f, Len(s))
    BY <2>1, <2>2 DEF SameSteps
  <2> QED
    BY ONLY <1>2, <2>3, Unfolding
<1>6. g[Len(s) + 1] = IF x \in S THEN Append(g[Len(s)], x) ELSE g[Len(s)]
  <2>1. Len(s) + 1 \in 1..Len(s) + 1 /\ (Len(s) + 1) - 1 = Len(s)
    BY <1>2
  <2> QED
    BY <1>1, <1>4, <2>1
<1>7. g[Len(s)] = f[Len(s)] /\ f[Len(s)] \in Seq(T)
  BY <1>2, <1>3, <1>5
<1> QED
  BY <1>3, <1>4, <1>6, <1>7 DEF t

\* Only elements of the set are left ...
LEMMA FilterIn ==
  ASSUME NEW T, NEW s \in Seq(T), NEW S
  PROVE  Filter(s, S) \in Seq(T \cap S)
<1> DEFINE P == {q \in Seq(T) : Filter(q, S) \in Seq(T \cap S)}
<1>1. <<>> \in P
  <2>1. Filter(<<>>, S) = <<>>
    BY FilterEmpty
  <2>2. <<>> \in Seq(T) /\ <<>> \in Seq(T \cap S)
    OBVIOUS
  <2>3. Filter(<<>>, S) \in Seq(T \cap S)
    BY <2>1, <2>2
  <2> QED
    BY <2>2, <2>3
<1>2. ASSUME NEW q \in Seq(T), NEW x \in T, q \in P PROVE Append(q, x) \in P
  <2>1. Filter(Append(q, x), S) = IF x \in S THEN Append(Filter(q, S), x) ELSE Filter(q, S)
    BY ONLY q \in Seq(T), x \in T, FilterAppend
  <2>2. Filter(Append(q, x), S) \in Seq(T \cap S)
    BY <1>2, <2>1
  <2>3. Append(q, x) \in Seq(T)
    OBVIOUS
  <2> QED
    BY <2>2, <2>3
<1> HIDE DEF P
<1>3. Seq(T) \subseteq P
  BY ONLY <1>1, <1>2, InductionOnSeq
<1> QED
  BY <1>3 DEF P

\* ... and all of them.
LEMMA FilterKeeps ==
  ASSUME NEW T, NEW s \in Seq(T), NEW S
  PROVE  \A i \in DOMAIN s : s[i] \in S => \E j \in DOMAIN Filter(s, S) : Filter(s, S)[j] = s[i]
<1> DEFINE Kept(q) ==
             \A i \in DOMAIN q : q[i] \in S => \E j \in DOMAIN Filter(q, S) : Filter(q, S)[j] = q[i]
           P == {q \in Seq(T) : Kept(q)}
<1>1. <<>> \in P
  OBVIOUS
<1>2. ASSUME NEW q \in Seq(T), NEW x \in T, q \in P PROVE Append(q, x) \in P
  <2> DEFINE f == Filter(q, S)
             g == Filter(Append(q, x), S)
  <2>0. f \in Seq(T)
    BY ONLY q \in Seq(T), FilterType
  <2>1. g = IF x \in S THEN Append(f, x) ELSE f
    BY ONLY q \in Seq(T), x \in T, FilterAppend
  <2>2. \A i \in DOMAIN q : q[i] \in S => \E j \in DOMAIN f : f[j] = q[i]
    BY <1>2
  <2> HIDE DEF f, g
  <2>3. \A j \in DOMAIN f : j \in DOMAIN g /\ g[j] = f[j]
    BY <2>0, <2>1
  <2>4. x \in S => Len(f) + 1 \in DOMAIN g /\ g[Len(f) + 1] = x
    BY <2>0, <2>1
  <2>5. ASSUME NEW i \in DOMAIN Append(q, x), Append(q, x)[i] \in S
        PROVE  \E j \in DOMAIN g : g[j] = Append(q, x)[i]
    <3>1. CASE i \in DOMAIN q
      <4>1. Append(q, x)[i] = q[i]
        BY <3>1
      <4> QED
        BY <2>2, <2>3, <2>5, <3>1, <4>1
    <3>2. CASE i = Len(q) + 1
      <4>1. Append(q, x)[i] = x
        BY <3>2
      <4> QED
        BY <2>4, <2>5, <4>1
    <3> QED
      BY <3>1, <3>2
  <2>6. Append(q, x) \in Seq(T)
    OBVIOUS
  <2> QED
    BY <2>5, <2>6 DEF g
<1> HIDE DEF P
<1>3. Seq(T) \subseteq P
  BY ONLY <1>1, <1>2, InductionOnSeq
<1> QED
  BY <1>3 DEF P

\* Appending to the second of two sequences appends to both.
LEMMA AppendOfConcat ==
  ASSUME NEW T, NEW s \in Seq(T), NEW t \in Seq(T), NEW x \in T
  PROVE  s \o Append(t, x) = Append(s \o t, x)
<1> DEFINE a == s \o Append(t, x)
           b == Append(s \o t, x)
<1>1. a \in Seq(T) /\ b \in Seq(T) /\ Len(a) = Len(b)
  OBVIOUS
<1>2. \A i \in 1..Len(a) : a[i] = b[i]
  OBVIOUS
<1> HIDE DEF a, b
<1>3. a = b
  BY <1>1, <1>2, SeqEqual
<1> QED
  BY <1>3 DEF a, b

\* What stands between two sequences may go to either.
LEMMA ConcatOfHead ==
  ASSUME NEW T, NEW s \in Seq(T), NEW t \in Seq(T), NEW x \in T
  PROVE  s \o (<<x>> \o t) = Append(s, x) \o t
<1> DEFINE a == s \o (<<x>> \o t)
           b == Append(s, x) \o t
<1>1. <<x>> \o t \in Seq(T) /\ Len(<<x>> \o t) = Len(t) + 1
  OBVIOUS
<1>2. a \in Seq(T) /\ b \in Seq(T) /\ Len(a) = Len(s) + Len(t) + 1 /\ Len(b) = Len(a)
  BY <1>1
<1>3. ASSUME NEW i \in 1..Len(a) PROVE a[i] = b[i]
  <2>1. CASE i <= Len(s)
    BY <1>1, <1>2, <2>1
  <2>2. CASE i = Len(s) + 1
    BY <1>1, <1>2, <2>2
  <2>3. CASE i > Len(s) + 1
    <3>1. a[i] = (<<x>> \o t)[i - Len(s)] /\ i - Len(s) > 1
      BY <1>1, <1>2, <2>3
    <3>2. (<<x>> \o t)[i - Len(s)] = t[i - Len(s) - 1]
      BY <1>2, <2>3
    <3>3. b[i] = t[i - (Len(s) + 1)]
      BY <1>2, <2>3
    <3> QED
      BY <1>2, <3>1, <3>2, <3>3
  <2> QED
    BY <1>2, <2>1, <2>2, <2>3
<1> HIDE DEF a, b
<1>4. a = b
  BY <1>2, <1>3, SeqEqual
<1> QED
  BY <1>4 DEF a, b

\* Filter works on the two halves of a sequence by itself.
LEMMA FilterConcat ==
  ASSUME NEW T, NEW s \in Seq(T), NEW t \in Seq(T), NEW S
  PROVE  Filter(s \o t, S) = Filter(s, S) \o Filter(t, S)
<1> DEFINE P == {q \in Seq(T) : Filter(s \o q, S) = Filter(s, S) \o Filter(q, S)}
<1>0. Filter(s, S) \in Seq(T)
  BY FilterType
<1>1. <<>> \in P
  <2>1. s \o <<>> = s /\ Filter(s, S) \o <<>> = Filter(s, S)
    BY <1>0
  <2>2. Filter(<<>>, S) = <<>>
    BY FilterEmpty
  <2>3. Filter(s \o <<>>, S) = Filter(s, S) \o Filter(<<>>, S)
    BY <2>1, <2>2
  <2> QED
    BY <2>3
<1>2. ASSUME NEW q \in Seq(T), NEW x \in T, q \in P PROVE Append(q, x) \in P
  <2> DEFINE u == s \o q
             f == Filter(s, S)
             g == Filter(q, S)
  <2>0. u \in Seq(T)
    OBVIOUS
  <2>1. s \o Append(q, x) = Append(u, x) /\ Append(q, x) \in Seq(T)
    BY AppendOfConcat
  <2> HIDE DEF u
  <2>2. Filter(Append(u, x), S) = IF x \in S THEN Append(Filter(u, S), x) ELSE Filter(u, S)
    BY ONLY <2>0, x \in T, FilterAppend
  <2>3. Filter(Append(q, x), S) = IF x \in S THEN Append(g, x) ELSE g
    BY ONLY q \in Seq(T), x \in T, FilterAppend
  <2>4. f \in Seq(T)
    BY FilterType
  <2>8. g \in Seq(T)
    BY FilterType
  <2>5. Filter(u, S) = f \o g
    BY <1>2 DEF u
  <2> HIDE DEF f, g
  <2>6. f \o Append(g, x) = Append(f \o g, x)
    BY ONLY <2>4, <2>8, x \in T, AppendOfConcat
  <2>7. Filter(s \o Append(q, x), S) = f \o Filter(Append(q, x), S)
    BY <2>1, <2>2, <2>3, <2>5, <2>6
  <2> QED
    BY <2>1, <2>7 DEF f
<1> HIDE DEF P
<1>3. Seq(T) \subseteq P
  BY ONLY <1>1, <1>2, InductionOnSeq
<1> QED
  BY <1>3 DEF P

\* A filter that lets everything pass changes nothing.
LEMMA FilterAll ==
  ASSUME NEW T, NEW s \in Seq(T), NEW S, T \subseteq S
  PROVE  Filter(s, S) = s
<1> DEFINE P == {q \in Seq(T) : Filter(q, S) = q}
<1>1. <<>> \in P
  BY FilterEmpty
<1>2. ASSUME NEW q \in Seq(T), NEW x \in T, q \in P PROVE Append(q, x) \in P
  <2>1. Filter(Append(q, x), S) = IF x \in S THEN Append(Filter(q, S), x) ELSE Filter(q, S)
    BY ONLY q \in Seq(T), x \in T, FilterAppend
  <2>2. Append(q, x) \in Seq(T)
    OBVIOUS
  <2> QED
    BY <1>2, <2>1, <2>2
<1> HIDE DEF P
<1>3. Seq(T) \subseteq P
  BY ONLY <1>1, <1>2, InductionOnSeq
<1> QED
  BY <1>3 DEF P

\* A filter that lets nothing pass leaves nothing.
LEMMA FilterNone ==
  ASSUME NEW T, NEW s \in Seq(T), NEW S, T \cap S = {}
  PROVE  Filter(s, S) = <<>>
<1>1. Filter(s, S) \in Seq({})
  BY FilterIn
<1> QED
  BY <1>1

\* Filtering twice keeps what passes both.
LEMMA FilterTwice ==
  ASSUME NEW T, NEW s \in Seq(T), NEW A, NEW B
  PROVE  Filter(Filter(s, A), B) = Filter(s, A \cap B)
<1> DEFINE both == A \cap B
           P == {q \in Seq(T) : Filter(Filter(q, A), B) = Filter(q, both)}
<1>1. <<>> \in P
  <2>1. Filter(<<>>, A) = <<>> /\ Filter(<<>>, B) = <<>> /\ Filter(<<>>, both) = <<>>
    BY FilterEmpty
  <2> QED
    BY <2>1
<1>2. ASSUME NEW q \in Seq(T), NEW x \in T, q \in P PROVE Append(q, x) \in P
  <2> DEFINE f == Filter(q, A)
             g == Filter(q, both)
  <2>0. x \in both <=> x \in A /\ x \in B
    OBVIOUS
  <2> HIDE DEF both
  <2>1. f \in Seq(T)
    BY ONLY q \in Seq(T), FilterType
  <2>2. Filter(f, B) = g
    BY <1>2
  <2>3. Filter(Append(q, x), A) = IF x \in A THEN Append(f, x) ELSE f
    BY ONLY q \in Seq(T), x \in T, FilterAppend
  <2>4. Filter(Append(q, x), both) = IF x \in both THEN Append(g, x) ELSE g
    BY ONLY q \in Seq(T), x \in T, FilterAppend
  <2> HIDE DEF f, g
  <2>5. Filter(Append(f, x), B) = IF x \in B THEN Append(Filter(f, B), x) ELSE Filter(f, B)
    BY ONLY <2>1, x \in T, FilterAppend
  <2>6. Filter(Filter(Append(q, x), A), B) = Filter(Append(q, x), both)
    BY <2>0, <2>2, <2>3, <2>4, <2>5
  <2>7. Append(q, x) \in Seq(T)
    OBVIOUS
  <2> QED
    BY <2>6, <2>7
<1> HIDE DEF P
<1>3. Seq(T) \subseteq P
  BY ONLY <1>1, <1>2, InductionOnSeq
<1> QED
  BY <1>3 DEF P

\* What a prefix of a sequence contributes is a prefix of the whole.
LEMMA FilterOfPrefix ==
  ASSUME NEW T, NEW s \in Seq(T), NEW S, NEW n \in 0..Len(s)
  PROVE  LET got == Filter(SubSeq(s, 1, n), S)
         IN  /\ Len(got) <= Len(Filter(s, S))
             /\ got = SubSeq(Filter(s, S), 1, Len(got))
<1> DEFINE front == SubSeq(s, 1, n)
           rest == SubSeq(s, n + 1, Len(s))
           f == Filter(front, S)
           g == Filter(rest, S)
<1>0. n \in Nat /\ Len(s) \in Nat /\ n <= Len(s)
  OBVIOUS
<1>1. front \in Seq(T)
  OBVIOUS
<1>2. rest \in Seq(T)
  OBVIOUS
<1>3. s = front \o rest
  <2>1. Len(front) = n /\ \A i \in 1..n : front[i] = s[i]
    OBVIOUS
  <2>2. Len(rest) = Len(s) - n /\ \A i \in 1..Len(s) - n : rest[i] = s[n + i]
    OBVIOUS
  <2> HIDE DEF front, rest
  <2>3. front \o rest \in Seq(T) /\ Len(front \o rest) = Len(s)
    BY <1>0, <1>1, <1>2, <2>1, <2>2
  <2>4. ASSUME NEW i \in 1..Len(s) PROVE s[i] = (front \o rest)[i]
    <3>1. CASE i <= n
      BY <1>0, <1>1, <1>2, <2>1, <2>2, <3>1
    <3>2. CASE i > n
      <4>1. (front \o rest)[i] = rest[i - n] /\ i - n \in 1..Len(s) - n /\ n + (i - n) = i
        BY <1>0, <1>1, <1>2, <2>1, <2>2, <3>2
      <4> QED
        BY <2>2, <4>1
    <3>3. i <= n \/ i > n
      BY <1>0
    <3> QED
      BY <3>1, <3>2, <3>3
  <2> QED
    BY <2>3, <2>4, SeqEqual
<1> HIDE DEF front, rest
<1>4. Filter(s, S) = f \o g
  BY ONLY <1>1, <1>2, <1>3, FilterConcat
<1>5. f \in Seq(T)
  BY ONLY <1>1, FilterType
<1>6. g \in Seq(T)
  BY ONLY <1>2, FilterType
<1> HIDE DEF f, g
<1>7. Len(f) <= Len(f \o g)
  BY <1>5, <1>6
<1>8. f = SubSeq(f \o g, 1, Len(f))
  <2>1. SubSeq(f \o g, 1, Len(f)) \in Seq(T) /\ Len(SubSeq(f \o g, 1, Len(f))) = Len(f)
    BY <1>5, <1>6
  <2>2. \A i \in 1..Len(f) : f[i] = SubSeq(f \o g, 1, Len(f))[i]
    BY <1>5, <1>6
  <2> QED
    BY <1>5, <2>1, <2>2, SeqEqual
<1> QED
  BY <1>4, <1>7, <1>8 DEF f, front

\* What Filter does to the first element of a sequence.
LEMMA FilterOfTail ==
  ASSUME NEW T, NEW s \in Seq(T), NEW S, s # <<>>
  PROVE  Filter(s, S) = (IF Head(s) \in S THEN <<Head(s)>> ELSE <<>>) \o Filter(Tail(s), S)
<1> DEFINE x == Head(s)
           rest == Tail(s)
           empty == <<>>
           first == <<x>>
<1>1. x \in T
  OBVIOUS
<1>2. rest \in Seq(T)
  OBVIOUS
<1>3. first \in Seq(T)
  OBVIOUS
<1>4. s = first \o rest
  OBVIOUS
<1>5. empty \in Seq(T)
  OBVIOUS
<1>6. first = Append(empty, x)
  OBVIOUS
<1> HIDE DEF first, rest, x
<1>7. Filter(s, S) = Filter(first, S) \o Filter(rest, S)
  BY ONLY <1>2, <1>3, <1>4, FilterConcat
<1>8. Filter(first, S) = IF x \in S THEN first ELSE empty
  <2>1. Filter(empty, S) = empty
    BY FilterEmpty
  <2> HIDE DEF empty
  <2>2. Filter(Append(empty, x), S) = IF x \in S THEN Append(Filter(empty, S), x) ELSE Filter(empty, S)
    BY ONLY <1>1, <1>5, FilterAppend
  <2> QED
    BY <1>6, <2>1, <2>2
<1> QED
  BY <1>7, <1>8 DEF first, x, rest

\* The elements that are left.
LEMMA FilterRange ==
  ASSUME NEW T, NEW s \in Seq(T), NEW S
  PROVE  Range(Filter(s, S)) = Range(s) \cap S
<1> DEFINE f == Filter(s, S)
           R == Range(s)
<1>1. s \in Seq(R)
  BY SeqOfRange
<1> HIDE DEF R
<1>2. f \in Seq(R \cap S)
  BY ONLY <1>1, FilterIn
<1>3. \A i \in DOMAIN s : s[i] \in S => \E j \in DOMAIN f : f[j] = s[i]
  BY FilterKeeps
<1> HIDE DEF f
<1>4. Range(f) \subseteq R \cap S
  BY <1>2 DEF Range
<1>5. R \cap S \subseteq Range(f)
  BY <1>3 DEF Range, R
<1> QED
  BY <1>4, <1>5 DEF f, R

\* Two sets that agree on the elements of a sequence filter it alike.
LEMMA FilterAgrees ==
  ASSUME NEW T, NEW s \in Seq(T), NEW A, NEW B, Range(s) \cap A = Range(s) \cap B
  PROVE  Filter(s, A) = Filter(s, B)
<1> DEFINE f == FilterUpTo(s, A)
           g == FilterUpTo(s, B)
<1>1. \A i \in 1..Len(s) : s[i] \in A <=> s[i] \in B
  BY DEF Range
<1>2. /\ Filter(s, A) = f[Len(s)]
      /\ f[0] = <<>>
      /\ \A n \in 1..Len(s) : f[n] = IF s[n] \in A THEN Append(f[n - 1], s[n]) ELSE f[n - 1]
  BY FilterUnfolds
<1>3. /\ Filter(s, B) = g[Len(s)]
      /\ g[0] = <<>>
      /\ \A n \in 1..Len(s) : g[n] = IF s[n] \in B THEN Append(g[n - 1], s[n]) ELSE g[n - 1]
  BY FilterUnfolds
<1> HIDE DEF f, g
<1>4. SameSteps(f, g, Len(s))
  BY <1>1, <1>2, <1>3 DEF SameSteps
<1>5. Len(s) \in Nat
  OBVIOUS
<1>6. \A i \in 0..Len(s) : f[i] = g[i]
  BY ONLY <1>4, <1>5, Unfolding
<1> QED
  BY <1>2, <1>3, <1>5, <1>6

\* A sequence element by element through a function.
Mapped(f, s) == [i \in DOMAIN s |-> f[s[i]]]

\* S is what f maps into K.
Inverts(f, T, S, K) == \A x \in T : x \in S <=> f[x] \in K

\* Filtering what a function makes of a sequence is filtering the sequence before.
LEMMA FilterMapped ==
  ASSUME NEW T, NEW f, NEW s \in Seq(T), NEW S, NEW K, Inverts(f, T, S, K)
  PROVE  Filter(Mapped(f, s), K) = Mapped(f, Filter(s, S))
<1> DEFINE U == {f[x] : x \in T}
           P == {q \in Seq(T) : Filter(Mapped(f, q), K) = Mapped(f, Filter(q, S))}
<1>1. <<>> \in P
  <2>1. Mapped(f, <<>>) = <<>>
    BY DEF Mapped
  <2>2. Filter(<<>>, K) = <<>> /\ Filter(<<>>, S) = <<>>
    BY FilterEmpty
  <2> QED
    BY <2>1, <2>2
<1>2. ASSUME NEW q \in Seq(T), NEW x \in T, q \in P PROVE Append(q, x) \in P
  <2> DEFINE m == Mapped(f, q)
             y == f[x]
             F == Filter(q, S)
  <2>1. m \in Seq(U)
    BY DEF Mapped
  <2>2. y \in U
    OBVIOUS
  <2>3. \A t \in Seq(T) : Mapped(f, Append(t, x)) = Append(Mapped(f, t), y)
    BY DEF Mapped
  <2>4. F \in Seq(T)
    BY ONLY q \in Seq(T), FilterType
  <2>5. Filter(m, K) = Mapped(f, F)
    BY <1>2
  <2>6. Filter(Append(q, x), S) = IF x \in S THEN Append(F, x) ELSE F
    BY ONLY q \in Seq(T), x \in T, FilterAppend
  <2>7. x \in S <=> y \in K
    BY DEF Inverts
  <2>8. Mapped(f, Append(q, x)) = Append(m, y)
    BY <2>3
  <2> HIDE DEF m, y, F, U
  <2>9. Filter(Append(m, y), K) = IF y \in K THEN Append(Filter(m, K), y) ELSE Filter(m, K)
    BY ONLY <2>1, <2>2, FilterAppend
  <2>10. Filter(Mapped(f, Append(q, x)), K) = Mapped(f, Filter(Append(q, x), S))
    BY <2>3, <2>4, <2>5, <2>6, <2>7, <2>8, <2>9
  <2>11. Append(q, x) \in Seq(T)
    OBVIOUS
  <2> QED
    BY <2>10, <2>11
<1> HIDE DEF P
<1>3. Seq(T) \subseteq P
  BY ONLY <1>1, <1>2, InductionOnSeq
<1> QED
  BY <1>3 DEF P

\* No element of s occurs twice.
Distinct(s) == \A i, j \in DOMAIN s : s[i] = s[j] => i = j

\* What is left of different elements are different elements.
LEMMA FilterDistinct ==
  ASSUME NEW T, NEW s \in Seq(T), NEW S, Distinct(s)
  PROVE  Distinct(Filter(s, S))
<1> DEFINE P == {q \in Seq(T) : Distinct(q) => Distinct(Filter(q, S))}
<1>1. <<>> \in P
  BY FilterEmpty DEF Distinct
<1>2. ASSUME NEW q \in Seq(T), NEW x \in T, q \in P PROVE Append(q, x) \in P
  <2> DEFINE F == Filter(q, S)
             r == Append(q, x)
  <2>0. /\ r \in Seq(T) /\ Len(r) = Len(q) + 1 /\ r[Len(q) + 1] = x
        /\ \A i \in DOMAIN q : i \in DOMAIN r /\ r[i] = q[i]
    OBVIOUS
  <2>1. Filter(r, S) = IF x \in S THEN Append(F, x) ELSE F
    BY ONLY q \in Seq(T), x \in T, FilterAppend
  <2>2. F \in Seq(T)
    BY ONLY q \in Seq(T), FilterType
  <2>3. Range(F) = Range(q) \cap S
    BY ONLY q \in Seq(T), FilterRange
  <2> HIDE DEF F, r
  <2>4. ASSUME Distinct(r) PROVE Distinct(Filter(r, S))
    <3>1. Distinct(q)
      BY <2>0, <2>4 DEF Distinct
    <3>2. Distinct(F)
      BY <1>2, <3>1 DEF F
    <3>3. x \notin Range(q)
      <4> SUFFICES ASSUME NEW i \in DOMAIN q, q[i] = x PROVE FALSE
        BY DEF Range
      <4>1. i # Len(q) + 1 /\ Len(q) + 1 \in DOMAIN r
        BY <2>0
      <4> QED
        BY <2>0, <2>4, <4>1 DEF Distinct
    <3>4. \A i \in DOMAIN F : F[i] # x
      BY <2>3, <3>3 DEF Range
    <3>5. Distinct(Append(F, x))
      BY <2>2, <3>2, <3>4 DEF Distinct
    <3> QED
      BY <2>1, <3>2, <3>5
  <2> QED
    BY <2>0, <2>4 DEF r
<1> HIDE DEF P
<1>3. Seq(T) \subseteq P
  BY ONLY <1>1, <1>2, InductionOnSeq
<1> QED
  BY <1>3 DEF P

--------------------------------------------------------------------------------
(* Total *)

TotalUpTo(s) == CHOOSE f : f = [n \in 0..Len(s) |-> IF n = 0 THEN 0 ELSE f[n - 1] + s[n]]

\* Total is what its recursion says, prefix by prefix.
LEMMA TotalUnfolds ==
  ASSUME NEW s \in Seq(Nat)
  PROVE  /\ Total(s) = TotalUpTo(s)[Len(s)]
         /\ TotalUpTo(s) \in [0..Len(s) -> Nat]
         /\ TotalUpTo(s)[0] = 0
         /\ \A n \in 1..Len(s) : TotalUpTo(s)[n] = TotalUpTo(s)[n - 1] + s[n]
<1> DEFINE step == [p \in (1..Len(s)) \X Nat |-> p[2] + s[p[1]]]
           Def(f) == [n \in 0..Len(s) |-> IF n = 0 THEN 0 ELSE f[n - 1] + s[n]]
           h == TotalUpTo(s)
<1>1. step \in [(1..Len(s)) \X Nat -> Nat]
  OBVIOUS
<1>2. \A i \in 1..Len(s), v \in Nat : step[<<i, v>>] = v + s[i]
  OBVIOUS
<1> HIDE DEF step
<1>3. PICK f \in [0..Len(s) -> Nat] : Recurs(f, Len(s), 0, step)
  <2>1. Len(s) \in Nat /\ 0 \in Nat
    OBVIOUS
  <2> QED
    BY ONLY <1>1, <2>1, RecursionOnPrefixes
<1>4. f[0] = 0 /\ \A i \in 1..Len(s) : f[i] = f[i - 1] + s[i]
  <2>1. \A i \in 1..Len(s) : i - 1 \in 0..Len(s)
    OBVIOUS
  <2>2. \A i \in 1..Len(s) : f[i - 1] \in Nat
    BY <2>1
  <2> QED
    BY <1>2, <1>3, <2>2 DEF Recurs
<1>5. f = Def(f)
  <2>1. \A n \in 0..Len(s) : n = 0 \/ n \in 1..Len(s)
    OBVIOUS
  <2>2. \A n \in 0..Len(s) : f[n] = Def(f)[n]
    BY <1>4, <2>1
  <2> QED
    BY <2>2
<1>6. h = Def(h)
  BY <1>5 DEF TotalUpTo
<1> HIDE DEF h
<1>7. h[0] = 0 /\ \A i \in 1..Len(s) : h[i] = h[i - 1] + s[i]
  <2>1. \A n \in 0..Len(s) : h[n] = Def(h)[n]
    BY <1>6
  <2> QED
    BY <2>1
<1>8. \A i \in 0..Len(s) : h[i] = f[i]
  <2>1. \A i \in 1..Len(s) : h[i - 1] = f[i - 1] => h[i] = f[i]
    BY <1>4, <1>7
  <2>2. h[0] = f[0]
    BY <1>4, <1>7
  <2>3. SameSteps(h, f, Len(s))
    BY <2>1, <2>2 DEF SameSteps
  <2>4. Len(s) \in Nat
    OBVIOUS
  <2> QED
    BY ONLY <2>3, <2>4, Unfolding
<1>9. h \in [0..Len(s) -> Nat]
  <2>1. DOMAIN h = 0..Len(s) /\ h = [n \in 0..Len(s) |-> h[n]]
    BY <1>6
  <2> QED
    BY <1>8, <2>1
<1>10. Total(s) = h[Len(s)]
  BY DEF Total, TotalUpTo, h
<1> QED
  BY <1>7, <1>9, <1>10 DEF h

\* The empty sequence adds up to nothing.
LEMMA TotalEmpty == Total(<<>>) = 0
<1> DEFINE empty == <<>>
<1>0. empty \in Seq(Nat)
  OBVIOUS
<1>1. Len(empty) = 0
  OBVIOUS
<1> HIDE DEF empty
<1>2. Total(empty) = TotalUpTo(empty)[Len(empty)] /\ TotalUpTo(empty)[0] = 0
  BY ONLY <1>0, TotalUnfolds
<1> QED
  BY <1>1, <1>2 DEF empty

\* The sum is a number.
LEMMA TotalType ==
  ASSUME NEW s \in Seq(Nat)
  PROVE  Total(s) \in Nat
<1>1. Len(s) \in 0..Len(s)
  OBVIOUS
<1>2. Total(s) = TotalUpTo(s)[Len(s)] /\ TotalUpTo(s) \in [0..Len(s) -> Nat]
  BY TotalUnfolds
<1> QED
  BY ONLY <1>1, <1>2

\* A number more is added to the sum.
LEMMA TotalAppend ==
  ASSUME NEW s \in Seq(Nat), NEW x \in Nat
  PROVE  Total(Append(s, x)) = Total(s) + x
<1> DEFINE t == Append(s, x)
           f == TotalUpTo(s)
           g == TotalUpTo(t)
<1>1. t \in Seq(Nat)
  OBVIOUS
<1>2. Len(s) \in Nat /\ Len(t) = Len(s) + 1 /\ t[Len(s) + 1] = x /\ \A i \in 1..Len(s) : t[i] = s[i]
  OBVIOUS
<1> HIDE DEF t
<1>3. /\ Total(s) = f[Len(s)]
      /\ f[0] = 0
      /\ \A n \in 1..Len(s) : f[n] = f[n - 1] + s[n]
  BY TotalUnfolds
<1>4. /\ Total(t) = g[Len(t)]
      /\ g[0] = 0
      /\ \A n \in 1..Len(t) : g[n] = g[n - 1] + t[n]
  BY <1>1, TotalUnfolds
<1> HIDE DEF f, g
<1>5. \A i \in 0..Len(s) : g[i] = f[i]
  <2>1. \A n \in 1..Len(s) : g[n - 1] = f[n - 1] => g[n] = f[n]
    BY <1>2, <1>3, <1>4
  <2>2. g[0] = f[0]
    BY <1>2, <1>3, <1>4
  <2>3. SameSteps(g, f, Len(s))
    BY <2>1, <2>2 DEF SameSteps
  <2>4. Len(s) \in Nat
    OBVIOUS
  <2> QED
    BY ONLY <2>3, <2>4, Unfolding
<1>6. g[Len(s) + 1] = g[Len(s)] + x
  <2>1. Len(s) + 1 \in 1..Len(t) /\ (Len(s) + 1) - 1 = Len(s)
    BY <1>2
  <2> QED
    BY <1>2, <1>4, <2>1
<1>7. g[Len(s)] = f[Len(s)]
  BY <1>2, <1>5
<1> QED
  BY <1>2, <1>3, <1>4, <1>6, <1>7 DEF t

\* The sums of two sequences add up.
LEMMA TotalConcat ==
  ASSUME NEW s \in Seq(Nat), NEW t \in Seq(Nat)
  PROVE  Total(s \o t) = Total(s) + Total(t)
<1> DEFINE P == {q \in Seq(Nat) : Total(s \o q) = Total(s) + Total(q)}
<1>0. Total(s) \in Nat
  BY TotalType
<1>1. <<>> \in P
  <2>1. s \o <<>> = s
    OBVIOUS
  <2> QED
    BY <1>0, <2>1, TotalEmpty
<1>2. ASSUME NEW q \in Seq(Nat), NEW x \in Nat, q \in P PROVE Append(q, x) \in P
  <2> DEFINE u == s \o q
  <2>1. u \in Seq(Nat)
    OBVIOUS
  <2>2. s \o Append(q, x) = Append(u, x)
    BY AppendOfConcat
  <2>3. Total(u) = Total(s) + Total(q)
    BY <1>2
  <2> HIDE DEF u
  <2>4. Total(Append(u, x)) = Total(u) + x
    BY ONLY <2>1, x \in Nat, TotalAppend
  <2>5. Total(Append(q, x)) = Total(q) + x
    BY ONLY q \in Seq(Nat), x \in Nat, TotalAppend
  <2>6. Total(q) \in Nat
    BY TotalType
  <2>7. Total(s \o Append(q, x)) = Total(s) + Total(Append(q, x))
    BY <1>0, <2>2, <2>3, <2>4, <2>5, <2>6
  <2>8. Append(q, x) \in Seq(Nat)
    OBVIOUS
  <2> QED
    BY <2>7, <2>8
<1> HIDE DEF P
<1>3. Seq(Nat) \subseteq P
  BY ONLY <1>1, <1>2, InductionOnSeq
<1> QED
  BY <1>3 DEF P

\* What Total does with it.
LEMMA TotalOfTail ==
  ASSUME NEW s \in Seq(Nat), s # <<>>
  PROVE  Total(s) = Head(s) + Total(Tail(s))
<1> DEFINE x == Head(s)
           rest == Tail(s)
           empty == <<>>
           first == <<x>>
<1>1. x \in Nat
  OBVIOUS
<1>2. rest \in Seq(Nat)
  OBVIOUS
<1>3. first \in Seq(Nat)
  OBVIOUS
<1>4. s = first \o rest
  OBVIOUS
<1>5. empty \in Seq(Nat)
  OBVIOUS
<1>6. first = Append(empty, x)
  OBVIOUS
<1> HIDE DEF first, rest, x
<1>7. Total(s) = Total(first) + Total(rest)
  BY ONLY <1>2, <1>3, <1>4, TotalConcat
<1>8. Total(first) = x
  <2>1. Total(empty) = 0
    BY TotalEmpty
  <2> HIDE DEF empty
  <2>2. Total(Append(empty, x)) = Total(empty) + x
    BY ONLY <1>1, <1>5, TotalAppend
  <2> QED
    BY <1>1, <1>6, <2>1, <2>2
<1> QED
  BY <1>7, <1>8 DEF x, rest

--------------------------------------------------------------------------------
(* FlattenSeq *)

\* FlattenSeq appends one sequence after the other.
LEMMA FlattenRuns ==
  ASSUME NEW T, NEW s \in Seq(Seq(T))
  PROVE  \E f \in [0..Len(s) -> Seq(T)] :
           /\ f[0] = <<>>
           /\ \A i \in 1..Len(s) : f[i] = f[i - 1] \o s[i]
           /\ FlattenSeq(s) = f[Len(s)]
<1> DEFINE n == Len(s)
           V == Seq(T)
           empty == <<>>
           step == [p \in (1..n) \X V |-> p[2] \o s[p[1]]]
           Def(f) == [i \in 1..n |-> IF i = 1 THEN s[i] ELSE f[i - 1] \o s[i]]
           h == CHOOSE f : f = Def(f)
<1>1. n \in Nat /\ empty \in V /\ \A i \in 1..n : s[i] \in V
  OBVIOUS
<1>2. step \in [(1..n) \X V -> V]
  OBVIOUS
<1>3. \A i \in 1..n, v \in V : step[<<i, v>>] = v \o s[i]
  OBVIOUS
<1>4. \A v \in V : empty \o v = v
  OBVIOUS
<1>5. FlattenSeq(s) = IF n = 0 THEN s ELSE h[n]
  BY DEF FlattenSeq
<1>6. n = 0 => s = empty
  OBVIOUS
<1> HIDE DEF n, V, empty, step
<1>7. PICK f \in [0..n -> V] : Recurs(f, n, empty, step)
  BY ONLY <1>1, <1>2, RecursionOnPrefixes
<1>8. f[0] = empty /\ \A i \in 1..n : f[i] = f[i - 1] \o s[i]
  <2>1. \A i \in 1..n : i - 1 \in 0..n
    BY <1>1
  <2>2. \A i \in 1..n : f[i - 1] \in V
    BY <2>1
  <2> QED
    BY <1>3, <1>7, <2>2 DEF Recurs
<1>9. h = Def(h)
  <2> DEFINE g == [i \in 1..n |-> f[i]]
  <2>1. \A i \in 1..n : g[i] = f[i]
    OBVIOUS
  <2>2. DOMAIN g = 1..n /\ g = [i \in 1..n |-> g[i]]
    OBVIOUS
  <2> HIDE DEF g
  <2>3. \A i \in 1..n : g[i] = IF i = 1 THEN s[i] ELSE g[i - 1] \o s[i]
    <3> SUFFICES ASSUME NEW i \in 1..n PROVE g[i] = IF i = 1 THEN s[i] ELSE g[i - 1] \o s[i]
      OBVIOUS
    <3>1. CASE i = 1
      <4>1. i - 1 = 0
        BY <3>1
      <4> QED
        BY <1>1, <1>4, <1>8, <2>1, <3>1, <4>1
    <3>2. CASE i # 1
      <4>1. i - 1 \in 1..n
        BY <1>1, <3>2
      <4> QED
        BY <1>8, <2>1, <3>2, <4>1
    <3> QED
      BY <3>1, <3>2
  <2>4. g = Def(g)
    BY <2>2, <2>3
  <2> QED
    BY <2>4
<1>10. \A i \in 1..n : h[i] = IF i = 1 THEN s[i] ELSE h[i - 1] \o s[i]
  <2> HIDE DEF h
  <2>1. \A i \in 1..n : h[i] = Def(h)[i]
    BY <1>9
  <2> QED
    BY <2>1
<1> HIDE DEF h
<1> DEFINE k == [i \in 0..n |-> IF i = 0 THEN empty ELSE h[i]]
<1>11. k[0] = empty /\ \A i \in 1..n : k[i] = h[i]
  BY <1>1
<1> HIDE DEF k
<1>12. SameSteps(k, f, n)
  <2> SUFFICES ASSUME NEW i \in 1..n, k[i - 1] = f[i - 1] PROVE k[i] = f[i]
    BY <1>8, <1>11 DEF SameSteps
  <2>1. CASE i = 1
    <3>0. i - 1 = 0
      BY <2>1
    <3>1. f[i] = f[i - 1] \o s[i] /\ s[i] \in V
      BY <1>1, <1>8
    <3>2. f[i] = s[i]
      BY <1>4, <1>8, <3>0, <3>1
    <3>3. k[i] = h[i] /\ h[i] = s[i]
      BY <1>10, <1>11, <2>1
    <3> QED
      BY <3>2, <3>3
  <2>2. CASE i # 1
    <3>1. i - 1 \in 1..n
      BY <1>1, <2>2
    <3>2. k[i] = h[i] /\ k[i - 1] = h[i - 1]
      BY <1>11, <3>1
    <3>3. h[i] = h[i - 1] \o s[i]
      BY <1>10, <2>2
    <3>4. f[i] = f[i - 1] \o s[i]
      BY <1>8
    <3> QED
      BY <3>2, <3>3, <3>4
  <2> QED
    BY <2>1, <2>2
<1>13. \A i \in 0..n : k[i] = f[i]
  BY ONLY <1>1, <1>12, Unfolding
<1>14. FlattenSeq(s) = f[n]
  <2>1. CASE n = 0
    BY <1>5, <1>6, <1>8, <2>1
  <2>2. CASE n # 0
    <3>1. n \in 1..n /\ n \in 0..n
      BY <1>1, <2>2
    <3> QED
      BY <1>5, <1>11, <1>13, <2>2, <3>1
  <2> QED
    BY <2>1, <2>2
<1> QED
  BY <1>8, <1>14 DEF n, V, empty

--------------------------------------------------------------------------------
(* Parts of a sequence, and bounds of a set *)

\* A set of numbers up to a bound has a greatest one.
LEMMA GreatestOf ==
  ASSUME NEW n \in Nat, NEW S \in SUBSET (0..n), S # {}
  PROVE  Max(S) \in S /\ \A y \in S : Max(S) >= y
<1> DEFINE D == {n - i : i \in S}
<1>1. D \in SUBSET Nat /\ D # {}
  <2>1. \A i \in S : n - i \in Nat
    OBVIOUS
  <2> QED
    BY <2>1
<1>2. PICK d \in D : \A y \in D : d <= y
  <2> HIDE DEF D
  <2> QED
    BY <1>1, LeastOf
<1>3. PICK i \in S : d = n - i
  OBVIOUS
<1>4. \A y \in S : n - y \in D
  OBVIOUS
<1>5. \A y \in S : i >= y
  <2> HIDE DEF D
  <2> QED
    BY <1>2, <1>3, <1>4
<1> QED
  BY <1>5 DEF Max

\* Of a number and its successor, the number is the smaller one.
LEMMA MinOfPair == ASSUME NEW n \in Nat PROVE Min({n + 2, n + 1}) = n + 1
<1> DEFINE S == {n + 2, n + 1}
<1>1. n + 1 \in S /\ \A y \in S : n + 1 <= y
  OBVIOUS
<1>2. \A x \in S : (\A y \in S : x <= y) => x = n + 1
  OBVIOUS
<1> HIDE DEF S
<1> QED
  BY <1>1, <1>2 DEF Min, S

\* The first n elements of a sequence.
LEMMA Taken ==
  ASSUME NEW T, NEW s \in Seq(T), NEW n \in 0..Len(s)
  PROVE  /\ SubSeq(s, 1, n) \in Seq(T)
         /\ Len(SubSeq(s, 1, n)) = n
         /\ \A i \in 1..n : SubSeq(s, 1, n)[i] = s[i]
<1>1. n \in Int /\ 1 \in Int /\ Len(s) \in Nat
  OBVIOUS
<1>2. \A i \in 1..n : i \in 1..Len(s) /\ s[i] \in T
  BY <1>1
<1>3. /\ SubSeq(s, 1, n) \in Seq(T)
      /\ Len(SubSeq(s, 1, n)) = IF 1 <= n THEN n - 1 + 1 ELSE 0
      /\ \A i \in 1..n - 1 + 1 : SubSeq(s, 1, n)[i] = s[1 + i - 1]
  BY ONLY <1>1, <1>2, SubSeqProperties
<1>4. \A i \in 1..n : 1 + i - 1 = i /\ i \in 1..n - 1 + 1
  BY <1>1
<1>5. (IF 1 <= n THEN n - 1 + 1 ELSE 0) = n
  BY <1>1
<1> QED
  BY <1>3, <1>4, <1>5

\* Appending leaves what is in front alone.
LEMMA TakenOfAppend ==
  ASSUME NEW T, NEW s \in Seq(T), NEW x \in T, NEW n \in 0..Len(s)
  PROVE  SubSeq(Append(s, x), 1, n) = SubSeq(s, 1, n)
<1> DEFINE u == Append(s, x)
           l == SubSeq(u, 1, n)
           r == SubSeq(s, 1, n)
<1>1. u \in Seq(T) /\ Len(u) = Len(s) + 1 /\ \A i \in 1..Len(s) : u[i] = s[i]
  OBVIOUS
<1>2. n \in 0..Len(u)
  BY <1>1
<1> HIDE DEF u
<1>3. l \in Seq(T) /\ Len(l) = n /\ \A i \in 1..n : l[i] = u[i]
  BY ONLY <1>1, <1>2, Taken
<1>4. r \in Seq(T) /\ Len(r) = n /\ \A i \in 1..n : r[i] = s[i]
  BY ONLY s \in Seq(T), n \in 0..Len(s), Taken
<1> HIDE DEF l, r
<1>5. l = r
  BY <1>1, <1>3, <1>4, SeqEqual
<1> QED
  BY <1>5 DEF l, r, u

\* The first n elements are those in front and one more.
LEMMA TakenNext ==
  ASSUME NEW T, NEW s \in Seq(T), NEW n \in 1..Len(s)
  PROVE  SubSeq(s, 1, n) = SubSeq(s, 1, n - 1) \o <<s[n]>>
<1> DEFINE a == SubSeq(s, 1, n - 1)
           b == SubSeq(s, 1, n)
           x == s[n]
           u == Append(a, x)
<1>1. n \in 0..Len(s) /\ n - 1 \in 0..Len(s) /\ n \in Nat /\ (n - 1) + 1 = n
  OBVIOUS
<1>2. a \in Seq(T) /\ Len(a) = n - 1 /\ \A i \in 1..(n - 1) : a[i] = s[i]
  BY ONLY <1>1, s \in Seq(T), Taken
<1>3. b \in Seq(T) /\ Len(b) = n /\ \A i \in 1..n : b[i] = s[i]
  BY ONLY <1>1, s \in Seq(T), Taken
<1>4. x \in T
  OBVIOUS
<1> HIDE DEF a, b
<1>5. u \in Seq(T) /\ Len(u) = n /\ u[n] = x /\ \A i \in 1..(n - 1) : u[i] = a[i]
  BY <1>1, <1>2, <1>4
<1>6. a \o <<x>> = u
  BY <1>2, <1>4
<1> HIDE DEF u
<1>7. \A i \in 1..n : u[i] = b[i]
  <2> SUFFICES ASSUME NEW i \in 1..n PROVE u[i] = b[i]
    OBVIOUS
  <2>1. CASE i = n
    BY <1>1, <1>3, <1>5, <2>1
  <2>2. CASE i \in 1..(n - 1)
    BY <1>2, <1>3, <1>5, <2>2
  <2> QED
    BY <1>1, <2>1, <2>2
<1>8. u = b
  BY <1>1, <1>3, <1>5, <1>7, SeqEqual
<1> QED
  BY <1>6, <1>8 DEF a, b

\* A sequence is all but its last element and the last.
LEMMA FrontAndLast ==
  ASSUME NEW T, NEW s \in Seq(T), s # <<>>
  PROVE  Front(s) \in Seq(T) /\ Last(s) \in T /\ s = Append(Front(s), Last(s))
<1> DEFINE n == Len(s)
           f == SubSeq(s, 1, n - 1)
           r == Append(f, s[n])
<1>1. n \in Nat \ {0} /\ n - 1 \in 0..Len(s) /\ Len(s) = n /\ s[n] \in T
  OBVIOUS
<1>2. n - 1 \in 0..Len(s)
  BY <1>1
<1> HIDE DEF n
<1>3. f \in Seq(T) /\ Len(f) = n - 1 /\ \A i \in 1..n - 1 : f[i] = s[i]
  BY ONLY <1>2, s \in Seq(T), Taken
<1> HIDE DEF f
<1>4. r \in Seq(T) /\ Len(r) = n /\ r[n] = s[n] /\ \A i \in 1..n - 1 : r[i] = f[i]
  BY <1>1, <1>3
<1>5. \A i \in 1..n : i = n \/ i \in 1..n - 1
  BY <1>1
<1> HIDE DEF r
<1>6. \A i \in 1..n : r[i] = s[i]
  BY <1>3, <1>4, <1>5
<1>7. r = s
  BY <1>1, <1>4, <1>6, SeqEqual
<1> QED
  BY <1>1, <1>3, <1>7 DEF Front, Last, f, r, n

\* A sequence without an element is one of the others.
LEMMA SeqWithout ==
  ASSUME NEW S, NEW T, NEW X, S \ X \subseteq T, NEW s \in Seq(S), Range(s) \cap X = {}
  PROVE  s \in Seq(T)
<1>1. \A i \in DOMAIN s : s[i] \in S /\ s[i] \notin X
  BY DEF Range
<1>2. \A i \in DOMAIN s : s[i] \in T
  BY <1>1
<1> QED
  BY <1>2

\* A literal path and what ends a pattern or a template.
LEMMA TwoMore ==
  ASSUME NEW T, NEW s \in Seq(T), NEW x \in T, NEW y \in T
  PROVE  /\ s \o <<x, y>> \in Seq(T)
         /\ Len(s \o <<x, y>>) = Len(s) + 2
         /\ \A i \in 1..Len(s) : (s \o <<x, y>>)[i] = s[i]
         /\ (s \o <<x, y>>)[Len(s) + 1] = x
         /\ (s \o <<x, y>>)[Len(s) + 2] = y
         /\ SubSeq(s \o <<x, y>>, 1, Len(s) + 1) = Append(s, x)
<1> DEFINE two == <<x, y>>
           u == s \o two
           n == Len(s)
           r == SubSeq(u, 1, n + 1)
<1>1. two \in Seq(T) /\ Len(two) = 2 /\ two[1] = x /\ two[2] = y
  OBVIOUS
<1>2. n \in Nat /\ Len(s) = n
  OBVIOUS
<1> HIDE DEF two
<1>3. /\ u \in Seq(T) /\ Len(u) = n + 2
      /\ \A i \in 1..(n + 2) : u[i] = IF i <= n THEN s[i] ELSE two[i - n]
  <2>1. two \in Seq(T)
    BY <1>1
  <2>2. /\ s \o two \in Seq(T)
        /\ Len(s \o two) = Len(s) + Len(two)
        /\ \A i \in 1..Len(s) + Len(two) :
             (s \o two)[i] = IF i <= Len(s) THEN s[i] ELSE two[i - Len(s)]
    BY ONLY s \in Seq(T), <2>1, ConcatProperties
  <2> QED
    BY <1>1, <2>2
<1>4. Append(s, x) \in Seq(T) /\ Len(Append(s, x)) = n + 1
      /\ \A i \in 1..(n + 1) : Append(s, x)[i] = IF i <= n THEN s[i] ELSE x
  BY AppendProperties
<1> HIDE DEF u, n
<1>5. n + 1 \in 0..Len(u)
  BY <1>2, <1>3
<1>6. r \in Seq(T) /\ Len(r) = n + 1 /\ \A i \in 1..(n + 1) : r[i] = u[i]
  BY ONLY <1>3, <1>5, Taken
<1>7. \A i \in 1..n : u[i] = s[i]
  BY <1>2, <1>3
<1>8. u[n + 1] = x /\ u[n + 2] = y
  BY <1>1, <1>2, <1>3
<1> HIDE DEF r
<1>9. \A i \in 1..(n + 1) : r[i] = Append(s, x)[i]
  <2> SUFFICES ASSUME NEW i \in 1..(n + 1) PROVE r[i] = Append(s, x)[i]
    OBVIOUS
  <2>1. CASE i = n + 1
    BY <1>2, <1>4, <1>6, <1>8, <2>1
  <2>2. CASE i \in 1..n
    BY <1>2, <1>4, <1>6, <1>7, <2>2
  <2> QED
    BY <1>2, <2>1, <2>2
<1>10. r = Append(s, x)
  BY <1>2, <1>4, <1>6, <1>9, SeqEqual
<1> QED
  BY <1>3, <1>7, <1>8, <1>10 DEF u, two, n, r

\* A part of a path has no more tokens than the path.
LEMMA TokensOfRest ==
  ASSUME NEW T, NEW a \in Seq(T), NEW b \in Seq(T), NEW x \in T
  PROVE  \A i \in DOMAIN b : b[i] \in Range(a \o (<<x>> \o b))
<1> DEFINE one == <<x>>
           m == one \o b
<1>1. one \in Seq(T)
  OBVIOUS
<1> HIDE DEF one
<1>2. m \in Seq(T)
  BY <1>1
<1>3. Range(m) = Range(one) \cup Range(b)
  BY ONLY <1>1, b \in Seq(T), RangeConcatenation
<1> HIDE DEF m
<1>4. Range(a \o m) = Range(a) \cup Range(m)
  BY ONLY <1>2, a \in Seq(T), RangeConcatenation
<1>5. \A i \in DOMAIN b : b[i] \in Range(b)
  BY DEF Range
<1> QED
  BY <1>3, <1>4, <1>5 DEF m, one
================================================================================
