----------------------------- MODULE SequenceFolds -----------------------------
(***************************************************************************)
(* Two folds over a sequence, as recursive functions over its prefixes so   *)
(* that SequenceLemmas can reason about them.                               *)
(***************************************************************************)
EXTENDS Naturals, Sequences

\* The elements of s that are in S, in their order (SelectSeq with a set for its test).
Filter(s, S) ==
  LET upTo[n \in 0..Len(s)] ==
        IF n = 0 THEN <<>>
        ELSE IF s[n] \in S THEN Append(upTo[n - 1], s[n]) ELSE upTo[n - 1]
  IN  upTo[Len(s)]

\* The sum of a sequence of numbers.
Total(s) ==
  LET upTo[n \in 0..Len(s)] == IF n = 0 THEN 0 ELSE upTo[n - 1] + s[n]
  IN  upTo[Len(s)]
================================================================================
