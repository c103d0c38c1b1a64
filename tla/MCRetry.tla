-------------------------------- MODULE MCRetry --------------------------------
(* Retry for TLC. *)
EXTENDS Retry

CONSTANTS FrameSizes, MaxFrames   \* sizes and number of the data frames

Data == [kind : {"data"}, size : FrameSizes]

\* The frames of a body differ in size, so that their order shows.
DataFrames == {s \in UNION {[1..n -> Data] : n \in 0..MaxFrames} : IsInjective(s)}

Ends == {<<>>, <<[kind |-> "trailers", size |-> 0]>>, <<[kind |-> "error", size |-> 0]>>}

MCBodies == {s \o e : s \in DataFrames, e \in Ends}
================================================================================
