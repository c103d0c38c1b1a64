--------------------------------- MODULE Retry ---------------------------------
(***************************************************************************)
(* RetryLayer (src/src/retry.rs): the request body is buffered up to a cap, *)
(* then the inner service is called, and called again with the same bytes   *)
(* when it could not connect.  A body over the cap is streamed through one  *)
(* call, and with a single attempt the request is passed on as it is.  The  *)
(* inner service is the proxy; all that matters of it here is whether and   *)
(* with which frames a request reached the upstream.                        *)
(***************************************************************************)
EXTENDS Integers, Sequences, Functions, SequenceFolds

CONSTANTS
  Bodies,       \* request bodies: sequences of frames
  Configured,   \* the values given for `attempts`
  MaxBuffer     \* max_buffer_bytes

DataFrame == [kind : {"data"}, size : Nat]
NotTrailers == DataFrame \cup [kind : {"error"}, size : {0}]
Frames == NotTrailers \cup [kind : {"trailers"}, size : {0}]

ASSUME BodiesAssumption == Bodies \subseteq Seq(Frames)
ASSUME MaxBufferAssumption == MaxBuffer \in Nat
ASSUME ConfiguredAssumption == Configured \subseteq Nat

VARIABLES
  body,       \* the frames the client sends
  attempts,   \* the attempts of the layer, after clamping
  frames,     \* the frames not read yet
  buf,        \* the data frames in the buffer
  buffered,   \* buf.len(): their total size
  pc,         \* progress of the call
  out,        \* the body given to the inner service
  attempt,    \* the loop's count of attempts
  calls,      \* history: calls of the inner service
  response,   \* what the call returned
  delivered   \* history: what an upstream received of the requests that reached it

vars == <<body, attempts, frames, buf, buffered, pc, out, attempt, calls,
          response, delivered>>

Responses == {"none", "400", "answer", "connect", "failure"}

TypeOK ==
  /\ body \in Seq(Frames)
  /\ attempts \in Nat \ {0}
  /\ frames \in Seq(Frames)
  /\ buf \in Seq(Frames)
  /\ buffered \in Nat
  /\ pc \in {"new", "buffering", "ready", "calling", "streaming", "sleeping", "returned", "dropped"}
  /\ out \in Seq(Frames)
  /\ attempt \in Nat
  /\ calls \in Nat
  /\ response \in Responses
  /\ delivered \in Seq([got : Seq(Frames), whole : BOOLEAN])

\* RetryLayer::with_delay: at least one attempt.
AsConfigured(n) == n                                  \* faulty: not clamped

Clamp(n) == IF n = 0 THEN 1 ELSE n

Init ==
  /\ body \in Bodies
  /\ \E n \in Configured : attempts = Clamp(n)
  /\ frames = body
  /\ buf = <<>>
  /\ buffered = 0
  /\ pc = "new"
  /\ out = <<>>
  /\ attempt = 0
  /\ calls = 0
  /\ response = "none"
  /\ delivered = <<>>

--------------------------------------------------------------------------------
(* Before the first attempt *)

\* A call of the inner service with the body it is given.
Invoke(frs, state) ==
  /\ pc' = state
  /\ out' = frs
  /\ calls' = calls + 1

\* With one attempt the request goes to the inner service as it is.
PassThrough ==
  /\ pc = "new"
  /\ attempts = 1
  /\ Invoke(frames, "streaming")
  /\ frames' = <<>>
  /\ UNCHANGED <<body, attempts, buf, buffered, attempt, response, delivered>>

StartBuffering ==
  /\ pc = "new"
  /\ attempts # 1
  /\ pc' = "buffering"
  /\ UNCHANGED <<body, attempts, frames, buf, buffered, out, attempt, calls, response,
                 delivered>>

\* Whether a data frame still fits into the buffer.
Fits(size) == buffered + size <= MaxBuffer

\* What a body over the cap is forwarded as: the buffered prefix, the frame that did not
\* fit, and the rest as a data stream, which has no trailers.
WithoutPrefix == Filter(frames, NotTrailers)       \* faulty: the prefix is lost

Chained == buf \o Filter(frames, NotTrailers)

Buffer(f) ==
  /\ buf' = Append(buf, f)
  /\ buffered' = buffered + f.size
  /\ frames' = Tail(frames)
  /\ UNCHANGED <<pc, out, calls>>

\* TooLarge: the inner service is called once, outside the retry loop.
ForwardOnce ==
  /\ Invoke(Chained, "streaming")
  /\ frames' = <<>>
  /\ UNCHANGED <<buf, buffered>>

ReadData ==
  /\ pc = "buffering"
  /\ frames # <<>>
  /\ Head(frames).kind = "data"
  /\ IF Fits(Head(frames).size) THEN Buffer(Head(frames)) ELSE ForwardOnce
  /\ UNCHANGED <<body, attempts, attempt, response, delivered>>

\* Trailers cannot be replayed and are dropped.
ReadTrailers ==
  /\ pc = "buffering"
  /\ frames # <<>>
  /\ Head(frames).kind = "trailers"
  /\ frames' = Tail(frames)
  /\ UNCHANGED <<body, attempts, buf, buffered, pc, out, attempt, calls, response,
                 delivered>>

Return(r) == pc' = "returned" /\ response' = r

\* The client's body fails: 400, and the inner service is never called.
ReadError ==
  /\ pc = "buffering"
  /\ frames # <<>>
  /\ Head(frames).kind = "error"
  /\ frames' = <<>>
  /\ Return("400")
  /\ UNCHANGED <<body, attempts, buf, buffered, out, attempt, calls, delivered>>

AwaitFirstFrame ==                                    \* faulty: an empty body never completes
  /\ pc = "buffering"
  /\ frames = <<>>
  /\ buf # <<>>
  /\ pc' = "ready"
  /\ UNCHANGED <<body, attempts, frames, buf, buffered, out, attempt, calls, response,
                 delivered>>

ReadEnd ==
  /\ pc = "buffering"
  /\ frames = <<>>
  /\ pc' = "ready"
  /\ UNCHANGED <<body, attempts, frames, buf, buffered, out, attempt, calls, response,
                 delivered>>

--------------------------------------------------------------------------------
(* The attempts *)

\* The head of the loop: every attempt is given its own clone of the bytes.
CallInner ==
  /\ pc = "ready"
  /\ attempt' = attempt + 1
  /\ Invoke(buf, "calling")
  /\ UNCHANGED <<body, attempts, frames, buf, buffered, response, delivered>>

\* Only a ProxyError with is_connect set is worth another attempt.
AnyProxyError(r) == r \in {"connect", "failure"}      \* faulty: is_connect is not asked for

IsRetryable(r) == r = "connect"

OneMoreAttempt == attempt <= attempts                 \* faulty: off by one

AttemptsLeft == attempt < attempts

\* The inner service has returned r: the tail of the loop, or the end of a call that is
\* made outside of it.
Conclude(r) ==
  IF pc = "calling" /\ IsRetryable(r) /\ AttemptsLeft
  THEN pc' = "sleeping" /\ UNCHANGED response
  ELSE Return(r)

\* The inner service sends a part of the body it was given, up to an error of the client's.
Send ==
  \E n \in 0..Len(out) :
    /\ \A i \in 1..n : out[i].kind # "error"
    /\ delivered' = Append(delivered, [got |-> SubSeq(out, 1, n), whole |-> n = Len(out)])

\* The proxy fails before or while it sends: an invalid request, a lost connection, a
\* timeout, a client body that breaks off.
InnerFails ==
  /\ pc \in {"calling", "streaming"}
  /\ Send \/ UNCHANGED delivered
  /\ Conclude("failure")
  /\ UNCHANGED <<body, attempts, frames, buf, buffered, out, attempt, calls>>

\* The upstream answers, maybe before it has read all of the body, maybe with a 502.
InnerAnswers ==
  /\ pc \in {"calling", "streaming"}
  /\ Send
  /\ Conclude("answer")
  /\ UNCHANGED <<body, attempts, frames, buf, buffered, out, attempt, calls>>

\* The proxy could not connect: nothing is sent.
InnerCannotConnect ==
  /\ pc \in {"calling", "streaming"}
  /\ Conclude("connect")
  /\ UNCHANGED <<body, attempts, frames, buf, buffered, out, attempt, calls, delivered>>

\* The delay between two attempts is over.
Awake ==
  /\ pc = "sleeping"
  /\ pc' = "ready"
  /\ UNCHANGED <<body, attempts, frames, buf, buffered, out, attempt, calls, response,
                 delivered>>

\* The server drops the future of the call, maybe in the middle of an attempt.
DropFuture ==
  /\ pc \notin {"returned", "dropped"}
  /\ \/ pc \in {"calling", "streaming"} /\ Send
     \/ UNCHANGED delivered
  /\ pc' = "dropped"
  /\ UNCHANGED <<body, attempts, frames, buf, buffered, out, attempt, calls, response>>

--------------------------------------------------------------------------------
Inner == InnerAnswers \/ InnerFails \/ InnerCannotConnect
Layer == PassThrough \/ StartBuffering \/ ReadData \/ ReadTrailers \/ ReadError \/ ReadEnd
           \/ CallInner \/ Awake

Next == Layer \/ Inner \/ DropFuture

Spec == Init /\ [][Next]_vars

\* The runtime polls the future of the call, the client's body makes progress and the
\* inner service returns.
FairSpec == Spec /\ WF_vars(Layer) /\ WF_vars(Inner)

--------------------------------------------------------------------------------
(* Properties *)

\* "Because the request was never sent in that case, replaying it is safe for any method":
\* over all attempts, however they fail, at most one request reaches an upstream.
ReachesUpstreamOnce == Len(delivered) <= 1

\* d carries the client's data from its start, in order, and all of it if it was sent whole.
Intact(d) ==
  LET data == Filter(body, DataFrame)
      got  == Filter(d.got, DataFrame)
  IN  /\ Len(got) <= Len(data)
      /\ got = SubSeq(data, 1, Len(got))
      /\ d.whole => got = data

\* Whatever the layer did to the body (replayed it, chained the prefix to the rest), the
\* upstream receives the client's data from its start, in order, and all of it if the
\* request was sent whole.
DeliveredIntact == \A i \in DOMAIN delivered : Intact(delivered[i])

Sizes(b) == [i \in DOMAIN b |-> b[i].size]

Size(b) == Total(Sizes(b))

OverCap == Size(body) > MaxBuffer

\* "Up to `attempts` total attempts", and "bodies that exceed the cap are forwarded exactly
\* once": the inner service is called at most that often, and a connect failure is
\* returned only when the budget is used up.
RetryBudget ==
  LET budget == IF OverCap THEN 1 ELSE attempts
  IN  /\ calls <= budget
      /\ response = "connect" => calls = budget

\* The layer never holds more than max_buffer_bytes of a body, and holds it exactly once.
BufferBounded == buffered = Size(buf) /\ buffered <= MaxBuffer

\* The layer stays within both of its limits, attempts and bytes (buffer_body, call).
WithinLimits == RetryBudget /\ BufferBounded

\* Every call ends: a finite body is read to its end and the retries run out.
CallEnds == <>(pc \in {"returned", "dropped"})
================================================================================
