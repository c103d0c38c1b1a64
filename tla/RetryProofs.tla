------------------------------ MODULE RetryProofs ------------------------------
(***************************************************************************)
(* What the retry layer guarantees for bodies of any length, any number of  *)
(* attempts and any cap.                                                    *)
(***************************************************************************)
EXTENDS Retry, SequenceLemmas

Looping == {"ready", "calling", "sleeping"}
Ended == {"returned", "dropped"}

\* Where the client's data is: in the buffer and in the frames not read, later in the body
\* given to the inner service.
DataAccounted ==
  /\ buf \in Seq(DataFrame)
  /\ pc = "new" => frames = body /\ buf = <<>>
  /\ pc \in Looping => frames = <<>>
  /\ pc \in {"new", "buffering"} \cup Looping =>
       Filter(body, DataFrame) = buf \o Filter(frames, DataFrame)
  /\ pc \in {"calling", "streaming"} => Filter(out, DataFrame) = Filter(body, DataFrame)

\* Where its bytes are.
BytesAccounted ==
  /\ BufferBounded
  /\ pc \in {"new", "buffering"} \cup Looping => Size(body) = Size(buf) + Size(frames)

\* How the history variable `calls` relates to the loop's counter.
CallsAccounted ==
  /\ pc \in {"new", "buffering"} => calls = 0 /\ attempt = 0
  /\ pc \in Looping => calls = attempt
  /\ pc \in {"ready", "sleeping"} => attempt < attempts
  /\ pc = "calling" => 0 < attempt /\ attempt <= attempts
  /\ pc = "streaming" => calls = 1 /\ (attempts = 1 \/ OverCap)
  /\ RetryBudget

\* Nothing has been sent before the call has ended.
NothingYet == pc \notin Ended => delivered = <<>> /\ response = "none"

IInv ==
  /\ TypeOK
  /\ DataAccounted
  /\ BytesAccounted
  /\ CallsAccounted
  /\ NothingYet
  /\ ReachesUpstreamOnce
  /\ DeliveredIntact

--------------------------------------------------------------------------------
(* The operators *)

\* The sizes of frames are numbers.
LEMMA SizesType ==
  ASSUME NEW b \in Seq(Frames)
  PROVE  Sizes(b) \in Seq(Nat) /\ Len(Sizes(b)) = Len(b)
<1>1. \A i \in 1..Len(b) : b[i].size \in Nat
  <2>1. \A f \in Frames : f.size \in Nat
    BY DEF Frames, NotTrailers, DataFrame
  <2> QED
    BY <2>1
<1> QED
  BY <1>1 DEF Sizes

\* A body has a size.
LEMMA SizeType ==
  ASSUME NEW b \in Seq(Frames)
  PROVE  Size(b) \in Nat
BY SizesType, TotalType DEF Size

\* An empty body has none.
LEMMA SizeEmpty == Size(<<>>) = 0
<1>1. Sizes(<<>>) = <<>>
  BY DEF Sizes
<1> QED
  BY <1>1, TotalEmpty DEF Size

\* A frame adds its size to the buffer ...
LEMMA SizeAppend ==
  ASSUME NEW b \in Seq(Frames), NEW f \in Frames
  PROVE  Size(Append(b, f)) = Size(b) + f.size
<1> DEFINE s == Sizes(b)
           n == f.size
<1>1. s \in Seq(Nat)
  BY SizesType
<1>2. n \in Nat
  BY DEF Frames, NotTrailers, DataFrame
<1>3. Sizes(Append(b, f)) = Append(s, n)
  <2>1. Len(Sizes(Append(b, f))) = Len(b) + 1 /\ Len(Append(s, n)) = Len(b) + 1
    BY DEF Sizes
  <2>2. \A i \in 1..Len(b) + 1 : Sizes(Append(b, f))[i] = Append(s, n)[i]
    BY DEF Sizes
  <2>3. Append(b, f) \in Seq(Frames)
    OBVIOUS
  <2>4. Sizes(Append(b, f)) \in Seq(Nat)
    BY <2>3, SizesType
  <2>5. Append(s, n) \in Seq(Nat)
    BY <1>1, <1>2
  <2> QED
    BY <2>1, <2>2, <2>4, <2>5, SeqEqual
<1> HIDE DEF s, n
<1>4. Total(Append(s, n)) = Total(s) + n
  BY ONLY <1>1, <1>2, TotalAppend
<1> QED
  BY <1>3, <1>4 DEF Size, s, n

\* ... and takes it from what is left to read.
LEMMA SizeOfTail ==
  ASSUME NEW b \in Seq(Frames), b # <<>>
  PROVE  Size(b) = Head(b).size + Size(Tail(b))
<1> DEFINE s == Sizes(b)
<1>1. s \in Seq(Nat) /\ Len(s) = Len(b)
  BY SizesType
<1>2. s # <<>>
  BY <1>1
<1>3. Head(s) = Head(b).size /\ Tail(s) = Sizes(Tail(b))
  BY DEF Sizes
<1> HIDE DEF s
<1>4. Total(s) = Head(s) + Total(Tail(s))
  BY ONLY <1>1, <1>2, TotalOfTail
<1> QED
  BY <1>3, <1>4 DEF Size, s

\* The chained body carries the data of the buffer and of the frames not read.
LEMMA ChainedData ==
  ASSUME buf \in Seq(DataFrame), frames \in Seq(Frames)
  PROVE  Filter(Chained, DataFrame) = buf \o Filter(frames, DataFrame)
<1> DEFINE rest == Filter(frames, NotTrailers)
<1>1. rest \in Seq(Frames)
  BY FilterType
<1>2. buf \in Seq(Frames)
  BY DEF Frames, NotTrailers
<1>3. Filter(rest, DataFrame) = Filter(frames, DataFrame)
  <2>1. Filter(rest, DataFrame) = Filter(frames, NotTrailers \cap DataFrame)
    BY FilterTwice
  <2>2. NotTrailers \cap DataFrame = DataFrame
    BY DEF NotTrailers
  <2> QED
    BY <2>1, <2>2
<1>4. Filter(buf, DataFrame) = buf
  BY FilterAll
<1> HIDE DEF rest
<1>5. Filter(buf \o rest, DataFrame) = Filter(buf, DataFrame) \o Filter(rest, DataFrame)
  BY ONLY <1>1, <1>2, FilterConcat
<1> QED
  BY <1>3, <1>4, <1>5 DEF Chained, rest

\* What an inner service sends of the client's data is intact.
LEMMA SentIntact ==
  ASSUME out \in Seq(Frames), Filter(out, DataFrame) = Filter(body, DataFrame),
         NEW n \in 0..Len(out)
  PROVE  Intact([got |-> SubSeq(out, 1, n), whole |-> n = Len(out)])
<1> DEFINE sent == Filter(SubSeq(out, 1, n), DataFrame)
<1>1. Len(sent) <= Len(Filter(out, DataFrame)) /\ sent = SubSeq(Filter(out, DataFrame), 1, Len(sent))
  BY FilterOfPrefix
<1>2. n = Len(out) => SubSeq(out, 1, n) = out
  OBVIOUS
<1> QED
  BY <1>1, <1>2 DEF Intact


--------------------------------------------------------------------------------
(* The induction *)

\* Before the call the client's body is where it was, and nothing else has happened.
LEMMA InitInv == Init => IInv
<1> SUFFICES ASSUME Init PROVE IInv
  OBVIOUS
<1>1. TypeOK
  BY BodiesAssumption, ConfiguredAssumption DEF Init, TypeOK, Clamp, Responses
<1>2. body \in Seq(Frames) /\ frames = body /\ buf = <<>> /\ pc = "new" /\ calls = 0 /\ attempt = 0
  BY <1>1 DEF Init, TypeOK
<1>3. DataAccounted
  <2>1. Filter(body, DataFrame) \in Seq(Frames)
    BY <1>2, FilterType
  <2>2. <<>> \o Filter(body, DataFrame) = Filter(body, DataFrame)
    BY <2>1
  <2> QED
    BY <1>2, <2>2 DEF DataAccounted, Looping
<1>4. BytesAccounted
  <2>1. Size(body) \in Nat /\ Size(buf) = 0
    BY <1>2, SizeType, SizeEmpty
  <2> QED
    BY <1>2, <2>1, MaxBufferAssumption DEF BytesAccounted, BufferBounded, Init
<1>5. CallsAccounted
  BY <1>1, <1>2 DEF CallsAccounted, RetryBudget, Init, Looping, TypeOK
<1>6. NothingYet /\ ReachesUpstreamOnce /\ DeliveredIntact
  BY DEF Init, NothingYet, ReachesUpstreamOnce, DeliveredIntact
<1> QED
  BY <1>1, <1>3, <1>4, <1>5, <1>6 DEF IInv

\* Every variable keeps its type.
LEMMA TypeStep == TypeOK /\ [Next]_vars => TypeOK'
<1> SUFFICES ASSUME TypeOK, [Next]_vars PROVE TypeOK'
  OBVIOUS
<1>1. \A f \in Frames : f.size \in Nat
  BY DEF Frames, NotTrailers, DataFrame
<1>2. frames # <<>> => Head(frames) \in Frames /\ Tail(frames) \in Seq(Frames)
  BY DEF TypeOK
<1>3. Chained \in Seq(Frames)
  <2>1. frames \in Seq(Frames)
    BY DEF TypeOK
  <2>2. Filter(frames, NotTrailers) \in Seq(Frames)
    BY <2>1, FilterType
  <2> QED
    BY <2>2 DEF Chained, TypeOK
<1>4. Send => delivered' \in Seq([got : Seq(Frames), whole : BOOLEAN])
  <2> SUFFICES ASSUME NEW n \in 0..Len(out),
                      delivered' = Append(delivered, [got |-> SubSeq(out, 1, n), whole |-> n = Len(out)])
               PROVE  delivered' \in Seq([got : Seq(Frames), whole : BOOLEAN])
    BY DEF Send
  <2>1. SubSeq(out, 1, n) \in Seq(Frames)
    BY DEF TypeOK
  <2>2. [got |-> SubSeq(out, 1, n), whole |-> n = Len(out)] \in [got : Seq(Frames), whole : BOOLEAN]
    BY <2>1
  <2> QED
    BY <2>2 DEF TypeOK
<1> USE DEF TypeOK, Responses
<1>5. CASE PassThrough
  BY <1>5 DEF PassThrough, Invoke
<1>6. CASE StartBuffering \/ ReadEnd \/ Awake
  BY <1>6 DEF StartBuffering, ReadEnd, Awake
<1>7. CASE ReadData
  <2>1. CASE Buffer(Head(frames))
    BY <1>1, <1>2, <1>7, <2>1 DEF ReadData, Buffer
  <2>2. CASE ForwardOnce
    BY <1>3, <1>7, <2>2 DEF ReadData, ForwardOnce, Invoke
  <2> QED
    BY <1>7, <2>1, <2>2 DEF ReadData
<1>8. CASE ReadTrailers
  BY <1>2, <1>8 DEF ReadTrailers
<1>13. CASE ReadError
  BY <1>13 DEF ReadError, Return
<1>9. CASE CallInner
  BY <1>9 DEF CallInner, Invoke
<1>10. CASE Inner
  BY <1>4, <1>10 DEF Inner, InnerFails, InnerAnswers, InnerCannotConnect, Conclude, Return
<1>11. CASE DropFuture
  BY <1>4, <1>11 DEF DropFuture
<1>12. CASE UNCHANGED vars
  BY <1>12 DEF vars
<1> QED
  BY <1>5, <1>6, <1>7, <1>8, <1>9, <1>10, <1>11, <1>12, <1>13 DEF Next, Layer


\* A request that reaches the upstream is the first one, and intact.
LEMMA SendStep ==
  ASSUME IInv, pc \in {"calling", "streaming"}, Send, UNCHANGED body
  PROVE  ReachesUpstreamOnce' /\ DeliveredIntact'
<1> USE DEF IInv
<1>1. PICK n \in 0..Len(out) :
        delivered' = Append(delivered, [got |-> SubSeq(out, 1, n), whole |-> n = Len(out)])
  BY DEF Send
<1> DEFINE d == [got |-> SubSeq(out, 1, n), whole |-> n = Len(out)]
<1>2. Intact(d)
  BY SentIntact DEF DataAccounted, TypeOK
<1>3. delivered = <<>>
  BY DEF NothingYet, Ended
<1> HIDE DEF d
<1>4. Len(delivered') = 1 /\ DOMAIN delivered' = {1} /\ delivered'[1] = d
  BY <1>1, <1>3 DEF d
<1>5. Intact(delivered[1])'
  BY <1>2, <1>4 DEF Intact
<1> QED
  BY <1>4, <1>5 DEF ReachesUpstreamOnce, DeliveredIntact

\* Every step keeps the invariant.
LEMMA StepInv == IInv /\ [Next]_vars => IInv'
<1> SUFFICES ASSUME IInv, [Next]_vars PROVE IInv'
  OBVIOUS
<1>0. TypeOK /\ TypeOK'
  BY TypeStep DEF IInv
<1> DEFINE rest == Tail(frames)
           f == Head(frames)
<1>1. ASSUME frames # <<>>
      PROVE  /\ f \in Frames
             /\ f.size \in Nat
             /\ rest \in Seq(Frames)
             /\ Size(frames) = f.size + Size(rest)
             /\ Size(rest) \in Nat
             /\ Filter(frames, DataFrame)
                  = (IF f \in DataFrame THEN <<f>> ELSE <<>>) \o Filter(rest, DataFrame)
             /\ Filter(rest, DataFrame) \in Seq(Frames)
  <2>1. f \in Frames /\ rest \in Seq(Frames) /\ frames \in Seq(Frames)
    BY <1>0, <1>1 DEF TypeOK
  <2>2. f.size \in Nat
    BY <2>1 DEF Frames, NotTrailers, DataFrame
  <2>3. Size(frames) = f.size + Size(rest)
    BY <1>1, <2>1, SizeOfTail
  <2>4. Size(rest) \in Nat
    BY <2>1, SizeType
  <2>5. Filter(frames, DataFrame) = (IF f \in DataFrame THEN <<f>> ELSE <<>>) \o Filter(rest, DataFrame)
    BY <1>1, <2>1, FilterOfTail
  <2>6. Filter(rest, DataFrame) \in Seq(Frames)
    BY <2>1, FilterType
  <2> QED
    BY <2>1, <2>2, <2>3, <2>4, <2>5, <2>6
<1>2. ASSUME frames # <<>> PROVE f \in DataFrame <=> f.kind = "data"
  BY <1>1, <1>2 DEF Frames, NotTrailers, DataFrame
<1> HIDE DEF f, rest
<1> USE DEF IInv
<1>3. CASE PassThrough
  <2> USE <1>3 DEF PassThrough, Invoke
  <2>1. DataAccounted'
    BY DEF DataAccounted, Looping
  <2>2. BytesAccounted'
    BY DEF BytesAccounted, BufferBounded, Looping, Size
  <2>3. CallsAccounted'
    BY <1>0 DEF CallsAccounted, RetryBudget, Looping, NothingYet, Ended, OverCap
  <2>4. NothingYet' /\ ReachesUpstreamOnce' /\ DeliveredIntact'
    BY DEF NothingYet, ReachesUpstreamOnce, DeliveredIntact, Intact, Ended
  <2> QED
    BY <1>0, <2>1, <2>2, <2>3, <2>4
<1>4. CASE StartBuffering
  <2> USE <1>4 DEF StartBuffering
  <2>1. DataAccounted'
    BY DEF DataAccounted, Looping
  <2>2. BytesAccounted'
    BY DEF BytesAccounted, BufferBounded, Looping, Size
  <2>3. CallsAccounted'
    BY DEF CallsAccounted, RetryBudget, Looping, OverCap
  <2>4. NothingYet' /\ ReachesUpstreamOnce' /\ DeliveredIntact'
    BY DEF NothingYet, ReachesUpstreamOnce, DeliveredIntact, Intact, Ended
  <2> QED
    BY <1>0, <2>1, <2>2, <2>3, <2>4
<1>5. CASE ReadData /\ Buffer(f) /\ Fits(f.size)
  <2> USE <1>5 DEF ReadData, Buffer
  <2>0. f \in DataFrame
    <3>1. frames # <<>> /\ f.kind = "data"
      BY DEF f
    <3> QED
      BY <1>2, <3>1
  <2>1. DataAccounted'
    <3>1. Append(buf, f) \in Seq(DataFrame)
      BY <2>0 DEF DataAccounted
    <3>2. buf \o (<<f>> \o Filter(rest, DataFrame)) = Append(buf, f) \o Filter(rest, DataFrame)
      <4> DEFINE t == Filter(rest, DataFrame)
      <4>1. t \in Seq(Frames)
        BY <1>1
      <4>2. f \in Frames
        BY <1>1
      <4>3. buf \in Seq(Frames)
        BY <1>0 DEF TypeOK
      <4> HIDE DEF t
      <4>4. buf \o (<<f>> \o t) = Append(buf, f) \o t
        BY ONLY <4>1, <4>2, <4>3, ConcatOfHead
      <4> QED
        BY <4>4 DEF t
    <3>3. frames' = rest
      BY DEF rest
    <3> QED
      BY <1>1, <2>0, <3>1, <3>2, <3>3 DEF DataAccounted, Looping
  <2>2. BytesAccounted'
    <3>1. Size(buf') = Size(buf) + f.size
      BY <1>0, <1>1, SizeAppend DEF TypeOK
    <3>2. frames' = rest /\ body' = body
      BY DEF rest
    <3>3. Size(buf) \in Nat
      BY <1>0, SizeType DEF TypeOK
    <3>4. BufferBounded'
      BY <1>0, <1>1, <2>0, <3>1 DEF BytesAccounted, BufferBounded, Fits, TypeOK
    <3>5. Size(body) = Size(buf) + (f.size + Size(rest))
      BY <1>1 DEF BytesAccounted
    <3>6. Size(body) = (Size(buf) + f.size) + Size(rest)
      BY <1>1, <3>3, <3>5
    <3> QED
      BY <3>1, <3>2, <3>4, <3>6 DEF BytesAccounted
  <2>3. CallsAccounted'
    BY DEF CallsAccounted, RetryBudget, Looping, OverCap
  <2>4. NothingYet' /\ ReachesUpstreamOnce' /\ DeliveredIntact'
    BY DEF NothingYet, ReachesUpstreamOnce, DeliveredIntact, Intact, Ended
  <2> QED
    BY <1>0, <2>1, <2>2, <2>3, <2>4
<1>6. CASE ReadData /\ ForwardOnce /\ ~ Fits(f.size)
  <2> USE <1>6 DEF ReadData, ForwardOnce, Invoke
  <2>1. DataAccounted'
    <3>1. Filter(Chained, DataFrame) = buf \o Filter(frames, DataFrame)
      BY <1>0, ChainedData DEF TypeOK, DataAccounted
    <3> QED
      BY <3>1 DEF DataAccounted, Looping
  <2>2. BytesAccounted'
    BY DEF BytesAccounted, BufferBounded, Looping, Size
  <2>3. CallsAccounted'
    <3>1. Size(body) = buffered + Size(frames)
      BY DEF BytesAccounted, BufferBounded
    <3>2. Size(body) > MaxBuffer
      BY <1>0, <1>1, <3>1, MaxBufferAssumption DEF Fits, TypeOK
    <3> QED
      BY <3>2 DEF CallsAccounted, RetryBudget, Looping, OverCap, NothingYet, Ended
  <2>4. NothingYet' /\ ReachesUpstreamOnce' /\ DeliveredIntact'
    BY DEF NothingYet, ReachesUpstreamOnce, DeliveredIntact, Intact, Ended
  <2> QED
    BY <1>0, <2>1, <2>2, <2>3, <2>4

<1>7. CASE ReadTrailers
  <2> USE <1>7 DEF ReadTrailers
  <2>0. f \notin DataFrame /\ f.size = 0 /\ frames' = rest
    <3>1. f.kind = "trailers" /\ frames' = rest
      BY DEF f, rest
    <3> QED
      BY <1>1, <1>2, <3>1 DEF Frames, NotTrailers, DataFrame
  <2>1. DataAccounted'
    <3>1. <<>> \o Filter(rest, DataFrame) = Filter(rest, DataFrame)
      BY <1>1
    <3> QED
      BY <1>1, <2>0, <3>1 DEF DataAccounted, Looping
  <2>2. BytesAccounted'
    <3>1. Size(buf) \in Nat
      BY <1>0, SizeType DEF TypeOK
    <3>2. Size(body) = Size(buf) + Size(rest)
      BY <1>1, <2>0 DEF BytesAccounted
    <3> QED
      BY <2>0, <3>2 DEF BytesAccounted, BufferBounded
  <2>3. CallsAccounted'
    BY DEF CallsAccounted, RetryBudget, Looping, OverCap
  <2>4. NothingYet' /\ ReachesUpstreamOnce' /\ DeliveredIntact'
    BY DEF NothingYet, ReachesUpstreamOnce, DeliveredIntact, Intact, Ended
  <2> QED
    BY <1>0, <2>1, <2>2, <2>3, <2>4
<1>8. CASE ReadError
  <2> USE <1>8 DEF ReadError, Return
  <2>1. DataAccounted'
    BY DEF DataAccounted, Looping
  <2>2. BytesAccounted'
    BY DEF BytesAccounted, BufferBounded, Looping
  <2>3. CallsAccounted'
    BY DEF CallsAccounted, RetryBudget, Looping, OverCap
  <2>4. NothingYet' /\ ReachesUpstreamOnce' /\ DeliveredIntact'
    BY DEF NothingYet, ReachesUpstreamOnce, DeliveredIntact, Intact, Ended
  <2> QED
    BY <1>0, <2>1, <2>2, <2>3, <2>4
<1>9. CASE ReadEnd
  <2> USE <1>9 DEF ReadEnd
  <2>1. DataAccounted'
    BY DEF DataAccounted, Looping
  <2>2. BytesAccounted'
    BY DEF BytesAccounted, BufferBounded, Looping
  <2>3. CallsAccounted'
    BY <1>0 DEF CallsAccounted, RetryBudget, Looping, OverCap, TypeOK
  <2>4. NothingYet' /\ ReachesUpstreamOnce' /\ DeliveredIntact'
    BY DEF NothingYet, ReachesUpstreamOnce, DeliveredIntact, Intact, Ended
  <2> QED
    BY <1>0, <2>1, <2>2, <2>3, <2>4
<1>10. ASSUME pc \in Looping PROVE ~ OverCap /\ Filter(body, DataFrame) = buf /\ buf \in Seq(Frames)
  <2>1. frames = <<>>
    BY <1>10 DEF DataAccounted
  <2>2. Size(body) = buffered
    BY <1>0, <1>10, <2>1, SizeEmpty DEF BytesAccounted, BufferBounded, TypeOK
  <2>3. Filter(body, DataFrame) = buf \o <<>>
    BY <1>10, <2>1, FilterEmpty DEF DataAccounted
  <2> QED
    BY <1>0, <2>2, <2>3, MaxBufferAssumption DEF BytesAccounted, BufferBounded, OverCap, TypeOK
<1>11. CASE CallInner
  <2> USE <1>11 DEF CallInner, Invoke
  <2>0. pc \in Looping
    BY DEF Looping
  <2>1. DataAccounted'
    <3>1. Filter(buf, DataFrame) = buf
      BY FilterAll DEF DataAccounted
    <3> QED
      BY <1>10, <2>0, <3>1 DEF DataAccounted, Looping
  <2>2. BytesAccounted'
    BY DEF BytesAccounted, BufferBounded, Looping
  <2>3. CallsAccounted'
    BY <1>0, <1>10, <2>0 DEF CallsAccounted, RetryBudget, Looping, OverCap, NothingYet, Ended, TypeOK
  <2>4. NothingYet' /\ ReachesUpstreamOnce' /\ DeliveredIntact'
    BY DEF NothingYet, ReachesUpstreamOnce, DeliveredIntact, Intact, Ended
  <2> QED
    BY <1>0, <2>1, <2>2, <2>3, <2>4
<1>12. CASE Awake
  <2> USE <1>12 DEF Awake
  <2>1. DataAccounted'
    BY DEF DataAccounted, Looping
  <2>2. BytesAccounted'
    BY DEF BytesAccounted, BufferBounded, Looping
  <2>3. CallsAccounted'
    BY DEF CallsAccounted, RetryBudget, Looping, OverCap
  <2>4. NothingYet' /\ ReachesUpstreamOnce' /\ DeliveredIntact'
    BY DEF NothingYet, ReachesUpstreamOnce, DeliveredIntact, Intact, Ended
  <2> QED
    BY <1>0, <2>1, <2>2, <2>3, <2>4
<1>13. CASE InnerFails \/ InnerAnswers
  <2>0. /\ pc \in {"calling", "streaming"}
        /\ pc' = "returned"
        /\ response' \in {"answer", "failure"}
        /\ Send \/ UNCHANGED delivered
        /\ UNCHANGED <<body, attempts, frames, buf, buffered, out, attempt, calls>>
    BY <1>13 DEF InnerFails, InnerAnswers, Conclude, IsRetryable, Return
  <2>1. DataAccounted'
    BY <2>0 DEF DataAccounted, Looping
  <2>2. BytesAccounted'
    BY <2>0 DEF BytesAccounted, BufferBounded, Looping
  <2>3. CallsAccounted'
    BY <2>0 DEF CallsAccounted, RetryBudget, Looping, OverCap
  <2>4. NothingYet'
    BY <2>0 DEF NothingYet, Ended
  <2>5. ReachesUpstreamOnce' /\ DeliveredIntact'
    <3>1. CASE UNCHANGED delivered
      BY <2>0, <3>1 DEF ReachesUpstreamOnce, DeliveredIntact, Intact
    <3>2. CASE Send
      BY <2>0, <3>2, SendStep
    <3> QED
      BY <2>0, <3>1, <3>2
  <2> QED
    BY <1>0, <2>1, <2>2, <2>3, <2>4, <2>5
<1>14. CASE InnerCannotConnect
  <2>0. /\ pc \in {"calling", "streaming"}
        /\ UNCHANGED <<body, attempts, frames, buf, buffered, out, attempt, calls, delivered>>
        /\ \/ pc = "calling" /\ attempt < attempts /\ pc' = "sleeping" /\ response' = response
           \/ /\ ~ (pc = "calling" /\ attempt < attempts)
              /\ pc' = "returned"
              /\ response' = "connect"
    BY <1>14 DEF InnerCannotConnect, Conclude, IsRetryable, AttemptsLeft, Return
  <2>1. DataAccounted'
    BY <2>0 DEF DataAccounted, Looping
  <2>2. BytesAccounted'
    BY <2>0 DEF BytesAccounted, BufferBounded, Looping
  <2>3. CallsAccounted'
    <3>1. CASE pc = "calling"
      <4>1. pc \in Looping /\ calls = attempt /\ attempt <= attempts /\ ~ OverCap
        BY <1>10, <3>1 DEF Looping, CallsAccounted
      <4> QED
        BY <1>0, <2>0, <3>1, <4>1 DEF CallsAccounted, RetryBudget, Looping, OverCap, TypeOK
    <3>2. CASE pc = "streaming"
      BY <1>0, <2>0, <3>2 DEF CallsAccounted, RetryBudget, Looping, OverCap, TypeOK
    <3> QED
      BY <2>0, <3>1, <3>2
  <2>4. NothingYet' /\ ReachesUpstreamOnce' /\ DeliveredIntact'
    BY <2>0 DEF NothingYet, ReachesUpstreamOnce, DeliveredIntact, Intact, Ended
  <2> QED
    BY <1>0, <2>1, <2>2, <2>3, <2>4
<1>15. CASE DropFuture
  <2> USE <1>15 DEF DropFuture
  <2>1. DataAccounted'
    BY DEF DataAccounted, Looping
  <2>2. BytesAccounted'
    BY DEF BytesAccounted, BufferBounded, Looping
  <2>3. CallsAccounted'
    BY DEF CallsAccounted, RetryBudget, Looping, OverCap
  <2>4. NothingYet'
    BY DEF NothingYet, Ended
  <2>5. ReachesUpstreamOnce' /\ DeliveredIntact'
    <3>1. CASE UNCHANGED delivered
      BY <3>1 DEF ReachesUpstreamOnce, DeliveredIntact, Intact
    <3>2. CASE pc \in {"calling", "streaming"} /\ Send
      BY <3>2, SendStep
    <3> QED
      BY <3>1, <3>2
  <2> QED
    BY <1>0, <2>1, <2>2, <2>3, <2>4, <2>5
<1>16. CASE UNCHANGED vars
  <2> USE <1>16 DEF vars
  <2>1. DataAccounted' /\ BytesAccounted' /\ CallsAccounted'
    BY DEF DataAccounted, BytesAccounted, BufferBounded, CallsAccounted, RetryBudget, OverCap
  <2>2. NothingYet' /\ ReachesUpstreamOnce' /\ DeliveredIntact'
    BY DEF NothingYet, ReachesUpstreamOnce, DeliveredIntact, Intact
  <2> QED
    BY <1>0, <2>1, <2>2
<1>17. ReadData => \/ ReadData /\ Buffer(f) /\ Fits(f.size)
                   \/ ReadData /\ ForwardOnce /\ ~ Fits(f.size)
  BY DEF ReadData, f
<1> QED
  BY <1>3, <1>4, <1>5, <1>6, <1>7, <1>8, <1>9, <1>11, <1>12, <1>13, <1>14, <1>15, <1>16, <1>17
     DEF Next, Layer, Inner

\* The invariant holds in every state.
LEMMA Invariance == Spec => []IInv
BY InitInv, StepInv, PTL DEF Spec

--------------------------------------------------------------------------------

\* RetryLayer and its future: every variable has its type in every state.
THEOREM TypeCorrect == Spec => []TypeOK
<1>1. IInv => TypeOK
  BY DEF IInv
<1> QED
  BY Invariance, <1>1, PTL

\* "replaying it is safe for any method": whatever the inner service does on the attempts
\* of Retry::call, at most one request reaches the upstream.
THEOREM ReachesUpstreamOnceHolds == Spec => []ReachesUpstreamOnce
<1>1. IInv => ReachesUpstreamOnce
  BY DEF IInv
<1> QED
  BY Invariance, <1>1, PTL

\* buffer_body and the replay: what an upstream received is the client's data from its
\* start, and all of it if the request was sent whole, for a body of any length.
THEOREM DeliveredIntactHolds == Spec => []DeliveredIntact
<1>1. IInv => DeliveredIntact
  BY DEF IInv
<1> QED
  BY Invariance, <1>1, PTL

\* Retry::call and buffer_body stay within `attempts` and within max_buffer_bytes.
THEOREM WithinLimitsHolds == Spec => []WithinLimits
<1>1. IInv => WithinLimits
  BY DEF IInv, WithinLimits, CallsAccounted, BytesAccounted
<1> QED
  BY Invariance, <1>1, PTL

================================================================================
