----------------------------- MODULE PeakEwmaProofs ----------------------------
(***************************************************************************)
(* The latency metric never exceeds what was measured, and holds its peak,  *)
(* for any number of threads, any latencies and any decay that satisfies    *)
(* DecayAssumption.                                                         *)
(***************************************************************************)
EXTENDS PeakEwma, TLAPS

\* What update_ewma works with between its steps is bounded as well: the measurement it
\* carries and the value it loaded.
CarriedBelow == \A u \in Updates : latency[u] <= slowest /\ current[u] <= slowest

IInv == TypeOK /\ NeverAboveMeasurements /\ CarriedBelow

\* The average of update_ewma lies between the decayed value and the larger of the two.
LEMMA EwmaBounds ==
  ASSUME NEW old \in Nat, NEW new \in Nat
  PROVE  /\ Ewma(old, new) \in Nat
         /\ old <= Ewma(old, new)
         /\ \A m \in Nat : old <= m /\ new <= m => Ewma(old, new) <= m
  <1> DEFINE top == IF old > new THEN old ELSE new
  <1>1. top \in Nat /\ top >= old
    OBVIOUS
  <1>2. \A m \in Nat : old <= m /\ new <= m => top <= m
    OBVIOUS
  <1> HIDE DEF top
  <1>3. /\ (top + 3 * old) \div 4 \in Nat
        /\ old <= (top + 3 * old) \div 4
        /\ (top + 3 * old) \div 4 <= top
    BY <1>1
  <1>4. Ewma(old, new) = (top + 3 * old) \div 4
    BY DEF Ewma, top
  <1> QED BY <1>1, <1>2, <1>3, <1>4

\* A value that was within the measurements decays to a natural number not above it.
LEMMA DecayBounds ==
  ASSUME NEW m \in 0..MaxLatency, NEW v \in Nat, v <= m, NEW t \in 0..MaxTime
  PROVE  Decay(v, t) \in Nat /\ Decay(v, t) <= v /\ Decay(v, 0) = v
  <1>1. v \in 0..MaxLatency
    BY BoundsAssumption
  <1>2. Decay(v, t) \in 0..v /\ Decay(v, 0) = v
    BY <1>1, DecayAssumption
  <1> QED BY <1>2

\* ServiceMetrics::new satisfies the invariant.
LEMMA InitInv == Init => IInv
  BY BoundsAssumption DEF Init, IInv, TypeOK, NeverAboveMeasurements, CarriedBelow, Threads

\* Every step of a thread or of the clock preserves it.
LEMMA StepInv == IInv /\ [Next]_vars => IInv'
  <1> SUFFICES ASSUME IInv, [Next]_vars PROVE IInv'
    OBVIOUS
  <1> USE BoundsAssumption DEF IInv, TypeOK, NeverAboveMeasurements, CarriedBelow, Threads, Goto
  <1>1. ASSUME NEW u \in Updates, NEW l \in Latencies, Measure(u, l) PROVE IInv'
    <2>1. l \in 0..MaxLatency
      OBVIOUS
    <2>2. slowest' \in 0..MaxLatency /\ slowest <= slowest' /\ l <= slowest'
      BY <1>1, <2>1 DEF Measure
    <2>3. TypeOK'
      BY <1>1, <2>2 DEF Measure
    <2>4. NeverAboveMeasurements' /\ CarriedBelow'
      BY <1>1, <2>1, <2>2 DEF Measure
    <2> QED BY <2>3, <2>4
  <1>2. ASSUME NEW u \in Updates, Load(u) PROVE IInv'
    BY <1>2 DEF Load
  <1>3. ASSUME NEW u \in Updates, CasFirst(u) PROVE IInv'
    BY <1>3 DEF CasFirst
  <1>4. ASSUME NEW u \in Updates, TakeInstant(u) PROVE IInv'
    BY <1>4 DEF TakeInstant
  <1>5. ASSUME NEW u \in Updates, StampFirst(u) PROVE IInv'
    BY <1>5 DEF StampFirst
  <1>6. ASSUME NEW u \in Updates, Lock(u) PROVE IInv'
    BY <1>6 DEF Lock
  <1>7. ASSUME NEW u \in Updates, CasUpdate(u) PROVE IInv'
    <2> DEFINE old == Decay(current[u], elapsed[u])
    <2>1. old \in Nat /\ old <= slowest
      <3>1. elapsed[u] \in 0..MaxTime /\ current[u] \in Nat /\ current[u] <= slowest
        OBVIOUS
      <3>2. slowest \in 0..MaxLatency
        OBVIOUS
      <3>3. old \in Nat /\ old <= current[u]
        BY ONLY <3>1, <3>2, DecayBounds
      <3> HIDE DEF old
      <3> QED BY ONLY <3>1, <3>2, <3>3, BoundsAssumption
    <2>2. latency[u] \in Nat /\ latency[u] <= slowest /\ slowest \in Nat
      OBVIOUS
    <2> HIDE DEF old
    <2>3. Ewma(old, latency[u]) \in Nat /\ Ewma(old, latency[u]) <= slowest
      BY ONLY <2>1, <2>2, EwmaBounds
    <2>4. peak' \in Nat /\ peak' <= slowest
      BY <1>7, <2>3 DEF CasUpdate, old
    <2> QED BY <1>7, <2>4 DEF CasUpdate
  <1>8. ASSUME NEW u \in Updates, Restamp(u) PROVE IInv'
    BY <1>8 DEF Restamp
  <1>9. ASSUME NEW r \in Readers, ReadStamp(r) PROVE IInv'
    BY <1>9 DEF ReadStamp
  <1>10. ASSUME NEW r \in Readers, ReadAge(r) PROVE IInv'
    BY <1>10 DEF ReadAge
  <1>11. ASSUME NEW r \in Readers, ReadPeak(r) PROVE IInv'
    <2> DEFINE aged == Decay(peak, elapsed[r])
    <2>1. aged \in Nat /\ aged <= slowest
      <3>1. elapsed[r] \in 0..MaxTime /\ peak \in Nat /\ peak <= slowest
        OBVIOUS
      <3>2. slowest \in 0..MaxLatency
        OBVIOUS
      <3>3. aged \in Nat /\ aged <= peak
        BY ONLY <3>1, <3>2, DecayBounds
      <3> HIDE DEF aged
      <3> QED BY ONLY <3>1, <3>2, <3>3, BoundsAssumption
    <2>2. loaded' = [loaded EXCEPT ![r] = aged]
      BY <1>11 DEF ReadPeak
    <2> HIDE DEF aged
    <2> QED BY <1>11, <2>1, <2>2 DEF ReadPeak
  <1>12. CASE Tick
    BY <1>12 DEF Tick
  <1>13. CASE UNCHANGED vars
    BY <1>13 DEF vars
  <1> QED
    BY <1>1, <1>2, <1>3, <1>4, <1>5, <1>6, <1>7, <1>8, <1>9, <1>10, <1>11, <1>12, <1>13
    DEF Next, Update, Read

\* Every variable keeps its type, and no instant is in the future, for all constants.
THEOREM TypeCorrect == Spec => []TypeOK
  <1>1. IInv => TypeOK
    BY DEF IInv
  <1> QED BY InitInv, StepInv, <1>1, PTL DEF Spec

\* The metric and every load read from it stay within the latencies measured.
THEOREM MetricBounded == Spec => []NeverAboveMeasurements
  <1>1. IInv => NeverAboveMeasurements
    BY DEF IInv
  <1> QED BY InitInv, StepInv, <1>1, PTL DEF Spec

\* Only an update that found the value aged lowers it.
THEOREM PeakIsHeld == Spec => PeakHolds
  <1> DEFINE Held == peak' < peak => \E u \in Updates : pc[u] = "cas" /\ elapsed[u] > 0
  <1>1. IInv /\ [Next]_vars => [Held]_vars
    <2> SUFFICES ASSUME IInv, Next, peak' < peak
                 PROVE  \E u \in Updates : pc[u] = "cas" /\ elapsed[u] > 0
      BY DEF vars
    <2> USE BoundsAssumption DEF IInv, TypeOK, NeverAboveMeasurements, CarriedBelow, Threads
    <2>1. PICK u \in Updates : CasUpdate(u)
      <3>1. ASSUME peak' = peak PROVE FALSE
        BY <3>1
      <3>2. ASSUME NEW u \in Updates, CasFirst(u) PROVE FALSE
        BY <3>2 DEF CasFirst
      <3> QED
        BY <3>1, <3>2 DEF Next, Update, Read, Measure, Load, TakeInstant, StampFirst, Lock,
                          Restamp, ReadStamp, ReadAge, ReadPeak, Tick
    <2>2. peak = current[u]
      BY <2>1 DEF CasUpdate
    <2>3. pc[u] = "cas" /\ peak' = Ewma(Decay(peak, elapsed[u]), latency[u])
      BY <2>1, <2>2 DEF CasUpdate
    <2>4. ASSUME elapsed[u] = 0 PROVE FALSE
      <3>1. Decay(peak, 0) = peak
        <4>1. 0 \in 0..MaxTime
          OBVIOUS
        <4>2. slowest \in 0..MaxLatency /\ peak \in Nat /\ peak <= slowest
          OBVIOUS
        <4> QED BY ONLY <4>1, <4>2, DecayBounds
      <3>2. peak' = Ewma(peak, latency[u])
        BY <2>3, <2>4, <3>1
      <3>3. latency[u] \in Nat /\ peak \in Nat
        OBVIOUS
      <3>4. peak <= peak' /\ peak' \in Nat
        BY <3>2, <3>3, EwmaBounds
      <3> QED BY <3>3, <3>4
    <2>5. elapsed[u] \in Nat
      OBVIOUS
    <2> QED BY <2>3, <2>4, <2>5
  <1> QED BY InitInv, StepInv, <1>1, PTL DEF Spec, PeakHolds
================================================================================
