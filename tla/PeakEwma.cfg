\* Three updates and a reader: a race for the first measurement, one update that loses it
\* or finds it unstamped, and one more that loses the swap.  Latencies far enough apart
\* for the average to move, two units of time.
CONSTANTS
  u1 = u1
  u2 = u2
  u3 = u3
  r1 = r1
  Free = Free
  Updates = {u1, u2, u3}
  Readers = {r1}
  Latencies = {1, 8}
  MaxLatency = 8
  MaxTime = 2
  Decay <- Halved
SPECIFICATION FairSpec
INVARIANTS TypeOK NeverAboveMeasurements
PROPERTIES PeakHolds EveryUpdateEnds
\* The system rests when every update has been made and every value read.
CHECK_DEADLOCK FALSE
