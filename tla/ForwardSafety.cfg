\* Two attempts that may share a guard, and a second guard: every race for a slot,
\* every way out of the future, the body and the tunnel, in every interleaving.
CONSTANTS
  a1 = a1
  a2 = a2
  g1 = g1
  g2 = g2
  NoGuard = NoGuard
  Attempts = {a1, a2}
  Guards = {g1, g2}
  UpstreamTimeout = TRUE
SPECIFICATION Spec
SYMMETRY Symmetry
INVARIANTS TypeOK ReleasedExactlyOnce OneTaker WorkIsCovered TransportsDropFirst NoOrphanDriver
           CancellationWins
PROPERTIES ImplementsLease
\* The system rests when every request has been answered.
CHECK_DEADLOCK FALSE
