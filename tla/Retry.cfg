\* Frames of no, one, two and three bytes against a buffer of three, so that bodies end
\* below, at and above the cap, with trailers, without, and with an error; no, one, two
\* and three configured attempts.
CONSTANTS
  FrameSizes = {0, 1, 2, 3}
  MaxFrames = 3
  Bodies <- MCBodies
  Configured = {0, 1, 2, 3}
  MaxBuffer = 3
SPECIFICATION FairSpec
INVARIANTS TypeOK ReachesUpstreamOnce DeliveredIntact WithinLimits
PROPERTIES CallEnds
CHECK_DEADLOCK FALSE
