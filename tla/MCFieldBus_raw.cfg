CONSTANTS
  m1 = m1
  m2 = m2
  c1 = c1
  Modules = {m1, m2}
  Channels = {c1}
  Dimmers = {m2}
  Echoing = {m1}
  Commands = {k1}
  RawSends = {r1, r2}
  Orders <- MCOneOrder
  Probes <- MCProbes
  SweepKeys <- MCNoSweep
  Timeout = 3
  Window = 4
  AvgSamples = 2
  MaxReplies = 2
  QueueMax = 2
  RecentMax = 1
  PollEvery = 9
  Lag = 1
  MaxClock = 6
SPECIFICATION Spec
INVARIANTS
  RawRepliesComplete
  MissesAreReal
  NoMissForgotten
PROPERTIES
  HeldForRawSends
CHECK_DEADLOCK FALSE
