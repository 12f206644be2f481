CONSTANTS
  m1 = m1
  m2 = m2
  c1 = c1
  Modules = {m1, m2}
  Channels = {c1}
  Dimmers = {m2}
  Echoing = {m1}
  Commands = {}
  RawSends = {r1}
  Orders <- MCOrders
  Probes <- MCProbes
  SweepKeys <- MCSweepKeys
  Timeout = 3
  Window = 3
  AvgSamples = 2
  MaxReplies = 1
  QueueMax = 2
  RecentMax = 1
  PollEvery = 9
  Lag = 1
  MaxClock = 6
SPECIFICATION Spec
PROPERTY
  HoldFreezesStatus
CHECK_DEADLOCK FALSE
