CONSTANTS
  RemoteDebugging = TRUE
  Clients = {c1}
  Rest = {q1}
  Levels = {1, 2}
  Baseline = 2
  Ttls = {0, 1, 2, 3}
  MaxTtl = 2
  RateLimit = 2
  RateWindow = 2
  BufferSize = 2
  QueueSize = 1
  Lag = 1
  MaxLines = 4
SPECIFICATION Spec
INVARIANTS
  LinesInOrder
  DropsAreTold
  PromiseKept
  LevelComesBack
CHECK_DEADLOCK FALSE
