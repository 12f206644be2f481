CONSTANTS
  Clients = {c1}
  Senders = {s1, s2, s3, s4}
  RemoteDebugging = TRUE
  Requests <- MCRequests
  Installed = {20}
  Network <- MCNetwork
  Special = {99}
  HubPort = 1001
  MaxBytes = 2
  DefaultWindow = 2
  MaxWindow = 3
  QueueSize = 2
  ClientLimit = 2
  GlobalLimit = 3
  RateWindow = 2
  MaxClients = 3
  MaxClock = 3
  MaxFrames = 5
SPECIFICATION MCSpec
SYMMETRY SenderSymmetry
INVARIANTS
  FramesAreTold
  LimitsHold
CHECK_DEADLOCK FALSE
