CONSTANTS
  Macs = {a}
  Ips = {x, y}
  None = None
  N = 2
  Infos <- MCInfos
  MaxUuids = 2
SPECIFICATION GatewaySpec
INVARIANTS
  SeenIsReachable
  GoneIsReported
  HealthIsTold
  AddonAnnouncesLan
  NothingToldIsLeft
PROPERTIES
  EventsMatchIssues
  ListedAgain
CHECK_DEADLOCK FALSE
