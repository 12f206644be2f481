CONSTANTS
  HoldThreshold = 3
  Window = 2
  Lag = 1
  MaxClicks = 3
  Modules <- MCModules
  Levels = {0, 30, 150}
  Fades = {0, 300}
  Ids <- MCIds
  Mine <- MCMine
  MaxAir = 1
SPECIFICATION WireSpec
INVARIANTS
  ReportedAgrees
  RegistryFollows
  PressFollowsFinger
  ClicksConserved
PROPERTIES
  LongOnlyWhenHeld
  TellsAfterWindow
  GesturesAreTold
