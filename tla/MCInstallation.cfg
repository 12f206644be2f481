CONSTANTS
  mr = mr
  mq = mq
  mi = mi
  z = z
  x = x
  y = y
  c1 = c1
  b1 = b1
  Macs = {mr, mq, mi}
  InputMacs = {mi}
  Ips = {x, y, z}
  Channels = {c1}
  Buttons = {b1}
  NoMac = NoMac
  None = None
  Patches = {p1}
  Imports = {i1}
  Discoveries = {d1, d2}
  Refreshes = {f1}
  Boot = boot
  Documents <- MCDocuments
  Importable <- MCImportable
  Hardware <- MCHardware
  Bare = {}
  AutoDiscover = FALSE
  MaxMoves = 1
  MaxCalls = 2
  MaxBoots = 2
SYMMETRY Symmetric
SPECIFICATION Spec
INVARIANTS
  FileLoads
  EditsSurvive
  LabelsBelong
  RuntimeFollowsFile
  ServedIsRegistered
CHECK_DEADLOCK FALSE
