CONSTANTS
  Macs = {a, b}
  Ips = {x, y}
  None = None
  N = 3
SPECIFICATION Spec
PROPERTY
  RemovedAfterConsecutive
