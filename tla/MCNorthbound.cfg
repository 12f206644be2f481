CONSTANTS
  c1 = c1
  c2 = c2
  Order <- MCOrder
  MaxMessages = 3
  MaxEdits = 1
SPECIFICATION Spec
INVARIANTS
  CurrentUnlessBehindSlow
  AddedBeforeEvent
PROPERTY EveryClientIsServed
CHECK_DEADLOCK FALSE
