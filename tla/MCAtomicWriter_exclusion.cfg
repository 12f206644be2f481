CONSTANTS
  Editors = {e1, e2, e3}
  Replacers = {}
  Nobody = Nobody
SPECIFICATION WriterSpec
INVARIANT
  LockHeldAcross
CHECK_DEADLOCK FALSE
