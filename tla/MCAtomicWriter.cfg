CONSTANTS
  Editors = {e1, e2, e3}
  Replacers = {d1}
  Nobody = Nobody
SYMMETRY Symmetry
SPECIFICATION WriterSpec
INVARIANTS
  OverlapNeedsThree
  ChangesSurvive
  FailuresLeaveNoTrace
CHECK_DEADLOCK FALSE
