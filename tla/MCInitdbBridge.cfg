SPECIFICATION Spec
CONSTANTS
  Calls = {c1, c2, c3}
  Progress = Progress
  Codes <- MCCodes
  MaxText = 2
SYMMETRY Symmetry
INVARIANTS
  PcloseTellsOwn
  ReadsItsPipe
  RunsAtMostOnce
CHECK_DEADLOCK FALSE
