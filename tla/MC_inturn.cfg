CONSTANTS
  a = a
  b = b
  c = c
  Scenarios = {a, b}
  Optional = {}
  Parents <- NoEdges
  FailFast = {}
  MaxPlrs = 4
  Settings <- TurnSettings
SPECIFICATION MCSpec
SYMMETRY Symmetry
CHECK_DEADLOCK FALSE
INVARIANTS
  ResultsRecorded
  PassedByTestOutput
  VerdictAgrees
  NewestRecorded
