CONSTANTS
  a = a
  b = b
  c = c
  Scenarios = {a, b}
  Optional = {}
  Parents <- NoEdges
  FailFast = {}
  MaxPlrs = 3
  Settings <- OverlapSettings
SPECIFICATION MCSpec
SYMMETRY Symmetry
CHECK_DEADLOCK FALSE
INVARIANTS
  TypeOK
  PassedIsEarned
  StartedWhenReady
  FinalizersRemoved
  OneRunPerScenario
