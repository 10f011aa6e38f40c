CONSTANTS
  a = a
  b = b
  c = c
  Scenarios = {a, b, c}
  Optional = {c}
  Parents <- Chain
  FailFast <- ChainFailFast
  MaxPlrs = 3
  Settings <- GraphSettings
SPECIFICATION GraphSpec
CHECK_DEADLOCK FALSE
INVARIANTS
  FinalizerHeld
PROPERTIES
  DependentsWait
