CONSTANTS
  a = a
  b = b
  c = c
  Scenarios = {a}
  Optional = {}
  Parents <- NoEdges
  FailFast = {}
  MaxPlrs = 3
  Settings <- FairSettings
SPECIFICATION MCFairSpec
CHECK_DEADLOCK FALSE
PROPERTIES
  RerunTaken
  EventuallyDecided
