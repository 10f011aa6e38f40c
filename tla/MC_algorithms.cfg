CONSTANTS
  N = 4
  a = a
  b = b
  c = c
  d = d
  e = e
  Scenarios = {a, b, c, d, e}
  Optional = {}
  Parents <- Diamond
  FailFast <- DiamondFailFast
  MaxPlrs = 1
  InitialDetails <- SomeDetails
  x = x
  y = y
  z = z
  p = p
  q = q
  Root = Root
  Gone = Gone
  Groups = {Root, x, y, z}
  Parts = {p, q}
  MaxDepth = 2
  Nestings <- SomeNestings
  Lists <- SomeLists
  Origins <- SomeOrigins
SPECIFICATION MCFairSpec
CHECK_DEADLOCK FALSE
INVARIANTS
  CheckIsExact
  CascadeIsClosure
  ContentsAreRight
PROPERTIES
  AllEnd
