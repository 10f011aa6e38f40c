SPECIFICATION MCSpec
CONSTANTS
  g1 = g1
  g2 = g2
  g3 = g3
  c1 = c1
  c2 = c2
  p1 = p1
  p2 = p2
  Groups = {g1, g2, g3}
  Components = {c1, c2}
  Plans = {p1, p2}
  MaxSnapshots = 5
  StartTimes = {2, 20, 25}
  SecondsMax = 9
  Scale = 10
  KeepPr = 1
  KeepNonPr = 1
  KeepPerComponent = 1
CHECK_DEADLOCK FALSE
INVARIANTS
  OneReleasePerPlan
  ReleasedAtRest
  ParentsAtRest
  CollectorIsRight
PROPERTIES
  ReleasedInOrder
