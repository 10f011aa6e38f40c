SPECIFICATION MCFairSpec
CONSTANTS
  g1 = g1
  g2 = g2
  b1 = b1
  b2 = b2
  o1 = o1
  c1 = c1
  c2 = c2
  NoImage = NoImage
  Groups = {g1, g2}
  Components = {c1}
  Builds = {b1, b2}
  Overrides = {o1}
  BuildOf <- OneComponent
  OverrideOf <- OverrideAll
  Latest = 2
  Models = {"componentgroup", "application"}
  Kinds <- Mixed
  CacheLag = TRUE
  MaxSnaps = 2
  Budgets <- AllBudgets
PROPERTIES
  FinalizerReleased
  
CHECK_DEADLOCK FALSE
