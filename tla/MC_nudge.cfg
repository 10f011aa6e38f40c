SPECIFICATION MCSpec
CONSTANTS
  b1 = b1
  b2 = b2
  c1 = c1
  c2 = c2
  t1 = t1
  Builds = {b1, b2}
  Sources = {c1, c2}
  Targets = {t1}
  FromOf <- TwoSources
  Configs <- AllConfigs
  Budgets <- AllBudgets
  MaxRetries = 1
  MaxBatches = 2
SYMMETRY Swap
CHECK_DEADLOCK FALSE
INVARIANTS
  OneBatchPerTarget
  NoRecordLost
  PartialOnlyIfForced

  
