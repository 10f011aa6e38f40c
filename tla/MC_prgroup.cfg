SPECIFICATION MCSpec
CHECK_DEADLOCK FALSE
CONSTANTS
  c1 = c1
  c2 = c2
  NB = 3
  Components = {c1, c2}
  ComponentOf <- OneRebuilt
  MaxGroups = 3
  Budgets <- AllBudgets
INVARIANTS
  
  
  CanceledForNewer
  
