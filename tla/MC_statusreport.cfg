SPECIFICATION MCSpec
CONSTANTS
  a = a
  b = b
  Scenarios = {a, b}
  Optional = {b}
  MaxDests = 2
  MaxUpdates = 3
  MaxIndividualStatuses = 1
  Layouts <- AllLayouts
  Budgets <- AllBudgets
CHECK_DEADLOCK FALSE

  
  
PROPERTIES
  ComesToRest
