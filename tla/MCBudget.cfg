CONSTANTS
  Budgets <- MCBudgets
  AnchorIds = {1, 2}
  Lengths = {3}
  MaxUsize = 7
  MaxEvents = 5
SPECIFICATION Spec
CHECK_DEADLOCK FALSE
INVARIANTS
  BudgetTypeOK
  WithinBudget
  BreachIsFirst
  RatioRespected
