SPECIFICATION Spec
CONSTANTS
  NoLimit = NoLimit
  Budgets <- MCBudgets
  Timeout = 4
  MaxOutput = 4
  MaxTime = 8
INVARIANTS
  DeadlineEnforced
CHECK_DEADLOCK FALSE
