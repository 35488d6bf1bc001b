SPECIFICATION Spec
CONSTANTS
  NoLimit = NoLimit
  Budgets <- MCBudgets
  Timeout = 3
  MaxOutput = 4
  MaxTime = 8
INVARIANTS
  TailKept
CHECK_DEADLOCK FALSE
