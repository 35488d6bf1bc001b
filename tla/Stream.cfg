SPECIFICATION FairSpec
CONSTANTS
  NoLimit = NoLimit
  Budgets <- MCBudgets
  Timeout = 3
  MaxOutput = 4
  MaxTime = 8
INVARIANTS
  TypeOK
  VerdictMatchesSpool
  FinishedIsBelieved
  StopsOnTime
PROPERTIES
  StreamReturns
CHECK_DEADLOCK FALSE
