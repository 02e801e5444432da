CONSTANTS
  Jobs = {j1, j2}
  None = None
  Scopes <- MCScopes
  Budget <- MCBudget
  MaxAttempts = 1
  Lease = 1
  DraftTime = 1
  Retry = 1
  Later = 1
  Day = 1
  Keep = 7
  MaxLag = 0
SPECIFICATION Spec
INVARIANT BudgetKept
CHECK_DEADLOCK FALSE
