CONSTANTS
  Jobs = {j1, j2}
  None = None
  Scopes <- MCScopes
  Budget <- MCBudget
  MaxAttempts = 2
  Lease = 1
  DraftTime = 1
  Retry = 1
  Later = 1
  Day = 2
  Keep = 1
  MaxLag = 1
SPECIFICATION FairSpec
INVARIANTS TypeOK ModelCalledOnce CountedBudgetKept OutcomeTruthful
PROPERTIES SettledIsFinal JobsSettle
CHECK_DEADLOCK FALSE
