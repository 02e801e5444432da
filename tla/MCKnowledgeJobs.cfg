CONSTANTS
  None = None
  RequeueMax = 1
  MaxRequests = 3
  MaxFaults = 2
SPECIFICATION FairSpec
INVARIANTS TypeOK CurrentBrief AttemptOwned
PROPERTY JobsEnd
CHECK_DEADLOCK FALSE
