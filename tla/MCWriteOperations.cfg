SPECIFICATION FairSpec
CONSTANTS
  Operations = {o1, o2}
  Requests = {q1, q2}
  Approvals = {plain}
  None = None
  MaxRewinds = 1
INVARIANTS TypeOK AppliedOnce ToldOnce PointerConsistent UndoOffered
PROPERTIES TerminalFrozen DeliveryConverges PromiseKept
CHECK_DEADLOCK FALSE
