CONSTANTS
  c1 = c1
  t1 = t1
  t2 = t2
  o1 = o1
  None = None
  Conversations = {c1}
  Turns = {t1, t2}
  ConvOf <- MCConvOf
  Operations = {o1}
  LegacyPending <- MCNoLegacy
  Controls = {k1, k2}
  WorkerKinds = {"fenced", "recovery", "title"}
  WorkerResults = {"completed"}
  Commands = {}
  LeaseMs = 1
  MaxGen = 2
  MaxSeq = 2
  MaxEpoch = 1
  MaxJumps = 0
SPECIFICATION Spec
INVARIANTS TypeOK SingleOwner NoOrphanPending
PROPERTIES TerminalIsFinal ImplementsOwnership
SYMMETRY MCSymmetry
