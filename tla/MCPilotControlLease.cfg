CONSTANTS
  c1 = c1
  t1 = t1
  t2 = t2
  o1 = o1
  None = None
  Conversations = {c1}
  Turns = {t1, t2}
  ConvOf <- MCConvOf
  Operations = {o1}
  LegacyPending <- MCLegacy
  Controls = {k1}
  WorkerKinds = {"plain", "recovery", "title"}
  WorkerResults = {"completed", "waiting_confirmation", "failed", "interrupted", "result_unknown"}
  Commands = {m1}
  LeaseMs = 2
  MaxGen = 2
  MaxSeq = 2
  MaxEpoch = 2
  MaxJumps = 1
SPECIFICATION FairSpec
INVARIANT TurnAgrees
PROPERTIES AbandonedConverges StopIsRespected
