CONSTANTS
  None = None
  Runs = {h1, h2, h3}
  Workers = {w1}
  MaxQueue = 1
  MaxRetained = 1
SPECIFICATION Spec
INVARIANTS TypeOK QueueWithinCapacity PublishedOnce EndedReleases RetentionBounded
PROPERTIES ResultIsFinal NoLateStart CompletionWins
SYMMETRY MCSymmetry
CHECK_DEADLOCK FALSE
