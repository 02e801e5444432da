CONSTANTS
  None = None
  Runs = {h1, h2}
  Workers = {w1}
  MaxQueue = 1
  MaxRetained = 1
SPECIFICATION FairSpec
PROPERTY DeadlineRevokesControl
CHECK_DEADLOCK FALSE
