SPECIFICATION Spec
CONSTANTS
  Operations = {o1, o2}
  Requests = {q1, q2}
  Approvals = {plain}
  None = None
  MaxRewinds = 0
SYMMETRY RequestSymmetry
PROPERTIES DeliverySettlesUndo
CHECK_DEADLOCK FALSE
