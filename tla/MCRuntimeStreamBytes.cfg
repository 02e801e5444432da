CONSTANTS
  Readers = {r1}
  Sizes = {1, 2}
  Overhead = 1
  RingMaxEvents = 3
  RingMaxBytes = 5
  SubMaxEvents = 3
  SubMaxBytes = 7
  MaxEvents = 5
  MaxEventBytes = 5
  MaxEmits = 6
SPECIFICATION Spec
INVARIANT RingBytesBounded
CHECK_DEADLOCK FALSE
