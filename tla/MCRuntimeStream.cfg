CONSTANTS
  Readers = {r1, r2}
  Sizes = {1, 3}
  Overhead = 1
  RingMaxEvents = 3
  RingMaxBytes = 2
  SubMaxEvents = 3
  SubMaxBytes = 7
  MaxEvents = 4
  MaxEventBytes = 8
  MaxEmits = 5
SPECIFICATION FairSpec
INVARIANTS TypeOK EndMeansComplete Bounded
PROPERTIES NoSilentGap StreamsEnd
CHECK_DEADLOCK FALSE
