SPECIFICATION Spec
CONSTANTS
  Publishers = {p1, p2}
  RingCapacity = 4
  Capacity = 8
  MaxSeq = 3
  MaxReconnects = 1
  MaxRestarts = 0
INVARIANT NoSilentGapAtAll
CHECK_DEADLOCK FALSE
