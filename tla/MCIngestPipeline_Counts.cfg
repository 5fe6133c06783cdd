CONSTANTS
  None = None
  Consumers = {w1, w2}
  Alerts <- ThreeOfOne
  Partitions <- MCPartitions
  BatchSize = 1
  MaxLen = 3
  DayLength = 2
  MaxTime = 0
  MaxQueued = 3
  MaxFaults = 0
SYMMETRY WriterSymmetry
SPECIFICATION Spec
INVARIANTS
  NoAlertIsUncounted
CHECK_DEADLOCK FALSE
