CONSTANTS
  None = None
  Consumers = {w1, w2}
  Alerts <- OneCase
  Partitions <- MCPartitions
  BatchSize = 2
  MaxLen = 1
  DayLength = 2
  MaxTime = 1
  MaxQueued = 2
  MaxFaults = 1
SYMMETRY WriterSymmetry
SPECIFICATION Spec
CHECK_DEADLOCK FALSE
INVARIANTS
  AcknowledgedIsFiled
  OneOpenCase
  RedeliveryIsNotCounted
  AnnouncedExists
PROPERTIES
  ImplementsLedger
