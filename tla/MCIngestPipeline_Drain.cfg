CONSTANTS
  None = None
  Consumers = {w1, w2}
  Alerts <- OneCase
  Partitions <- MCPartitions
  BatchSize = 1
  MaxLen = 2
  DayLength = 1
  MaxTime = 0
  MaxQueued = 2
  MaxFaults = 1
SPECIFICATION FairSpec
PROPERTIES
  AcceptedIsFiled
CHECK_DEADLOCK FALSE
