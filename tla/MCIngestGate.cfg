CONSTANTS
  None = None
  Handlers = {h1, h2}
  Alerts <- MCAlerts
  Count <- MCCount
  SoftTtl = 1
  NegativeTtl = 1
  HardTtl = 2
  Skew = 1
  Margin = 1
  Limit = 2
  Window = 2
  MaxBatch = 2
  Attempts = 2
  ClockErrors <- MCClockErrors
  MaxTime = 3
  MaxEdits = 1
  MaxFaults = 1
SPECIFICATION Spec
SYMMETRY HandlerSymmetry
CHECK_DEADLOCK FALSE
INVARIANTS
  SignatureSpentOnce
  RetiredRowDies
  RetryIsNotReplay
  LimitIsExact
  DeliveredIsQueued
