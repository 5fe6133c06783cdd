CONSTANTS
  None = None
  TicksPerSecond = 1
  Policy <- MCPolicy
  Fingerprint <- TwoCases
  Analysts = {analyst}
  Workers = {worker}
  Requests <- MCRequests
  Levels <- MCLevels
  MaxTime = 2
SPECIFICATION Spec
INVARIANTS
  OneOpenCase
  StampsFollowStatus
PROPERTIES
  FrozenOnceSettled
  BulkIsWhole
