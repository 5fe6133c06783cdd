CONSTANTS
  Start = Start
  Ids = {1, 2}
  Stamps = {1, 2}
  Versions = {1, 2}
  Deployed = 1
  Failed = 0
  Broken <- MCBroken
  Jobs = {j1, j2}
  MonthDays = 2
  Retention = 3
  Premake = 1
  Batch = 1
  Limit = 1
  Ranges <- MCRanges
  MaxTime = 5
  MaxFaults = 1
SYMMETRY MCJobsAlike
SPECIFICATION Spec
CHECK_DEADLOCK FALSE
INVARIANTS
  ListIsWhole
PROPERTIES
  PartitionsFollowRetention
  ReplayReachesAll
