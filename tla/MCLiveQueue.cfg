CONSTANTS
  None = None
  c1 = c1
  Cases = {c1}
  Scope = {c1}
  Workers = {worker}
  Analysts = {}
  MaxChanges <- MCTwice
  MaxFaults = 1
SPECIFICATION FairSpec
INVARIANTS
  PillCountsEachOnce
  
PROPERTIES
  MergeShowsTheNewCases
  ScreenRecovers
