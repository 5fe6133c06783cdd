CONSTANTS
  Absent = Absent
  t1 = t1
  t2 = t2
  Tenants <- MCTenants
  Agents <- MCAgents
  NoAddress <- MCNoAddress
  FirstGroups <- MCFirstGroups
  Sweeps = {s1, s2}
  AgentPage = 1
  MaxAgents = 3
  MaxRows = 2
  MaxEvents = 1
SPECIFICATION SyncSpec
INVARIANTS
  SyncedAtIsHonest
PROPERTIES
  QuietSweepIsExact
  SweepEnds
