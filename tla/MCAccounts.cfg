CONSTANTS
  None = None
  a1 = a1
  a2 = a2
  n = n
  t1 = t1
  Users <- MCUsers
  Tenants <- MCTenants
  FirstUsers <- MCFirstUsers
  Visitor <- MCVisitor
  Handlers = {h1, h2}
  AccessTtl = 1
  RefreshTtl = 3
  MaxTime = 3
  MaxPairs = 2
  MaxEvents = 2
SPECIFICATION Spec
SYMMETRY HandlerSymmetry
CHECK_DEADLOCK FALSE
INVARIANTS
  SpentIsRefused
  PageKeepsItsSession
PROPERTIES
  LastAdminGoesOnlyInARace
  RolesStayInBounds
