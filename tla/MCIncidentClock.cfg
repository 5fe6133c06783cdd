CONSTANTS
  None = None
  TicksPerSecond = 2
  Severities <- MCSeverities
  Policies <- MCPolicies
  Stamps <- MCStamps
  StartTime = 1
  MaxTime = 6
SPECIFICATION Spec
INVARIANTS
  HeldTimeIsNotOvercounted
PROPERTIES
  FrozenOnceAnswered
  VerdictsStand
  ImplementsStopwatch
