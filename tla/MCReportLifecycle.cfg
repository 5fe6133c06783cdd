CONSTANTS
  None = None
  Requests = {r1, r2}
  Cases = {c1}
  MaxReports = 2
  MaxRequests = 3
  Periods <- MCPeriods
  MaxTime = 1
SPECIFICATION Spec
SYMMETRY RequestSymmetry
PROPERTIES
  NumbersAreSequential
  UntouchedFiguresAgree
  IssuedIsFinalOnceSettled
