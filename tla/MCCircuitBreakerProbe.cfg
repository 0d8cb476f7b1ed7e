SPECIFICATION Spec
CONSTANTS
  c1 = c1
  c2 = c2
  c3 = c3
  Callers <- MCCallers
  FailureThreshold = 2
  RecoveryTime = 2
  MaxFailures = 4
INVARIANTS
  HalfOpenAllowsOneProbe
