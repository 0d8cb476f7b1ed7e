SPECIFICATION SimFairSpec
CONSTANTS
  r1 = r1
  r2 = r2
  r3 = r3
  Callers <- MCCallers
  MaxRetries = 1
  FailureThreshold = 3
  RecoveryTime = 2
  MaxFailures = 4
INVARIANTS
  SimTypeOK
  WorkIsBounded
  SheddingNeedsManyRequests
  ShedIsFinal
PROPERTIES
  FootprintIsDelivered
  EveryRequestSettles
CHECK_DEADLOCK FALSE
