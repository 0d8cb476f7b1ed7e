SPECIFICATION PodFairSpec
CONSTANTS
  c1 = c1
  c2 = c2
  c3 = c3
  Callers <- MCCallers
  Responsive <- MCCallers
  FailureThreshold = 2
  RecoveryTime = 3
  MaxFailures = 4
  MaxFollowUps = 1
  ProbePeriod = 2
  ProbeFailures = 3
PROPERTY RecoversBehindReadiness
