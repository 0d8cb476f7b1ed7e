SPECIFICATION Spec
CONSTANTS
  r1 = r1
  r2 = r2
  address = address
  tokenHash = tokenHash
  otherHash = otherHash
  Requests <- MCRequests
  Footprints <- MCFootprints
  Codes <- MCCodes
  Wasms <- MCWasms
  NamesIn <- MCNamesIn
  Costs <- MCCosts
  LatestLedger = 1000
  Modulus = 2048
  None = None
  NoFee = NoFee
SYMMETRY RequestSymmetry
CHECK_DEADLOCK FALSE
INVARIANTS
  OptimizerLosesOnlyCollisions
  TtlIsAttributed
  TokenIsEarned
  FeesAgree
PROPERTIES
  SettledTypeIsFinal
