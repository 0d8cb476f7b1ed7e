SPECIFICATION Spec
CONSTANTS
  testnet = testnet
  mainnet = mainnet
  futurenet = futurenet
  MaxRequests = 3
  Networks <- MCNetworks
  Configured <- MCConfigured
  Responsive <- MCResponsive
  Ttl = 2
  MaxNow = 2
  None = None
CHECK_DEADLOCK FALSE
INVARIANTS
  TypeOK
  AnswersAreFresh
PROPERTIES
  AskedAgainOnlyIfOverwritten
  QueriesSettle
