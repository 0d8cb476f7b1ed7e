SPECIFICATION Spec
CONSTANTS
  c1 = c1
  c2 = c2
  Clients <- MCClients
  Asked <- MCAsked
  HealthNames = {"health", "healthz"}
  Development = TRUE
  TimeLimit = 1
  ForceAfter = 1
  MaxHops = 2
INVARIANTS
  KeylessReachesOnlyOpenPaths
  RedirectServesOneSegment
PROPERTIES
  RequestsSettle
  SignalLeadsToExit
