SPECIFICATION Spec
CONSTANTS
  c1 = c1
  c2 = c2
  Clients <- MCClients
  Asked <- MCAsked
  HealthNames = {"health", "healthz"}
  Development = FALSE
  TimeLimit = 1
  ForceAfter = 1
  MaxHops = 2
INVARIANTS
  LivenessProbeIsServed
