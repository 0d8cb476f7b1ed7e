SPECIFICATION Spec
CONSTANTS
  p1 = p1
  p2 = p2
  p3 = p3
  Probes <- MCProbes
  Lifetime = 1
  MaxNow = 2
  None = None
SYMMETRY ProbeSymmetry
INVARIANTS
  TypeOK
  NothingLeftBehind
  LoneProbeIsRight
