SPECIFICATION Spec
CONSTANTS
  k1 = k1
  k2 = k2
  k3 = k3
  v1 = v1
  v2 = v2
  Keys <- MCKeys
  Values <- MCValues
  Ttls = {1, 2}
  MaxSize = 2
  Swr = 1
  None = None
SYMMETRY DataSymmetry
INVARIANTS
  TypeOK
  NewestSurvives
PROPERTIES
  ImplementsExpiringMap
