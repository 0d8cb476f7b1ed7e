SPECIFICATION Spec
CONSTANTS
  f1 = f1
  f2 = f2
  f3 = f3
  f4 = f4
  Calls <- MCCalls
  Window = 1
  BlockTime = 3
  DelayThreshold = 2
  BlockThreshold = 2
  MaxNow = 3
  None = None
SYMMETRY CallSymmetry
INVARIANTS
  TypeOK
  CountIsSound
  SequentialCountIsExact
  OnlyOverlapsAreLost
CHECK_DEADLOCK FALSE
