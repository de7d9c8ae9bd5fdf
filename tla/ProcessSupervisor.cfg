SPECIFICATION Spec
CONSTANTS
  MaxBirths = 4
  MaxRounds = 2
CHECK_DEADLOCK FALSE
INVARIANT Inv
INVARIANT NobodyIsLeftBehind
PROPERTY RunEnds
