CONSTANTS
  MaxOther = 0
  MaxBss = 2
  Bss <- MCBss
  has <- MCHas
SPECIFICATION Spec
PROPERTY RefusedEnds
CHECK_DEADLOCK FALSE
