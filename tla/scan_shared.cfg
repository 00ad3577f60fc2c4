CONSTANTS
  MaxOther = 3
  MaxBss = 2
  Bss <- MCBss
  has <- MCHas
SPECIFICATION Spec
INVARIANTS TypeOK DumpHasCause AloneOwnResults ResultsShown
PROPERTY AcceptedEnds
CHECK_DEADLOCK FALSE
