SPECIFICATION Spec
CONSTANTS
  Node <- MCNode
  Entry <- MCEntry
  Arrays <- MCArrays
  Value = {0, 1, 2}
  MaxLen = 5
  Operands = {1, 2, 3, 4, 6, 9, 10, 12, 13}
  CAPACITY = 2
  INT_MAX = 511
  NULL = NULL
  FAULT = FAULT
INVARIANTS EditsMatch AnswersMatch FaultsOnlyOn MemoryKept SortsCorrect FrameAddressed
CHECK_DEADLOCK FALSE
