CONSTANTS
  CPU = {c1, c2}
  Proc = {p1, p2}
  PortValue = {v1, v2}
  Block = {b1, b2, b3}
  Length = {1, 2}
  Width = 2
  MaxBytes = 6
  NULL = NULL
  GARBAGE = GARBAGE
  OPEN = OPEN
SPECIFICATION Spec
INVARIANTS TypeOK CountNotAbove SerialCountExact AcceptedPortHeld
SYMMETRY Symm
CHECK_DEADLOCK FALSE
