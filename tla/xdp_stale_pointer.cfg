CONSTANTS
  CPU = {c1, c2, c3}
  Key = {k1, k2}
  Elem = {e1, e2, e3, e4, e5}
  Bucket <- MCBucket
  Length = {34}
  MaxPkts = 6
  NULL = NULL
SPECIFICATION Spec
INVARIANT CountsNotAbove
SYMMETRY Symm
CHECK_DEADLOCK FALSE
