CONSTANTS
  CPU = {c1}
  Key = {k1, k2, k3}
  Elem = {e1, e2, e3}
  Bucket <- MCBucket
  Length <- MCLength
  MaxPkts = 5
  NULL = NULL
SPECIFICATION Spec
INVARIANTS TypeOK CountsExact
PROPERTY ImplementsCounter
CHECK_DEADLOCK FALSE
