CONSTANTS
  c1 = c1
  e1 = e1
  e2 = e2
  CPU = {c1, c2}
  k1 = k1
  k2 = k2
  k3 = k3
  Key = {k1, k2, k3}
  Elem = {e1, e2, e3, e4}
  Bucket <- MCBucket
  Length = {34}
  MaxPkts = 3
  NULL = NULL
  ZeroKey = zero
SPECIFICATION MCSpec
INVARIANTS UntrackedOnlyWhenFull CreditBound TotalNotAbove
  PassComplete PrintedOnce ReportFresh
PROPERTY PassEnds
CHECK_DEADLOCK FALSE
