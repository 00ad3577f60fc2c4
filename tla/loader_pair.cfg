CONSTANTS
  Loader = {l1, l2}
  MaxRuns = 4
  NONE = NONE
  BAD = BAD
SPECIFICATION Spec
INVARIANTS TypeOK PinsAgree ReportsOnAttached ReuserHoldsPins
CHECK_DEADLOCK FALSE
