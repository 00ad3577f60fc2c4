CONSTANTS
  Loader = {l1}
  MaxRuns = 2
  NONE = NONE
  BAD = BAD
SPECIFICATION Spec
INVARIANT MapPinned
CHECK_DEADLOCK FALSE
