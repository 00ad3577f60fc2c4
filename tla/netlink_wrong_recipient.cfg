CONSTANTS
  Client = {p1, p2}
  Looper = {p1}
  Malformed = {}
  RcvBuf = 2
  NONE = NONE
SPECIFICATION Spec
INVARIANT AnswersAsker
CHECK_DEADLOCK FALSE
