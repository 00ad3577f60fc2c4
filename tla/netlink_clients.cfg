CONSTANTS
  Client = {p1, p2, p3}
  Looper = {p1}
  Malformed = {p3}
  RcvBuf = 2
  NONE = NONE
SPECIFICATION Spec
INVARIANTS TypeOK NoExtraAnswers OnlySendersAnswered SerialAnswersAsker
PROPERTY SendmsgReturns
CHECK_DEADLOCK FALSE
