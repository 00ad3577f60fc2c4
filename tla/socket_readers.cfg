CONSTANTS
  MaxEntry = 3
  MaxEvent = 5
  RcvBuf = 2
  MaxIface = 2
  Stations <- MCStations
  Client = {a, b}
  Count = 3
  MsgLen = 2
  Resp = 5
  MaxFail = 1
  MaxStray = 1
  NULL = NULL
SPECIFICATION Spec
INVARIANTS EntriesOnce OwnAttributes ServerLines StationShown
PROPERTY AnswerEnds
CHECK_DEADLOCK FALSE
