SPECIFICATION Spec
CONSTANTS
  p1 = p1
  p2 = p2
  p3 = p3
  Peers <- MCPeers
  Messages <- MCMessages
  Levels = {1}
  LowestPage = 1
  HighestPage = 8
  LowestPages = 4
  SizeBits = 16
  MaxQueue = 2
  MaxLogs = 3
  None = None
  Ended = Ended
INVARIANTS SubscribersKept LogsInOrder NoOldLogs CacheKept
PROPERTIES EveryOpAnswered
CHECK_DEADLOCK FALSE
