SPECIFICATION FairSpec
CONSTANTS
  Client = {c1, c2}
  Id = {f1}
  MaxIdx = 0
  MaxSpan = 1
  MaxPages = 1
  MaxRef = 3
  MaxFd = 3
  MaxStale = 1
  MaxCount = 2
  Val = {1}
  Modes = {"rw"}
  Failures = {"open", "read", "write"}
  Reaper = Reaper
  Crashed = Crashed
  None = None
INVARIANTS TypeOK StaleUnused FdsValid EntriesInUseStay LruBounded WaitersServed
PROPERTIES EveryOperationReturns
CHECK_DEADLOCK FALSE
