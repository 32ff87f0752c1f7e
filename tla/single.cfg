SPECIFICATION FileSpec
CONSTANTS
  Client = {c1}
  Id = {f1}
  MaxIdx = 2
  MaxSpan = 1
  MaxPages = 2
  MaxRef = 5
  MaxFd = 8
  MaxStale = 1
  MaxCount = 2
  Val = {1, 2}
  Modes = {"rw"}
  Failures = {}
  Reaper = Reaper
  Crashed = Crashed
  None = None
INVARIANTS NoDangling Coherent CleanOnDevice ListMatchesTable NoSpuriousError
