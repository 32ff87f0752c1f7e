SPECIFICATION Spec
CONSTANTS
  Callers = {c1, c2}
  Files = {f1, f2}
  MaxAttempts = 5
  MaxChanges = 0
  Timeouts = {2}
  Bits = 16
  PerSecond = 1000
  None = None
INVARIANTS RightFile
