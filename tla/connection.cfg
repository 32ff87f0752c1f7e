SPECIFICATION Spec
CONSTANTS
  Callers = {c1, c2}
  Files = {f1}
  MaxAttempts = 2
  MaxChanges = 2
  Timeouts = {0, 2}
  Bits = 16
  PerSecond = 1000
  None = None
INVARIANTS NoGiveUp WaitersWoken
PROPERTIES EveryCallReturns EveryReturnHeals
