SPECIFICATION Spec
CONSTANTS
  Callers = {c1, c2}
  Failing = {c2}
  Watchdog = wd
  Capacity = 1
  Frames = 3
  MaxPings = 2
  None = None
INVARIANTS InStep NoneForgotten NoneUnanswered
PROPERTIES Implements EverySendReturns EveryLossFrees
CHECK_DEADLOCK FALSE
