SPECIFICATION Spec
CONSTANTS
  Radix = 20
  Names <- MCNames
  Ints = {390}
  Statuses = {1, 19}
  Greetings <- MCGreetings
  Hello <- MCHello
  MaxSent = 2
  None = None
INVARIANTS Faithful Aligned NothingRejected
CHECK_DEADLOCK FALSE
