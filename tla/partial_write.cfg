SPECIFICATION Spec
CONSTANTS
  PageSize = 2
  Byte = {1, 2}
  MaxSize = 4
  AnyWrite = TRUE
  AnyTruncate = FALSE
  AnyCopy = FALSE
  None = None
INVARIANTS ReadsAsWritten
