SPECIFICATION Spec
CONSTANTS
  PageSize = 2
  Byte = {1, 2}
  MaxSize = 5
  AnyWrite = FALSE
  AnyTruncate = FALSE
  AnyCopy = FALSE
  None = None
INVARIANTS TypeOK ReadsAsWritten DeviceAsWritten
