SPECIFICATION Spec
CONSTANTS
  d = d
  e = e
  f = f
  Paths <- MCPaths
  Exposed <- MCExposed
  Ahead = FALSE
  Opens = {o1}
  MaxEntries = 1
  MaxSurprises = 0
  Null = Null
  Freed = Freed
  None = None
INVARIANTS HandlesKept
CHECK_DEADLOCK FALSE
SYMMETRY Symmetry
