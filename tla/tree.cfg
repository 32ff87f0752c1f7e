SPECIFICATION Spec
CONSTANTS
  d = d
  e = e
  f = f
  Paths <- MCPaths
  Exposed <- MCExposed
  Ahead = FALSE
  Opens = {o1}
  MaxEntries = 1
  MaxSurprises = 1
  Null = Null
  Freed = Freed
  None = None
INVARIANTS TypeOK Mirror  NoFreedHandle HandlesRegular
PROPERTIES EntriesFollow
CHECK_DEADLOCK FALSE
CONSTRAINT NotBoth
SYMMETRY Symmetry
