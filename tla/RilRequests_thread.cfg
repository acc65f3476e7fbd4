SPECIFICATION Spec
CONSTANTS
  loop1 = loop1
  reader = reader
  p1 = p1
  p2 = p2
  None = None
  Loop <- loop1
  Vendors <- OneReader
  Completers <- AnyThread
  Cells <- TwoCells
  MaxConns = 2
  MaxRequests = 1
  MaxUnsol = 0
INVARIANT RepliesBelong
CHECK_DEADLOCK FALSE
