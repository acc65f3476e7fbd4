SPECIFICATION FairSpec
CONSTANTS
  loop1 = loop1
  reader = reader
  p1 = p1
  p2 = p2
  None = None
  Loop <- loop1
  Vendors <- OneReader
  Completers <- LoopOnly
  Cells <- TwoCells
  MaxConns = 2
  MaxRequests = 0
  MaxUnsol = 1
PROPERTY AcceptsAgain
CHECK_DEADLOCK FALSE
