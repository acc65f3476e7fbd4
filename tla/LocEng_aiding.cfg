SPECIFICATION Spec
CONSTANTS
  d = d
  n = n
  c1 = c1
  None = None
  Deferred <- d
  NiThread <- n
  Threads <- AllThreads
  Callers <- Framework
  EventKinds <- Session
  ResponseTime = 2
  MaxEvents = 2
  MaxCalls = 1
PROPERTY AidingDeletedWhenOff
