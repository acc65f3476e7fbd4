SPECIFICATION FairSpec
CONSTANTS
  d = d
  n = n
  c1 = c1
  None = None
  Deferred <- d
  NiThread <- n
  Threads <- AllThreads
  Callers <- Framework
  EventKinds <- AllKinds
  ResponseTime = 2
  MaxEvents = 2
  MaxCalls = 1
INVARIANT NiTimed
INVARIANT DeferredNeverAnswered
INVARIANT DeliveryNotBlocked
INVARIANT AwakeWhileBusy
INVARIANT NothingOverlooked
INVARIANT StatusToldInOrder
INVARIANT StopNotStranded
PROPERTY FlagsTaken
PROPERTY StopHonoured
PROPERTY NiClears
