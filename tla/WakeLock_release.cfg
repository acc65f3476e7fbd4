SPECIFICATION FairSpec
CONSTANTS
  loop1 = loop1
  reader = reader
  poller = poller
  a1 = a1
  a2 = a2
  a3 = a3
  a4 = a4
  None = None
  Loop <- loop1
  Vendors <- TwoThreads
  Addresses <- FourAddresses
  MaxCalls = 4
INVARIANT LockAccounted
PROPERTY WakeLockReleased
CHECK_DEADLOCK FALSE
