SPECIFICATION FairSpec
CONSTANTS
  wake = wake
  listen = listen
  t1 = t1
  t2 = t2
  a1 = a1
  loopThread = loopThread
  None = None
  FdEvents <- MCTwoEvents
  Persist <- MCPersistWake
  WakeEv <- wake
  Timers <- MCTimers
  Loop <- loopThread
  Adders <- MCAdders
  Fds <- MCTwoFds
  WakeFd = 4
  MAX_FD_EVENTS = 3
  Delays <- MCDelays
  MaxTime = 2
  DelTimers <- MCNoDelTimers
INVARIANTS
  TypeOK
  TablesAgree
  NoLostWakeup
PROPERTIES
  ImplementsService
  TimersRun
  InputServed
CHECK_DEADLOCK FALSE
