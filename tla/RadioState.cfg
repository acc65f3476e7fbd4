SPECIFICATION FairSpec
CONSTANTS
  dispatch = dispatch
  Dispatch <- dispatch
  SimStates <- AllStates
  MaxOpens = 2
  MaxRequests = 1
INVARIANT UnavailableWhenClosed
INVARIANT NotOnReader
INVARIANT SmsSetUp
INVARIANT CloseIsNoticed
PROPERTY RadioComesUp
PROPERTY ClosedIsReopened
CHECK_DEADLOCK FALSE
