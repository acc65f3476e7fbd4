SPECIFICATION Spec
CONSTANTS
  dispatch = dispatch
  Dispatch <- dispatch
  SimStates <- AllStates
  MaxOpens = 2
  MaxRequests = 0
INVARIANT NeverOnReader
CHECK_DEADLOCK FALSE
