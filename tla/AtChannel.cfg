SPECIFICATION FairSpec
CONSTANTS
  c1 = c1
  None = None
  Commanders <- Dispatch
  Kinds <- Various
  HANDSHAKE_RETRY_COUNT = 2
  MaxCalls = 2
  MaxUnsol = 1
  MaxLines = 2
  MaxOpens = 2
INVARIANT ResponseOwned
INVARIANT RightAnswer
INVARIANT NeverForgotten
PROPERTY CommandReturns
PROPERTY ChannelReopens
CHECK_DEADLOCK FALSE
