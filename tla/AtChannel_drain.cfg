SPECIFICATION Spec
CONSTANTS
  c1 = c1
  None = None
  Commanders <- Dispatch
  Kinds <- Plain
  HANDSHAKE_RETRY_COUNT = 2
  MaxCalls = 2
  MaxUnsol = 0
  MaxLines = 1
  MaxOpens = 1
INVARIANT HandshakeDrains
CHECK_DEADLOCK FALSE
