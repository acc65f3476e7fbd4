CONSTANTS
  b1 = b1  b2 = b2  b3 = b3
  Buffers <- MCBuffers
  Sizes <- MCSizes
  PmemBytes = 12288
  LimpBytes = 8192
SPECIFICATION Spec
CHECK_DEADLOCK FALSE
SYMMETRY Symmetry
INVARIANTS Tiled Coalesced NoSharedPage BlocksMapped
PROPERTIES ImplementsPool
