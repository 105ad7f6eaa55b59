CONSTANTS
  BufferSize = 3
  Iterations = 7
SPECIFICATION BufferSpec
INVARIANTS NoItemCorruption DestroyedUnused NoLostWakeup
PROPERTIES ImplementsChannel BothReturn
CHECK_DEADLOCK FALSE
