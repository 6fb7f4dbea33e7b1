\* A pipe of two units between sockets of one: partial writes, full and empty buffers.
CONSTANTS
  SockCap = 1
  PipeCap = 2
SPECIFICATION FairSpec
INVARIANTS TypeOK PipeBytesExact PendingIsArmed CondemnedForReset NoSigpipeBeforeFin EndsByBackend
PROPERTIES BackendFinEnds HalfCloseReaches
CHECK_DEADLOCK FALSE
