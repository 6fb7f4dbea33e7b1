CONSTANTS
  SockCap = 1
  PipeCap = 2
SPECIFICATION FairSpec
PROPERTY EofIsHandled
CHECK_DEADLOCK FALSE
