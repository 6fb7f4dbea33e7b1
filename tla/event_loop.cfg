SPECIFICATION Spec
CONSTANTS
  Fds = {0, 1, 2, 3, 4, 5, 6, 7, 8}
  Listeners = {0}
  MaxEvents = 3
  MaxOthers = 1
  None = None
INVARIANTS TypeOK TableExact DescriptorsAccounted WatchedAreServed
PROPERTY OthersUntouched
