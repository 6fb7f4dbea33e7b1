SPECIFICATION Spec
CONSTANTS
  Observer = Observer
  Checker = Checker
  NumWorkers = 2
CHECK_DEADLOCK FALSE
INVARIANT FinalEventFlushed
