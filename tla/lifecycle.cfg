SPECIFICATION FairSpec
CONSTANTS
  Observer = Observer
  Checker = Checker
  NumWorkers = 3
CHECK_DEADLOCK FALSE
INVARIANTS TypeOK NoThreadLeft
PROPERTIES ShutsDown RepeatedSignalsEnd
