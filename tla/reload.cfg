\* Two rewrites of the file: a reload that finds another one unfinished.
CONSTANTS
  Workers = {w1}
  Checker = checker
  Ports = {p1, p2}
  MaxWrites = 2
  Malformed = Malformed
  None = None
SPECIFICATION FairSpec
INVARIANTS TypeOK ListenersAreRouted NoReloadLost WorkersToldFirst OneReloadIsSafe
PROPERTIES RefinesLatest Converges
CHECK_DEADLOCK FALSE
