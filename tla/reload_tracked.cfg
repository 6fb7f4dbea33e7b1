\* A connection made after the first reload outlives the second one.
CONSTANTS
  Workers = {w1}
  Checker = checker
  Ports = {p1}
  MaxWrites = 2
  Malformed = Malformed
  None = None
SPECIFICATION Spec
INVARIANT BackendTracked
CHECK_DEADLOCK FALSE
