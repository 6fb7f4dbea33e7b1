\* Two workers race over two backends, two clients and the health checker.
CONSTANTS
  Workers = {w1, w2}
  Clients = {c1, c2}
  Socks = {s1, s2}
  NumBackends = 2
  None = None
SPECIFICATION Spec
SYMMETRY Symmetry
INVARIANTS TypeOK ChargeExact DownIsNoticed CountersAgree
PROPERTY NeverTheBusiest
