\* One worker with one client between epoll_wait, failover and removal, beside
\* a health checker with a socket for each backend.
CONSTANTS
  Workers = {w1}
  Clients = {c1}
  Socks = {s1, s2}
  NumBackends = 2
  None = None
SPECIFICATION FairSpec
PROPERTIES WorkerReturns DownIsSettled UpIsNoticed
