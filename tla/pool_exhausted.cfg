\* A failover of two attempts beside a health checker that revives backends.
CONSTANTS
  Workers = {w1}
  Clients = {c1}
  Socks = {s1, s2, s3}
  NumBackends = 2
  None = None
SPECIFICATION Spec
PROPERTY NoHealthyMissed
