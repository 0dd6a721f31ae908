SPECIFICATION Spec
CONSTANTS
  p1 = p1
  p2 = p2
  k1 = k1
  k2 = k2
  e1 = e1
  e2 = e2
  None = None
  Sessions = {s1}
  HttpRequests = {h1}
  WsRequests = {w1}
  Targets <- TwoTargets
  Ttl = 1
  MaxEntries = 1
  AvoidFor = 1
  MaxGeneration = 2
INVARIANTS ConfirmedServed
