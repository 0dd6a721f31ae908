SPECIFICATION FairSpec
CONSTANTS
  CooldownBase = 1
  CooldownMax = 1
  FailureThreshold = 1
  OpenDuration = 1
  HalfOpenThreshold = 1
  Fallback = 1
  Requests = {r1, r2}
  p1 = p1
  p2 = p2
  e1 = e1
  e2 = e2
  k1 = k1
  k2 = k2
  Plan <- TwoProviderPlan
  MAX_ATTEMPTS = 2
  ProviderAttempts = 2
  MaxConcurrency = 1
  RetryAfters <- NoRetryAfter
  RateHeaders <- PlainHeaders
  Hints = {1}
  Deadline = 1
  MaxClock = 1
  MaxResets = 0
CHECK_DEADLOCK FALSE
PROPERTIES EveryRequestEnds
