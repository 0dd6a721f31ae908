SPECIFICATION Spec
CONSTANTS
  CooldownBase = 1
  CooldownMax = 1
  FailureThreshold = 1
  OpenDuration = 1
  HalfOpenThreshold = 1
  Fallback = 1
  Requests = {r1, r2}
  p1 = p1
  p2 = p2
  e1 = e1
  e2 = e2
  k1 = k1
  k2 = k2
  Plan <- OneProviderPlan
  MAX_ATTEMPTS = 2
  ProviderAttempts = 2
  MaxConcurrency = 2
  RetryAfters <- RetryHints
  RateHeaders <- QuotaHeaders
  Hints = {1}
  Deadline = 2
  MaxClock = 1
  MaxResets = 1
SYMMETRY RequestSymmetry
CHECK_DEADLOCK FALSE
INVARIANTS AttemptCap NothingLeaked
PROPERTIES NoForwardWhileCooling
