SPECIFICATION FairSpec
CONSTANTS
  CooldownBase = 1
  CooldownMax = 2
  FailureThreshold = 1
  OpenDuration = 1
  HalfOpenThreshold = 2
  Callers = {c1, c2, c3}
  Lingering = {c2, c3}
  MaxConcurrency = 2
  MaxClock = 0
  MaxAttempts = 3
  MaxGeneration = 3
  MaxPurges = 1
CHECK_DEADLOCK FALSE
INVARIANTS CapacityAccounting SingleProbe ProbeHeld
PROPERTIES EarnedRecovery FullProviderDrains
