SPECIFICATION FairSpec
CONSTANTS
  CooldownBase = 1
  CooldownMax = 3
  Ids = {e1}
  Attempts = {a1, a2, a3}
  FailureThreshold = 2
  OpenDuration = 2
  MaxLag = 1
  MaxClock = 3
  MaxGeneration = 3
CHECK_DEADLOCK FALSE
INVARIANTS TypeOK SingleProbe ProbeHeld
PROPERTIES CooldownHonoured Recovers ImplementsBreaker
