SPECIFICATION FairSpec
CONSTANTS
  r1 = r1
  r2 = r2
  Readers = {r1, r2}
  Clients = {r1, r2}
  Keys = {"k1"}
  KeyTtl = 0
  MaxKeyEdits = 1
  Tables <- TwoTables
  Ttl = 1
  StaleGrace = 1
  MaxEdits = 1
INVARIANTS LockHeld
PROPERTIES NeverBackwards StaleEnds RevokedEnds
