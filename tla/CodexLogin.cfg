SPECIFICATION Spec
CONSTANTS
  Callers = {"c1"}
  Gateway <- MCGateway
  KeyOf <- MCKeyOf
  SignedIn = "k1"
  FirstAccount = "a1"
  Keys = {"k1", "k2"}
  Accounts = {"a1", "a2"}
  NewKey = "new"
  Ops = {"quota"}
  WaitAttempts = 1
  MaxTokens = 2
  Sessions = {"s1"}
  Home = "g1"
CHECK_DEADLOCK FALSE
INVARIANTS LeaseProtects CancelledNotSaved
PROPERTY LoginEnds
