SPECIFICATION FairSpec
CONSTANTS
  Providers = {"p1", "p2"}
  Keys = {"k1", "k2"}
  Groups = {"default", "team"}
  DefaultGroup = "default"
  Children = {"e1"}
  Admins = {"a1", "a2"}
  Gateways = {"g1", "g2"}
  MaxEdits = 2
  MaxCrashes = 1
INVARIANTS ReadyToServe CompatFollows ReferencesHold
PROPERTIES UsageKept AdminDecides Serves
CHECK_DEADLOCK FALSE
