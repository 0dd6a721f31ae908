SPECIFICATION Spec
CONSTANTS
  Tasks = {1, 2}
  Models = {"m1"}
  Published <- TwoCatalogues
  Cards = {"mine"}
  MaxFaults = 1
  MaxAdmin = 3
CHECK_DEADLOCK FALSE
PROPERTIES ManualKept AutomaticForward CatchesUp
