SPECIFICATION Spec
CONSTANTS
  Instances = {"i1", "i2"}
  Kinds = {"scheduled_report", "threshold_alert"}
  Channels = {"c1"}
  Slots = {1}
  Period = 1
  FirstEnd = 0
  MaxClock = 2
  TriggerAfter = 2
  RecoverAfter = 1
  SendRecovery = TRUE
  MaxAttempts = 2
  MaxFaults = 1
  MaxChanges <- MCMaxChanges
CHECK_DEADLOCK FALSE
PROPERTIES ResentAfterError NoGap AlertAnnounced
