SPECIFICATION Spec
CONSTANTS
  Events = {1, 2}
  QueueCapacity = 2
  DeleteBatch = 1
  MaxBatches = 2
  MaxDay = 2
  MaxFaults = 2
CHECK_DEADLOCK FALSE
PROPERTIES DailyKept LogsArchived Counted
