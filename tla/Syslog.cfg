SPECIFICATION Spec
CONSTANTS
  QueueMax = 2
  MaxBatch = 2
  MaxRecords = 3
  MaxChanges = 2
  MaxFails = 1
  Configs <- MCConfigs
INVARIANTS OneReadyWorker Accounted
PROPERTIES SendsAndStops
CHECK_DEADLOCK FALSE
