SPECIFICATION Spec
CONSTANTS
  MaxDay = 3
  BufferMax = 2
  SegmentMax = 2
  RecoveryFiles = 3
  RetentionDays = 1
  MaxLines = 3
  FreshInstall = TRUE
  TrimMayFail = FALSE
  RemoveMayFail = FALSE
  MaxLog = 4
  MaxDropped = 0
  MaxFails = 1
  MaxRestarts = 0
  MaxWipes = 0
INVARIANTS CleanVerifies
PROPERTIES ImplementsDurableLog
