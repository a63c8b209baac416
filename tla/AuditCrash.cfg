SPECIFICATION Spec
CONSTANTS
  MaxDay = 2
  BufferMax = 3
  SegmentMax = 2
  RecoveryFiles = 3
  RetentionDays = 2
  MaxLines = 99
  FreshInstall = FALSE
  TrimMayFail = FALSE
  RemoveMayFail = FALSE
  MaxLog = 4
  MaxDropped = 0
  MaxFails = 1
  MaxRestarts = 2
  MaxWipes = 0
INVARIANTS ChainIntact NothingLost
PROPERTIES ImplementsDurableLog
