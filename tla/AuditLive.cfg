SPECIFICATION FairSpec
CONSTANTS
  MaxDay = 1
  BufferMax = 2
  SegmentMax = 2
  RecoveryFiles = 3
  RetentionDays = 1
  MaxLines = 99
  FreshInstall = FALSE
  TrimMayFail = FALSE
  RemoveMayFail = FALSE
  MaxLog = 4
  MaxDropped = 2
  MaxFails = 1
  MaxRestarts = 1
  MaxWipes = 0
INVARIANTS DropsAccounted
PROPERTIES EventuallyLogged
