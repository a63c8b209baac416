SPECIFICATION Spec
CONSTANTS
  MaxDay = 2
  BufferMax = 2
  SegmentMax = 1
  RecoveryFiles = 2
  RetentionDays = 1
  MaxLines = 2
  FreshInstall = FALSE
  TrimMayFail = TRUE
  RemoveMayFail = TRUE
  MaxLog = 3
  MaxDropped = 1
  MaxFails = 1
  MaxRestarts = 2
  MaxWipes = 1
INVARIANTS TypeOK PreparedFollowsBuffer NoFalseReset LossReported
PROPERTIES MarkersCarried
