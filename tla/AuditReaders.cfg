SPECIFICATION ReadersSpec
CONSTANTS
  MaxDay = 2
  BufferMax = 2
  SegmentMax = 1
  RecoveryFiles = 3
  RetentionDays = 1
  MaxLines = 2
  FreshInstall = FALSE
  TrimMayFail = FALSE
  RemoveMayFail = FALSE
  MaxLog = 3
  MaxDropped = 0
  MaxFails = 0
  MaxRestarts = 0
  MaxWipes = 1
  MaxReads = 2
INVARIANTS AnswerComplete
PROPERTIES VerdictRight
