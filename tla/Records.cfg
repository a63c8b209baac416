SPECIFICATION RecordsSpec
CONSTANTS
  Collections = {"policies"}
  Panels = {p1}
  NoPanel = timer
  MaxDriftHistory = 2
  MaxAdminChanges = 1
  MaxLosses = 1
  Repos = {r1, r2}
  Requests = {x1, x2}
  Concurrency = 1
  MaxHacsRestarts = 0
  MaxRefreshes = 2
  Applies = {x1, x2}
  Yaml = {}
  Scenes = {scenes}
  Stored = {dashboard}
  MaxEdits = 1
  Operators = {x1, x2}
  Host = host
  MaxTexts = 2
  MaxSeconds = 1
  MaxKills = 1
  Passes = {d1}
  Failures = 2
  Window = 1
  Lookback = 2
  Hour = 2
  Retention = 2
  MaxTime = 5
  MaxFaults = 1
  SourceFiles = {f1}
  Scans = {x1, x2}
  NoFile = nofile
  MaxVersions = 2
  MaxEntryChanges = 2
  Sweeps = {w0, w1}
  SetupSweep = w0
  MaxSetups = 1
  MaxTurns = 2
  MaxDecisions = 1
  VulnScans = {v1, v2}
  Devices = {1, 2}
  MatchOf <- MCMatchOf
  Pages = 2
  PageRetries = 1
  MaxFindings = 1
  MaxDeviceChanges = 1
  MaxAnalyst = 1
  Accounts = {owner, x1, x2}
  AccountOwner = owner
  PolicyPasses = {m1, m2}
  GraceDays = 1
  MaxCommands = 2
  Parts = {"ledger", "hacs", "remap", "dashboards", "detections", "scanner", "misconfig", "vulns", "users"}
INVARIANTS
  LedgerTrue RefreshExclusive WritesSafe DetectionsKept
PROPERTIES
  ScansTrue SweepsTrue VulnsTrue AccessSafe
SYMMETRY RecordsSymmetry
CHECK_DEADLOCK FALSE
