SPECIFICATION ServicesSpec
CONSTANTS
  o1 = o1
  o2 = o2
  o3 = o3
  u1 = u1
  u2 = u2
  Opens = {o1, o2, o3}
  Users = {u1, u2}
  UserOf <- MCUserOf
  Owner = u1
  MaxPerUser = 1
  MaxTotal = 2
  MaxRemembered = 1
  Secrets = {"s"}
  Runners = {u1}
  MaxForgets = 0
  LogKeys = {x1, x2}
  MaxCycles = 3
  MaxQueue = 1
  MaxSize = 3
  MaxPoints = 2
  Widths <- MCWidths
  Threshold = 1
  MaxReloads = 1
  MaxRefusals = 1
  Containers = {c1}
  Enforced = {c1}
  Ticks = {x1, x2}
  Sustained = 1
  MaxActions = 1
  MaxRestarts = 1
  MaxRuns = 2
  MaxBundles = 1
  Savers = {x1, x2}
  MaxChanges = 2
  MaxLines = 1
  MaxFailures = 1
  MaxStarts = 3
  LateWork = FALSE
  Letters = {a, b}
  MaxSeq = 3
  MaxCrashes = 1
  MaxSetups = 2
  MaxBadStops = 1
  MaxCommands = 1
  RiskUsers = {"alice", "bob"}
  AccountOf <- MCAccountOf
  Alerts = {"d1", "d2"}
  AlertOf <- MCAlertOf
  Flaws = {"v", "m"}
  FlawOf <- MCFlawOf
  HealthEntries = {"e"}
  RiskPasses = {x1, x2}
  MaxWeeks = 1
  MaxRiskChanges = 1
  Nets = {n1, n2}
  LegacyNets = {n2}
  LoginPasses = {x1, x2}
  Required = 2
  Expiry = 1
  Learning = 1
  MaxTracked = 2
  MaxLogins = 3
  MaxDays = 4
  MaxReverts = 1
  Hosts = {"h1", "h2"}
  Prints = {"f1", "f2"}
  SshRuns = {x1, x2}
  MaxSshFaults = 1
  MaxSshOwner = 2
  ProbeCalls = {x1, x2}
  ProbeSecrets = {"s1", "s2"}
  MaxResets = 1
  MaxPairFaults = 1
  Parts = {"terminal", "observe", "watchdog", "forensics", "store", "external", "lifecycle", "risk", "logins", "ssh", "pairing"}
INVARIANTS
  SessionsKept DeliveredExactly StopsJudged CleanGenerations NetworksJudged
PROPERTIES
  EpisodesBounded StoreKeeps ScoresRight IdentitiesStand
SYMMETRY ServicesSymmetry
CHECK_DEADLOCK FALSE
