SPECIFICATION LocalSpec
\* A run ends when the scanner exits.
CHECK_DEADLOCK FALSE
CONSTANTS
  Projects <- MCProjects
  Setups <- MCSetups
  Slots = 2
  MaxFileBytes = 2
  MaxTotalBytes = 3
  ExcludedDirs = {"vendor"}
  Clients = {c1, c2}
  Replacements <- MCReplacements
  Agents <- MCAgents
  ProviderOptions <- MCOptions
  Paths = {"f"}
  Issues <- MCIssues
  Contents <- MCContents
  MaxEdits = 1
  MaxPreviews = 2
  Arrivals <- MCArrivals
  Resolutions = {"fixed", ""}
  Triagers = {"t"}
  Backfillers = {"a", "b"}
  Readers = {"r"}
  MainBranches = {"", "main"}
  PageLimit = 1
  Conditions <- MCConditions
  QueryCap = 5
  MaxChanges = 1
  Users = {"admin", "dev"}
  SeededAdmin = "admin"
  Callers = {c1, c2}
  Passwords = {"p", "q"}
  GroupNames = {"team"}
  Permissions = {"admin", "manage_users", "manage_groups"}
  JWTExpiry = 1
  RefreshExpiry = 1
  MaxTime = 2
  MaxSessions = 2
  MaxTokens = 1
  MaxGroups = 4
  MaxWithdrawn = 1
  MaxOps = 2
  Backends = {"postgres", "zincsearch"}
  ProjectKeys = {"p", "q"}
  Names = {"x", "y"}
  MainNames = {"", "main"}
  Editors = {"e", "f"}
  Finders = {"s"}
  Analyses <- MCAnalyses
  Requests <- MCRequests
  MaxProjects = 2
  MaxScanned = 2
  MaxWrites = 2
INVARIANTS
  EvidenceAddsUp
  ReportIsWhole
  ExitReflectsVerdict
  
  
  
  
PROPERTIES
  
  AppliedAsPreviewed
  BackfillKeeps
