SPECIFICATION ServerSpec
CONSTANTS
  j1 = j1
  j2 = j2
  j3 = j3
  k1 = k1
  k2 = k2
  None = None
  Workers = {w1}
  Jobs = {j1, j2, j3}
  Keys = {k1, k2}
  Users = {u1}
  Edits = {"main"}
  Names = {"", "main"}
  Report <- Reported
  Gate <- Gates
  QueryLimit = 2
  MaxAttempts = 2
  MaxScans = 3
  MaxFaults = 1
  Bits = 8
  Processes = {"a", "w", "m"}
  Role <- MCRole
  Files <- MCFiles
  Environments <- MCEnvironments
  Releases = {1, 2}
  MaxStarts = 4
  MaxFailures = 1
  Tasks <- MCTasks
  Subjects <- MCSubjects
  TaskClients = {"c"}
  TaskFilters <- MCTaskFilters
  StaleAge <- MCStaleAge
  RecentAge = 1
  DefaultPage = 1
  MaxPage = 2
  RowLimit = 1
  MaxClock = 2
  MaxMoves = 3
  AIKeys = {"openai", "anthropic", "qwen"}
  ModelList <- MCModelList
  ChosenModel <- MCChosen
  OpenAIStyle = ""
  OpenAIIsDefault = TRUE
  MockIsEnabled = TRUE
  Lowercase <- MCLowercase
  DraftRequests <- MCRequests
  DraftReplies <- MCReplies
  Installed <- MCInstalled
  Observers = {"o1", "o2"}
  StepNames = {"process", "odd"}
  Outcomes = {"success"}
  Took = {1, 3}
  Buckets <- MCBuckets
  GaugeNames = {"g"}
  GaugeValues = {1}
  MaxObservations = 2
  MaxScrapes = 2
CHECK_DEADLOCK FALSE
INVARIANTS
  TrackingIsSound
  ServesReady
  TasksAreShown
  StudioDrafts
  
