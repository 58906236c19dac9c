SPECIFICATION FairSpec
CONSTANTS
  Projects = {p1}
  ClientKeys = {}
  NoKey = NoKey
  Payloads = {a}
  Submitters = {s1}
  Workers = {w1, w2}
  Admins = {a1}
  MaxAccepted = 0
  MaxRunning = 0
  AgeLimited = FALSE
  MaxAttempts = 2
  MaxJobs = 1
  MaxRetries = 2
INVARIANTS
  AttemptsBounded
  ClaimsDistinct
  LinkedScanExists
PROPERTIES
  AcceptedSettles
  RowLifecycle
  KeepsPromise
