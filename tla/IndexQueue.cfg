SPECIFICATION FairSpec
CHECK_DEADLOCK FALSE
CONSTANTS
  Scans = {c1}
  Enqueuers = {e1, e2}
  Workers = {w1, w2}
  IssueCount = 3
  BatchSize = 2
  QueryLimit = 2
  MaxRetries = 2
  MaxAttempts = 2
  MaxJobs = 1
  MaxAdminRetries = 1
INVARIANTS
  EnqueueHonoured
  SettledIsEarned
PROPERTIES
  KeepsPromise
  RequestSettles
