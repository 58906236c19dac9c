SPECIFICATION Spec
CONSTANTS
  Projects = {p1}
  ClientKeys = {k1}
  NoKey = NoKey
  Payloads = {a, b}
  Submitters = {s1, s2}
  Workers = {w1}
  Admins = {}
  MaxAccepted = 1
  MaxRunning = 1
  AgeLimited = TRUE
  MaxAttempts = 1
  MaxJobs = 2
  MaxRetries = 0
SYMMETRY Symmetry
INVARIANTS
  TypeOK
  IdempotentIntake
  ReceiptsHonest
  BoundedBacklog
