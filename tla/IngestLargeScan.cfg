SPECIFICATION Spec
CONSTANTS
  j1 = j1
  j2 = j2
  j3 = j3
  k1 = k1
  k2 = k2
  None = None
  Workers = {w1}
  Jobs = {j1, j2}
  Keys = {k1, k2}
  Users = {}
  Edits = {}
  Names = {"", "main"}
  Report <- Reported
  Gate <- Gates
  QueryLimit = 1
  MaxAttempts = 2
  MaxScans = 3
  MaxFaults = 1
CHECK_DEADLOCK FALSE
INVARIANT TrackedAgainstAll
