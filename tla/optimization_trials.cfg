SPECIFICATION LiveSpec
CONSTANTS
  RunCount = 1
  Workers = {w1}
  Started = {}
  Users = {u1}
  Trials = 4
  CommitInterval = 2
  CancelInterval = 2
  CandidateLimit = 2
  Scores = {1, 2}
  MaxCrashes = 1
  MaxUnstored = 1
INVARIANTS
  CommitsAgree
  SucceededIsComplete
PROPERTIES
  RunsTerminate
  CancelIsHonoured
CHECK_DEADLOCK FALSE
