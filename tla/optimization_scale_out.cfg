SPECIFICATION Spec
CONSTANTS
  RunCount = 1
  Workers = {w1, w2}
  Started = {w1}
  Users = {}
  Trials = 3
  CommitInterval = 2
  CancelInterval = 2
  CandidateLimit = 1
  Scores = {1, 2}
  MaxCrashes = 0
  MaxUnstored = 0
INVARIANTS
  OneExecution
CHECK_DEADLOCK FALSE
