SPECIFICATION Spec
CONSTANTS
  JobCount = 1
  Workers = {w1, w2}
  Started = {w1}
  Users = {}
  MaxCrashes = 0
INVARIANTS
  ExecutedAlone
CHECK_DEADLOCK FALSE
