SPECIFICATION QuietLiveSpec
CONSTANTS
  JobCount = 2
  Workers = {w1, w2}
  Started = {w1}
  Users = {u1, u2}
  MaxCrashes = 2
INVARIANTS
  ExecutedAlone
  RunAgrees
  ResultsOnce
PROPERTIES
  CancelIsHonoured
  JobsTerminate
CHECK_DEADLOCK FALSE
