SPECIFICATION LiveSpec
CONSTANTS
  Consumers = {c1, c2}
  Threads = {h1}
  Transports = {"redis", "http"}
  Window = 2
  BatchSize = 1
  MaxQuiet = 1
  MaxRequests = 1
  MaxTime = 2
  MaxFailures = 1
INVARIANTS
  AppliedOnce
  AckedIsSettled
  NothingSkipped
PROPERTIES
  StreamDrains
  CandlesArrive
CHECK_DEADLOCK FALSE
