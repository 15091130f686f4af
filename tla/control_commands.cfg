SPECIFICATION LiveSpec
CONSTANTS
  Keys = {k1}
  All = All
  Actions = {"PAUSE", "RESUME", "RECONNECT", "BACKFILL"}
  Reported = {"ONLINE"}
  PollLimit = 2
  MaxCommands = 2
  MaxCrashes = 1
  MaxDeletes = 1
INVARIANTS
  LastWordHolds
  HeldBackIsPaused
PROPERTIES
  PausedUntilResumed
  CommandsEnd
  EnabledIsCollected
CHECK_DEADLOCK FALSE
