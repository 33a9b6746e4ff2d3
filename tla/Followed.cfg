\* A build followed twice, five polls each; three records, three lines, one retry and one crash.
SPECIFICATION Spec
CONSTANTS
  MaxPolls = 5
  StateEvery = 3
  Clouds = {"running", "done", "error"}
  Faults = {"drop", "host_key", "crash"}
  MaxFollows = 2
  MaxEvents = 3
  MaxLines = 3
  MaxRetries = 1
  MaxCrashes = 1
  SetupBusy = TRUE
INVARIANTS
  ShownOnceInOrder
  SaidWithinAMinute
PROPERTIES
  VerdictIsTrue
CHECK_DEADLOCK FALSE
