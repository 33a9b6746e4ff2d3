\* Both kinds of box, started again once, with one failed pass.
CONSTANTS
  Grace = 1
  IdleLimit = 3
  IdleWindow = 3
  SlowAfter = 1
  StuckAfter = 2
  Starts = 1
  Misses = 1
SPECIFICATION Spec
INVARIANTS
  UnsavedIsSaid
PROPERTIES
  EndedForAReason
  NotLeftOn
CHECK_DEADLOCK FALSE
