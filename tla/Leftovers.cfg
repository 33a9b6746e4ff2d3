\* Up to three kinds of things at first, in two regions; two failures of what
\* is said when it fails.
CONSTANTS
  Regions = {"here", "there"}
  Home = "here"
  Bundles = 3
  Faults = {"call", "said_read", "silent_read", "silent_regions"}
  MaxFaults = 2
SPECIFICATION LeavingFairSpec
INVARIANTS
  DoneIsTrue
PROPERTIES
  GuardedUntilGone
  AgainFinishes
