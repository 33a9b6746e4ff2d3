\* The region in use and one more; one thing that goes wrong, one change from outside.
CONSTANTS
  Regions = {"here", "there"}
  Faults = {"call", "cut_off", "read", "slow"}
  MaxFaults = 1
  MaxEdits = 1
SPECIFICATION GuardFairSpec
PROPERTIES
  SaidIsSo
  RoleOutlivesItsUsers
  NotificationsKept
  InitRepairs
