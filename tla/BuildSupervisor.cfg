SPECIFICATION FairSpec
CONSTANTS
  base = base
  desktop = desktop
  xorg = xorg
  scratch = scratch
  finish = finish
  apt = apt
  Stages <- MCStages
  Order <- MCOrder
  Needs <- MCNeeds
  Locks = {apt}
  LockOf <- MCLockOf
  Retries <- MCRetries
  RebootAfter <- MCFinish
  MaxParallel = 2
  Faults = {"box"}
  MaxCrashes = 2
  MaxRetries = 1
  RetryBusy = FALSE
  Nameable <- MCNone
INVARIANTS
  RetryAnswered
  RecordIsTrue
PROPERTIES
  FollowsThePlan
  DesktopComesUp
CHECK_DEADLOCK FALSE
