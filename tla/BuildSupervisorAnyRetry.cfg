SPECIFICATION FairSpec
CONSTANTS
  base = base
  desktop = desktop
  xorg = xorg
  scratch = scratch
  finish = finish
  apt = apt
  Stages <- SmallStages
  Order <- SmallOrder
  Needs <- SmallNeeds
  Locks = {apt}
  LockOf <- SmallLockOf
  Retries <- SmallRetries
  RebootAfter <- MCFinish
  MaxParallel = 2
  Faults = {"process", "box", "reboot_refused"}
  MaxCrashes = 1
  MaxRetries = 1
  RetryBusy = TRUE
  Nameable <- MCNamed
INVARIANTS
  LockExclusive
  NeedsFirst
CHECK_DEADLOCK FALSE
PROPERTIES
  ComesToRest
