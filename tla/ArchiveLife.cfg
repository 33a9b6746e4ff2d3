\* Two games in two buckets, three hours; one box, one command and one failure.
CONSTANTS
  Games = {g1, g2}
  Here = Here
  There = There
  Days = 3
  Launches = 1
  Troubles = 1
  Commands = 1
SPECIFICATION ArchiveSpec
PROPERTIES
  NothingTooSoon
  NothingLost
  UnusedGoes
CHECK_DEADLOCK FALSE
