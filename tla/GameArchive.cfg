SPECIFICATION Spec
CONSTANTS
  big = big
  small = small
  Games <- MCGames
  Size <- MCSize
  Room = 1100
  Forces = {FALSE}
  Faults = {"pull_fails", "push_fails", "forget_fails", "reset", "taken"}
  Unlucky <- MCUnlucky
  Together = {}
  Chosen <- MCGames
  MaxVersion = 1
  MaxBoots = 1
  MaxPushes = 1
INVARIANTS
  StoppedIsSaved
PROPERTIES
  PartialNeverOverWhole
  ArchiveIsSound
CHECK_DEADLOCK FALSE
