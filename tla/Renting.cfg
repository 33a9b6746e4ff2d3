\* Two regions; three games of up to three units; a disk step is two; three tries and two rounds of waiting.
SPECIFICATION RentingSpec
CONSTANTS
  Regions = {"home", "away"}
  Home = "home"
  MaxMS = 2
  Slack = 3
  Far = 4
  Scores = {0, 1}
  MaxScans = 1
  Games = {g1, g2, g3}
  MaxSize = 3
  Drives = {0, 4}
  Asks = {0, 5}
  Reserve = 1
  Step = 2
  MaxDisk = 8
  FormatLoss = 1
  Tries = 3
  MaxWait = 2
  MaxCuts = 1
  Given = 2
  MaxKeys = 3
INVARIANTS
  EveryRegionAccounted
  LaunchedIsReachable
PROPERTIES
  GamesAsChosen
  RefusedForAReason
  JoinsWithAKey
CHECK_DEADLOCK FALSE
