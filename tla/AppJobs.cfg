\* The app: two commands given and one run that fails.
SPECIFICATION AppLiveSpec
CONSTANTS
  CgAnswers = TRUE
  Env = {0, 1}
  Given = 2
  Fails = 1
  Calls = {1, 2, 3, 4, 5, 6}
INVARIANTS
  AloneMeansAlone
PROPERTIES
  WindowSettles
CHECK_DEADLOCK FALSE
