\* Two commands and two viewers; a month of two days, each of two usages of three
\* kinds in two regions; one change and one failed read while a report is made.
SPECIFICATION Spec
CONSTANTS
  Commands = {c1, c2}
  MaxClock = 3
  InRegions = {"APS5", "none"}
  Kinds = {"box", "spot", "egress"}
  Charges = {1, 9}
  MaxUsages = 2
  MaxDays = 2
  DaysInMonth = 30
  MaxMoves = 1
  MaxFails = 1
  Boxes = {b1, b2}
  Viewers = {v1, v2}
CHECK_DEADLOCK FALSE
INVARIANTS
  PricesAreWhole
  MonthAddsUp
  WholeOrUnknown
  StatusIsTrue
