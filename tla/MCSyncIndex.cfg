SPECIFICATION MCSafety
CONSTANTS
  d1 = d1
  d2 = d2
  Desktop = {d1, d2}
  Node = n
  Doc <- TwoDocs
  Edit <- TwoDocEdits
  Capacity = 1
  Ticking = FALSE
  MaxFaults = 1
  MaxTabs = 2
  Scenes = {"echo"}
INVARIANT IndexWithinVault
CHECK_DEADLOCK FALSE
