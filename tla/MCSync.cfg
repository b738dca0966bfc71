SPECIFICATION MCSpec
CONSTANTS
  d1 = d1
  d2 = d2
  Desktop = {d1, d2}
  Node = n
  Doc <- OneDoc
  Edit <- OneDocEdits
  Capacity = 1
  Ticking = TRUE
  MaxFaults = 1
  MaxTabs = 2
  Scenes = {"timer", "echo"}
INVARIANTS SyncKeeps
PROPERTIES Settles ImplementsReplicas
CHECK_DEADLOCK FALSE
