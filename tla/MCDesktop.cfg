SPECIFICATION MCFairSpec
CONSTANTS
  ann = ann
  bob = bob
  board = board
  notes = notes
  todoList = todoList
  pad = pad
  row = row
  Parts = {"bridge", "window", "tabs", "screen", "switches", "follows", "driver", "agree"}
  Account = {ann, bob}
  None = None
  Frontends = {"window", "bridge"}
  MaxJobs = 4
  MaxFaults = 1
  MaxEdits = 1
INVARIANTS Types  TabsAgree DriverIsTrue
PROPERTIES TabsSettle ThreadsEnd
CHECK_DEADLOCK FALSE
