SPECIFICATION MCSpec
CONSTANTS
  ann = ann
  bob = bob
  board = board
  notes = notes
  todoList = todoList
  pad = pad
  row = row
  Parts = {"both"}
  Account = {ann, bob}
  None = None
  Frontends = {"window", "bridge"}
  MaxJobs = 4
  MaxFaults = 0
  MaxEdits = 1
INVARIANT OwnDocs
CHECK_DEADLOCK FALSE
