SPECIFICATION MCSpec
CONSTANTS
  plain = plain
  picky = picky
  broken = broken
  empty = empty
  board = board
  log = log
  title = title
  list = list
  Source = {plain, picky, broken, empty}
  DocName = {board, log}
  Id = {title, list}
  None = None
  Main <- MCMain
  Opens <- MCOpens
  Draws <- MCDraws
  Breaks <- MCBreaks
  First = plain
  MaxWrites = 2
  MaxEdits = 2
  MaxFaults = 1
  a = a
  b = b
  Title = Title
  Cards = Cards
  Null = Null
  Bad = Bad
  c1 = c1
  c2 = c2
  narrow = narrow
  wide = wide
  Absent = Absent
  Closed = Closed
  Parts = {"host", "faults", "tree", "edit", "clients"}
INVARIANTS Types Watermarks ReloadIsTold EditsAreSound
PROPERTY WritesAreKept
CHECK_DEADLOCK FALSE
