SPECIFICATION Spec
CONSTANTS
  Conn = {c1, c2, c3}
  Listener = {l1}
  Capacity = 1
  MaxFaults = 2
  None = None
INVARIANTS TypeOK NoOrphanedSender
PROPERTIES EventuallyReached ConnectionsEnd
