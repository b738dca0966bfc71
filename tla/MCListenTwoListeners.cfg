SPECIFICATION Spec
CONSTANTS
  Conn = {c1, c2, c3}
  Listener = {l1, l2}
  Capacity = 1
  MaxFaults = 0
  None = None
PROPERTY EventuallyReached
