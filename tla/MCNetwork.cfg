SPECIFICATION MCSpec
CONSTANTS
  ann = ann
  bob = bob
  i1 = i1
  i2 = i2
  v1 = v1
  Accounts = {ann, bob}
  Texts <- SomeTexts
  MAX_NAME = 2
  Invites = {i1, i2}
  Public = {i1}
  Visitors = {v1}
  MaxTxs = 2
  None = None
  Broken = Broken
  Closed = Closed
  NoIndex = NoIndex
  Edits <- SomeEdits
  Luas <- IndexLuas
  Parts = {"names", "documents", "items", "faults", "search", "refused"}
INVARIANTS Types RegistryIsSound StoredIsWhole IndexIsCurrent
PROPERTIES MadeOnce
CHECK_DEADLOCK FALSE
