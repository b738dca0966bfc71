SPECIFICATION MCSpec
CONSTANTS
  Desktop = {d1, d2}
  Invite = {i1, p1}
  Public = {p1}
  Item = {"a", "b", "bad"}
  BadKind = {"bad"}
  Batch <- Batches
  MaxTokens = 3
  MaxChallenges = 1
  MaxBacklog = 2
INVARIANTS TypeOK IndexHasRecord OnceEach AckedIsStored
PROPERTY ImplementsLedger
SYMMETRY DesktopSymmetry
CHECK_DEADLOCK FALSE
