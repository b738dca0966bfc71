SPECIFICATION MCSpec
CONSTANTS
  ValidId = {"w", "a"}
  MaxChain = 3
  Node = n
  Desktop = {d1, d2}
  RoleName = {"maintainer", "member"}
  ScopeSet <- MCScopes
  Ttl = 1
  MaxTime = 1
  MaxTokens = 4
  Nonce = {i1}
  Lifetime = {1, 2}
INVARIANTS TypeOK ChainCheckIsExact ReachNeverWidens PowerTracesToClaimant ScopesNarrow
SYMMETRY DesktopSymmetry
CHECK_DEADLOCK FALSE
