SPECIFICATION Spec
CONSTANTS
  c1 = c1
  c2 = c2
  Caller = {c1, c2}
  Statement <- Statements
  Catalogs <- EnforcementChanges
  Providers <- PolicyChanges
  Registry <- MCRegistry
  Token <- MCTokens
  MaxCalls = 1
INVARIANTS
  TypeOK
  Transparent
  OwnPlan
  CacheInv
PROPERTIES
  EntriesSettled
SYMMETRY Symmetry
CHECK_DEADLOCK FALSE
