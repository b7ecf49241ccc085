SPECIFICATION Spec
CONSTANTS
  sf = sf
  zd = zd
  r1 = r1
  r2 = r2
  Request = {r1, r2}
  Query <- MCChunked
  Age = {0, 2}
  MaxPages = 2
  MaxRestarts = 0
  Budget <- MCBudget
INVARIANTS
  CacheHitMeansAll
CHECK_DEADLOCK FALSE
