SPECIFICATION MCSpec
CONSTANTS
  sf = sf
  zd = zd
  r1 = r1
  r2 = r2
  Request = {r1, r2}
  Query <- MCQueries
  Age = {2}
  MaxPages = 2
  MaxRestarts = 1
  Budget <- MCBudget
INVARIANTS
  TypeOK
  EnvelopeRateCurrent
  SummaryIsWorst
  JobOutlivesRequest
  IInv
PROPERTIES
  JobsSettle
  EveryRequestEnds
  KeepsJobs
CHECK_DEADLOCK FALSE
