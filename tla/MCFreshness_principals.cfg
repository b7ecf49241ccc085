SPECIFICATION Spec
CONSTANTS
  sf = sf
  zd = zd
  f1 = f1
  f2 = f2
  f3 = f3
  Connector = {sf, zd}
  MaxVersion = 0
  MaxClock = 2
  ContentOf <- MCDistinct
  PageCount <- MCTwoPages
  SendsETag = {sf}
  NoETag = NoETag
  Budget <- MCBudget3
  Fetcher = {f1, f2}
  Tag <- MCTag
  Deadlined = {}
  Attended = {}
  SourceErrors = {"transport"}
  Unasked304 = TRUE
  EmptyPages = FALSE
  Principal <- MCTwoPrincipals
  Signature <- MCTwoTables
  ConnOf <- MCConnOf
  KeyOf <- MCKeyOf
  MaxStaleness = {0, 1}
  MaxFetches = 1
INVARIANTS
  OwnInv
  OwnRows
  AnswerIsWhole
SYMMETRY Symmetry
CHECK_DEADLOCK FALSE
