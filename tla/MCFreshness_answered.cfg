SPECIFICATION FairSpec
CONSTANTS
  sf = sf
  zd = zd
  f1 = f1
  f2 = f2
  f3 = f3
  Connector = {sf}
  MaxVersion = 0
  MaxClock = 1
  ContentOf <- MCDistinct
  PageCount <- MCOnePage
  SendsETag = {sf}
  NoETag = NoETag
  Budget <- MCBudget2
  Fetcher = {f1, f2}
  Tag <- MCTag
  Deadlined = {f1}
  Attended = {f2}
  SourceErrors = {}
  Unasked304 = FALSE
  EmptyPages = TRUE
  Principal = {p}
  Signature = {accounts}
  ConnOf <- MCOneConn
  KeyOf <- MCPlainKey
  MaxStaleness = {0, 1}
  MaxFetches = 2
PROPERTIES
  EveryFetchAnswered
CHECK_DEADLOCK FALSE
