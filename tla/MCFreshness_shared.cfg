SPECIFICATION Spec
CONSTANTS
  sf = sf
  zd = zd
  f1 = f1
  f2 = f2
  f3 = f3
  Connector = {sf}
  MaxVersion = 2
  MaxClock = 2
  ContentOf <- MCReverts
  PageCount <- MCTwoPages
  SendsETag = {sf}
  NoETag = NoETag
  Budget <- MCBudget4
  Fetcher = {f1, f2}
  Tag <- MCTag
  Deadlined = {}
  Attended = {}
  SourceErrors = {}
  Unasked304 = FALSE
  EmptyPages = FALSE
  Principal = {p}
  Signature = {accounts}
  ConnOf <- MCOneConn
  KeyOf <- MCPlainKey
  MaxStaleness = {1}
  MaxFetches = 2
INVARIANTS
  FreshTypeOK
  StalenessBound
  AgeIsHonest
  EntriesHonest
  IInv
PROPERTIES
  KeepsPromise
SYMMETRY Symmetry
CHECK_DEADLOCK FALSE
