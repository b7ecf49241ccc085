SPECIFICATION HTTPSpec
CONSTANTS
  sf = sf
  f1 = f1
  f2 = f2
  f3 = f3
  Connector = {sf}
  MaxVersion = 2
  MaxClock = 0
  ContentOf <- MCReverts
  PageCount <- MCPages
  SendsETag = {sf}
  NoETag = NoETag
  Budget <- MCBudget3
  Fetcher = {f1, f2, f3}
  Tag = {t}
  Deadlined = {f1, f2, f3}
  Attended = {f1, f2, f3}
  SourceErrors = {"transport"}
  Unasked304 = FALSE
  EmptyPages = TRUE
INVARIANTS
  HTTPTypeOK
  BudgetHolds
  SpentBuysCall
  NoPartialResult
  NotModifiedIsWhole
  EtagVouches
  HTTPInv
SYMMETRY Symmetry
