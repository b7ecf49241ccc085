SPECIFICATION Spec
CONSTANTS
  Registry <- MCRegistry
  Policy <- MCPolicy
  Input <- Everything
  Empty = ""
  SourceErrors = {"status", "timeout"}
INVARIANTS
  TypeOK
  ExactResult
  SidesExact
  CallsFit
  EnginesAgree
  ProbesIgnoreRowOrder
  DeniedQueryReadsNothing
  EntitledOutput
