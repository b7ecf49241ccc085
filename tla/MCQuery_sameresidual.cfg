SPECIFICATION Spec
CONSTANTS
  Registry <- MCRegistry
  Policy <- MCPolicy
  Input <- SameResidual
  Empty = ""
  SourceErrors = {}
INVARIANTS
  BuiltPlanPasses
