SPECIFICATION Spec
CONSTANTS
  Registry <- MCRegistry
  Policy <- MCPolicy
  Input <- NotEqual
  Empty = ""
  SourceErrors = {}
INVARIANTS
  EntitledOutput
