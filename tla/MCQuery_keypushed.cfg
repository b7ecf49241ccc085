SPECIFICATION Spec
CONSTANTS
  Registry <- MCRegistry
  Policy <- MCPolicy
  Input <- KeyPushed
  Empty = ""
  SourceErrors = {}
INVARIANTS
  ExactResult
