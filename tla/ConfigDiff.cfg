SPECIFICATION Spec
CONSTANTS
  None = None
  Configs <- MCConfigs
INVARIANTS
  RewriteKeeps
  EmptyIffEqual
  Mirror
  WrittenOnce
CHECK_DEADLOCK FALSE
