SPECIFICATION Spec
CONSTANTS
  None = None
  Configs <- MCConfigs
  MaxRuns = 3
INVARIANTS
  Converted
  KeepsMeaning
  FailuresKnown
CHECK_DEADLOCK FALSE
