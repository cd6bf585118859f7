SPECIFICATION Spec
CONSTANTS
  MaxTerms = 4
  MaxRows = 3
CHECK_DEADLOCK FALSE
INVARIANTS
  BindsTerms
  OnlyVerified
  NothingLeft
  OwnStatement
  RefusedKnown
