SPECIFICATION ValuesSpec
CONSTANTS
  MinInt <- MCMinInt
  MaxInt = 3
  MaxDoc = 2
  MaxItems = 4
  Width = 3
  MaxLimits = 2
CHECK_DEADLOCK FALSE
INVARIANTS
  ValuesDiffer
  AutosFollow
  ValidsAgree
