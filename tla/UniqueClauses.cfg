SPECIFICATION Spec
CONSTANTS
  Field = {1, 2, 3}
  MaxClauses = 3
CHECK_DEADLOCK FALSE
INVARIANTS
  ClausesSettled
  OneRow
