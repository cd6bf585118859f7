SPECIFICATION NodeSpec
CONSTANTS
  r1 = r1
  r2 = r2
  r3 = r3
  Role = {r1, r2, r3}
  All = All
  Default = Default
  None = None
  Op = {"get", "list"}
  Rolemap <- MCRolemap
  Strct = {"a", "b", "c"}
  Model <- MCModel
CHECK_DEADLOCK FALSE
INVARIANTS
  Guarded
  StoredAbove
  AuditExact
