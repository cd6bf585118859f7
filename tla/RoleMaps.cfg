SPECIFICATION Spec
CONSTANTS
  a = a
  b = b
  Role = {a, b}
  Unknown = unknown
  RoleList <- MCRoleList
  Op = {"insert", "search"}
  Missing = "missing"
  Field = {"foo", "bar"}
  NoName = NoName
  MaxRoles = 4
CHECK_DEADLOCK FALSE
INVARIANTS
  RewriteStable
  OpRolesExact
  NoexportExactUnmixed
