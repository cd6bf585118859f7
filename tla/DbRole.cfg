SPECIFICATION Spec
CONSTANTS
  r1 = r1
  r2 = r2
  r3 = r3
  Role = {r1, r2, r3}
  All = All
  Default = Default
  None = None
  Op = {"plain", "nullable"}
  NullRef = {"nullable"}
  Rolemap <- MCRolemap
CHECK_DEADLOCK FALSE
INVARIANTS
  TypeOK
  RoleSync
  OnlyGranted
  GrantedRuns
  BoxMatchesSwitch
  StoredNotAbove
PROPERTIES
  PrivilegesShrink
  ImplementsRoleSwitch
