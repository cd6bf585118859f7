----------------------------- MODULE MCRoleMaps -----------------------------
(* RoleMaps with two roles, two operations and two fields. *)
EXTENDS RoleMaps

CONSTANTS a, b

MCRoleList == {<<a>>, <<b>>, <<a, b>>, <<Unknown>>}
==============================================================================
