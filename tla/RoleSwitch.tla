----------------------------- MODULE RoleSwitch -----------------------------
(***************************************************************************)
(* What the manuals promise of the role of a database context              *)
(* (man/ort-c-header.1, man/ort-nodejs.1, "db_role"): it starts as         *)
(* "default", it may move to an ancestor of the current role, and the only *)
(* other moves are out of "default" and into "none".  Anything else stops  *)
(* the program.                                                            *)
(***************************************************************************)
EXTENDS Roles

VARIABLES
  tree,   \* the role tree the library was generated from
  role,   \* the current role
  alive   \* FALSE once the program was stopped

vars == <<tree, role, alive>>

Init ==
  /\ tree \in RoleTrees
  /\ role = Default
  /\ alive = TRUE

MayEnter(r) ==
  /\ role # None
  /\ role = Default \/ r = None \/ r \in Ancestors(tree, role)

Move(r) ==
  /\ alive
  /\ MayEnter(r)
  /\ role' = r
  /\ UNCHANGED <<tree, alive>>

Stop ==
  /\ alive
  /\ alive' = FALSE
  /\ UNCHANGED <<tree, role>>

Next == Stop \/ \E r \in AnyRole \ {All} : Move(r)

Spec == Init /\ [][Next]_vars
==============================================================================
