-------------------------------- MODULE Roles --------------------------------
(***************************************************************************)
(* The role tree of a configuration.  A "roles" block (parser_roles.c)     *)
(* makes three reserved roots, "none", "default" and "all"; every role the *)
(* block names hangs below "all", directly or below another role.          *)
(*                                                                         *)
(* A tree is the function from a role to its parent (struct role.parent).  *)
(* Walks up and down the tree are stated without recursion, as least       *)
(* closed sets, so that they can be used in proofs.                        *)
(***************************************************************************)
CONSTANTS
  Role,     \* names given in the "roles" block
  All,      \* reserved: the root of every role in Role
  Default,  \* reserved: the role of a database context just opened
  None      \* reserved: the role that may do nothing

Reserved == {All, Default, None}

AnyRole == Role \cup Reserved

ASSUME ReservedAssumption ==
  /\ All # Default /\ All # None /\ Default # None
  /\ Role \cap {All, Default, None} = {}

\* The trees parse_role() can build: a parent exists before its children, so
\* no set of roles is closed under taking the parent.
RoleTrees ==
  {p \in [Role -> Role \cup {All}] :
     \A S \in (SUBSET Role) \ {{}} : \E r \in S : p[r] \notin S}

Closed(p, S) == \A x \in S \cap Role : p[x] \in S

\* r and all it is nested in: "for (rc = r; rc != NULL; rc = rc->parent)".
\* The reserved roles have no parent.
Ancestors(p, r) ==
  IF r \notin Role THEN {r}
  ELSE {a \in Role \cup {All} :
          \A S \in SUBSET (Role \cup {All}) : r \in S /\ Closed(p, S) => a \in S}

\* r and all that is nested in it: the recursion over struct role.subrq.
Subtree(p, r) == {d \in AnyRole : r \in Ancestors(p, d)}

\* Whether the role map rm speaks of role r.
RolemapHas(p, rm, r) == \E m \in rm : m \in Ancestors(p, r)

\* The "case" labels printed for a role map: its roles and all below them.
\* "all" is no value of the enumeration, so it is never printed.
CaseLabels(p, rm) == (UNION {Subtree(p, m) : m \in rm}) \ {All}
==============================================================================
