------------------------------ MODULE NodeRole ------------------------------
(***************************************************************************)
(* The class "ortctx" of a generated Node.js module, as far as roles go    *)
(* (lang-nodejs.c: gen_ortctx_dbrole, gen_rolemap, gen_ortctx_dbrole_role).*)
(* There is no other process: the role is the private member #role, moves  *)
(* are checked by the switch of db_role(), queries by a switch at their    *)
(* head.  Violations call process.abort().                                 *)
(***************************************************************************)
EXTENDS RoleState

nodeVars == <<parent, grant, role, status, call, objs>>

NodeTypeOK ==
  /\ parent \in RoleTrees
  /\ grant \in [Op -> Rolemap]
  /\ role \in AnyRole \ {All}
  /\ status \in {"run", "abort"}
  /\ call \in Call
  /\ objs \subseteq Object

\* The member initialiser of class ortctx.
NodeInit ==
  /\ parent \in RoleTrees
  /\ grant \in [Op -> Rolemap]
  /\ role = Default
  /\ status = "run"
  /\ call = [fn |-> "open"]
  /\ objs = {}

\* Mutant: tests the role moved from where the role moved to is meant.
NodeTargetsSiblings(r) == IF r = Default THEN AnyRole ELSE IF r = None THEN {} ELSE Role

\* gen_ortctx_dbrole_role(): the inner "case" labels are printed by gen_role()
\* for the current role, which prints that role and all roles nested in it.
NodeTargets(r) ==
  IF r = Default THEN AnyRole ELSE IF r = None THEN {} ELSE CaseLabels(parent, {r})

\* db_role(newrole); the argument is any string, "all" too.
NodeSetRole(r) ==
  /\ status = "run"
  /\ call' = [fn |-> "role", arg |-> r]
  /\ \/ /\ r = role \/ (r # All /\ r \in NodeTargets(role))
        /\ role' = r
        /\ UNCHANGED status
     \/ /\ r # role /\ (r = All \/ r \notin NodeTargets(role))
        /\ status' = "abort"
        /\ UNCHANGED role
  /\ UNCHANGED <<parent, grant, objs>>

\* Mutant: prints only the roles named, not the ones nested in them.
MayCallNamed(op) == grant[op] = {} \/ role \in grant[op]

\* gen_rolemap(): nothing is printed for a query without a role map.
MayCall(op) == grant[op] = {} \/ role \in CaseLabels(parent, grant[op])

\* db_foo_get_bar(...): new ortns.foo(this.#role, obj).
NodeQuery(op) ==
  /\ status = "run"
  /\ call' = [fn |-> "query", arg |-> op]
  /\ \/ /\ MayCall(op)
        /\ objs' = objs \cup {[op |-> op, role |-> role]}
        /\ UNCHANGED status
     \/ /\ ~MayCall(op)
        /\ status' = "abort"
        /\ UNCHANGED objs
  /\ UNCHANGED <<parent, grant, role>>

NodeNext ==
  \/ \E r \in AnyRole : NodeSetRole(r)
  \/ \E op \in Op : NodeQuery(op)

NodeSpec == NodeInit /\ [][NodeNext]_nodeVars
------------------------------------------------------------------------------
(* Properties. *)

\* A query with a role map returns to the roles that the map speaks of, and
\* aborts for no other reason than that it does not speak of the current role.
Guarded ==
  /\ \A o \in objs : grant[o.op] # {} => RolemapHas(parent, grant[o.op], o.role)
  /\ status = "abort" /\ call.fn = "query" => ~RolemapHas(parent, grant[call.arg], role)

\* Roles only move down the tree: the role stored in an object, which decides
\* what db_export_foo() shows, is the current one or one it is nested in.
StoredAbove ==
  \A o \in objs : o.role = Default \/ o.role \in Ancestors(parent, role)

\* man/ort-nodejs.1:122 and the comment above db_role() (lang-nodejs.c:1958):
\* "Roles may only transition to ancestor roles, not descendant roles", but
\* for leaving "default" or entering "none".
OnlyToAncestors ==
  [][role' # role => role = Default \/ role' = None \/ role' \in Ancestors(parent, role)]_nodeVars

\* man/ort.5:1034: with roles the system is in "default-deny access control
\* mode, and each function [...] must be associated with one or more roles to
\* be used".
DefaultDeny == \A o \in objs : grant[o.op] # {}
==============================================================================
