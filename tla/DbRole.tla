------------------------------- MODULE DbRole -------------------------------
(***************************************************************************)
(* The database context of a generated C library, as far as roles go       *)
(* (lang-c-source.c: gen_open, gen_func_role_transitions, gen_search,      *)
(* gen_reffind, gen_fill).  The role is kept twice: in the context         *)
(* (ctx->role), where db_role() checks moves with a switch generated from  *)
(* the role tree, and in the sqlbox process, which was given the same tree *)
(* and the statements each role may run when the database was opened.      *)
(***************************************************************************)
EXTENDS RoleState

CONSTANT NullRef   \* queries whose structure has STRCT_HAS_NULLREFS

ASSUME DbRoleAssumption == NullRef \subseteq Op

VARIABLE box   \* the role the sqlbox process is in

vars == <<parent, grant, role, box, status, call, objs>>

TypeOK ==
  /\ parent \in RoleTrees
  /\ grant \in [Op -> Rolemap]
  /\ role \in AnyRole \ {All}
  /\ box \in AnyRole \ {All}
  /\ status \in {"run", "abort", "exit"}
  /\ call \in Call
  /\ objs \subseteq Object

------------------------------------------------------------------------------
(* What the sqlbox process is told when the database is opened. *)

\* gen_role_hier(): the roles above r in sqlbox's hierarchy, which is told of
\* a role's parent unless that is "all".
BoxAbove(r) == Ancestors(parent, r) \cap Role

\* Mutant: sqlbox lets a role move into the roles nested in it.
BoxMayEnterBelow(r) == box = Default \/ r \in {box, None} \/ box \in BoxAbove(r)

\* sqlbox_role(): from the starting role anywhere, into the sink from
\* anywhere, and otherwise up the hierarchy.
BoxMayEnter(r) ==
  \/ box = Default
  \/ r \in {box, None}
  \/ r \in BoxAbove(box)

\* The roles directly below "all", to which statements open to "all" are given.
TopRoles == {r \in Role : parent[r] = All}

\* Mutant: takes "all" for a role like any other, and drops it.
StmtRolesNoAll(rm) == rm \ {All, None}

\* Mutant: gives what is open to a role to the top roles too.
StmtRolesTop(rm) == (rm \ {All, None}) \cup TopRoles

\* gen_role_stmt(), gen_role_stmt_all(): roles given a statement by role map rm.
StmtRoles(rm) == (rm \ {All, None}) \cup (IF All \in rm THEN TopRoles ELSE {})

\* sqlbox lets a role run the statements given to it and to the roles above it.
BoxAllows(r, given) == given \cap ({r} \cup BoxAbove(r)) # {}

\* gen_roles(): every "by unique" statement is given to the top roles, each
\* query to the roles of its map.
MayRun(r, op) == BoxAllows(r, StmtRoles(grant[op]))

MayDeref(r) == BoxAllows(r, StmtRoles({All}))
------------------------------------------------------------------------------
\* gen_open(): the context starts in ROLE_default, and so does sqlbox.
Init ==
  /\ parent \in RoleTrees
  /\ grant \in [Op -> Rolemap]
  /\ role = Default
  /\ box = Default
  /\ status = "run"
  /\ call = [fn |-> "open"]
  /\ objs = {}

\* gen_func_rolecases(): the roles a "case" of db_role()'s switch lets through.
Targets(r) ==
  IF r = Default THEN AnyRole \ {All}
  ELSE IF r = None \/ parent[r] = All THEN {}
  ELSE Ancestors(parent, parent[r]) \ {All}

\* Mutant: ctx->role is left behind when sqlbox has moved.
SetRoleStale(r) ==
  /\ status = "run"
  /\ call' = [fn |-> "role", arg |-> r]
  /\ BoxMayEnter(r)
  /\ box' = r
  /\ UNCHANGED <<parent, grant, objs, status, role>>

\* Mutant: the tree is taken upside down.
SetRoleDown(r) ==
  /\ status = "run"
  /\ call' = [fn |-> "role", arg |-> r]
  /\ IF r = role \/ role = Default \/ r \in Subtree(parent, role)
     THEN box' = r /\ role' = r /\ UNCHANGED status
     ELSE status' = "exit" /\ UNCHANGED <<role, box>>
  /\ UNCHANGED <<parent, grant, objs>>

\* db_role(ctx, r): sqlbox moves first, then the switch on ctx->role decides.
SetRole(r) ==
  /\ status = "run"
  /\ call' = [fn |-> "role", arg |-> r]
  /\ \/ /\ ~BoxMayEnter(r)
        /\ status' = "exit"
        /\ UNCHANGED <<role, box>>
     \/ /\ BoxMayEnter(r)
        /\ r = role \/ r \in Targets(role)
        /\ box' = r
        /\ role' = r
        /\ UNCHANGED status
     \/ /\ BoxMayEnter(r)
        /\ r # role /\ r \notin Targets(role)
        /\ box' = r
        /\ status' = "abort"
        /\ UNCHANGED role
  /\ UNCHANGED <<parent, grant, objs>>

\* db_foo_get_bar(ctx, ...): run the statement, fill the object and stamp it
\* with ctx->role; then db_foo_reffind() runs a "by unique" statement if a
\* nullable reference of the row found is set.
Query(op) ==
  /\ status = "run"
  /\ call' = [fn |-> "query", arg |-> op]
  /\ \/ /\ ~MayRun(box, op)
        /\ status' = "exit"
        /\ UNCHANGED objs
     \/ /\ MayRun(box, op)
        /\ op \in NullRef
        /\ ~MayDeref(box)
        /\ status' = "exit"
        /\ UNCHANGED objs
     \/ /\ MayRun(box, op)
        /\ objs' = objs \cup {[op |-> op, role |-> role]}
        /\ UNCHANGED status
  /\ UNCHANGED <<parent, grant, role, box>>

\* Mutant: "all" is among the values of the enumeration.
NextAll ==
  \/ \E r \in AnyRole : SetRole(r)
  \/ \E op \in Op : Query(op)

Next ==
  \/ \E r \in AnyRole \ {All} : SetRole(r)
  \/ \E op \in Op : Query(op)

Spec == Init /\ [][Next]_vars
------------------------------------------------------------------------------
(* Properties. *)

\* The two copies of the role, ctx->role checked by db_role() and the one
\* sqlbox checks statements against, agree as long as the program runs.
RoleSync == status = "run" => role = box

\* A query that returned was granted, by its role map, to the role stored in
\* its object or to a role above it (man/ort.5, "Roles"): sqlbox's list of
\* statements, built role by role in gen_roles(), lets nothing else through.
OnlyGranted == \A o \in objs : RolemapHas(parent, grant[o.op], o.role)

\* A granted query is not refused, but for one case: "default" may not run
\* the "by unique" statements of db_foo_reffind().
GrantedRuns ==
  status = "exit" /\ call.fn = "query" =>
    \/ ~RolemapHas(parent, grant[call.arg], role)
    \/ role = Default /\ call.arg \in NullRef

\* The list of statements built for sqlbox admits the roles that a "switch"
\* over the role map would: the two ways the generators print a role map
\* (gen_role_stmt() here, gen_role() for JSON and Node.js) mean the same.
BoxMatchesSwitch ==
  \A op \in Op, r \in AnyRole \ {All} :
    MayRun(r, op) <=> r \in CaseLabels(parent, grant[op])

\* The role stored in an object is not above the current one: what
\* json_foo_data() shows of an object is decided by db_role_stored(), and
\* lowering the role later does not turn objects into less privileged ones.
StoredNotAbove ==
  \A o \in objs : role \in Ancestors(parent, o.role) \/ o.role = Default \/ role = None

Runnable == {op \in Op : MayRun(box, op)}

\* Once out of "default" the statements that sqlbox runs for the program
\* only get fewer, however db_role() is called.
PrivilegesShrink ==
  [][box # Default => Runnable' \subseteq Runnable]_vars

\* The library keeps the promise of the manuals on db_role().
Promise == INSTANCE RoleSwitch WITH tree <- parent, alive <- status = "run"

ImplementsRoleSwitch == Promise!Spec

\* man/ort.5:720: the program is terminated if "the current role is not a
\* subtype (inclusive) of the given role for an operation", and so not when
\* the query's role map names the current role itself.
NamedRoleRuns ==
  status = "exit" /\ call.fn = "query" => role \notin grant[call.arg]

\* man/ort.5:715, of "roles all { search id; }": it lets "both the default and
\* logged-in roles" search.
AllHasDefault ==
  status = "exit" /\ call.fn = "query" /\ role = Default => All \notin grant[call.arg]
==============================================================================
