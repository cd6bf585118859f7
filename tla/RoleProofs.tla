----------------------------- MODULE RoleProofs -----------------------------
(***************************************************************************)
(* What the runs of DbRole and NodeRole check with three roles, proved for *)
(* every set of roles, every role tree, every set of queries and every     *)
(* role map; and, for every model, that an audit reports what is exported. *)
(***************************************************************************)
EXTENDS DbRole, Audit, SequenceTheorems, CountLemmas

\* A role is among its ancestors, which are roles or "all".
LEMMA AncestorsSelf ==
  ASSUME NEW p, NEW r \in AnyRole
  PROVE  /\ r \in Ancestors(p, r)
         /\ Ancestors(p, r) \subseteq AnyRole
         /\ r \in Role => Ancestors(p, r) \subseteq Role \cup {All}
  BY DEF Ancestors, AnyRole, Reserved

\* With a role, its parent is among the ancestors.
LEMMA AncestorsClosed ==
  ASSUME NEW p \in [Role -> Role \cup {All}],
         NEW r \in AnyRole, NEW x \in Role, x \in Ancestors(p, r)
  PROVE  p[x] \in Ancestors(p, r)
<1>1. r \in Role
  BY ReservedAssumption DEF Ancestors, AnyRole, Reserved
<1>2. ASSUME NEW S \in SUBSET (Role \cup {All}), r \in S, Closed(p, S)
      PROVE  p[x] \in S
  <2>1. x \in S
    BY <1>1, <1>2 DEF Ancestors
  <2> QED
    BY <1>2, <2>1 DEF Closed
<1> QED
  BY <1>1, <1>2 DEF Ancestors

\* Being an ancestor is transitive.
LEMMA AncestorsTransitive ==
  ASSUME NEW p \in [Role -> Role \cup {All}],
         NEW a \in AnyRole, NEW b \in AnyRole, NEW c \in AnyRole,
         a \in Ancestors(p, b), b \in Ancestors(p, c)
  PROVE  a \in Ancestors(p, c)
<1>1. CASE c \notin Role
  BY <1>1 DEF Ancestors
<1>2. CASE c \in Role /\ b \notin Role
  BY <1>2 DEF Ancestors
<1>3. CASE c \in Role /\ b \in Role
  <2>1. ASSUME NEW S \in SUBSET (Role \cup {All}), c \in S, Closed(p, S)
        PROVE  a \in S
    <3>1. b \in S
      BY <1>3, <2>1 DEF Ancestors
    <3> QED
      BY <1>3, <2>1, <3>1 DEF Ancestors
  <2>2. a \in Role \cup {All}
    BY <1>3 DEF Ancestors
  <2> QED
    BY <1>3, <2>1, <2>2 DEF Ancestors
<1> QED
  BY <1>1, <1>2, <1>3

\* A role that has "all" among its ancestors has a top role among them.
LEMMA TopRoleAbove ==
  ASSUME NEW p \in [Role -> Role \cup {All}],
         NEW r \in Role, All \in Ancestors(p, r)
  PROVE  \E t \in Role : t \in Ancestors(p, r) /\ p[t] = All
<1> DEFINE S == Ancestors(p, r) \cap Role
<1>1. SUFFICES ASSUME \A t \in Role : t \in Ancestors(p, r) => p[t] # All
               PROVE  FALSE
  OBVIOUS
<1>2. r \in S
  BY AncestorsSelf DEF AnyRole
<1>3. Closed(p, S)
  <2>1. SUFFICES ASSUME NEW x \in S PROVE p[x] \in S
    BY DEF Closed
  <2>2. p[x] \in Ancestors(p, r)
    BY AncestorsClosed DEF AnyRole
  <2>3. p[x] \in Role
    BY <1>1, <2>1
  <2> QED
    BY <2>2, <2>3
<1>4. All \in S
  BY <1>2, <1>3 DEF Ancestors
<1> QED
  BY <1>4, ReservedAssumption

\* Every role of a tree is below "all", or there would be roles closed under
\* taking the parent.
LEMMA AllAbove ==
  ASSUME NEW p \in RoleTrees, NEW r \in Role
  PROVE  All \in Ancestors(p, r)
<1> DEFINE S == Ancestors(p, r) \cap Role
<1>1. p \in [Role -> Role \cup {All}] /\ r \in AnyRole
  BY DEF RoleTrees, AnyRole
<1>2. r \in S
  BY <1>1, AncestorsSelf
<1>3. PICK x \in S : p[x] \notin S
  BY <1>2 DEF RoleTrees
<1>4. p[x] \in Ancestors(p, r)
  BY <1>1, AncestorsClosed
<1> QED
  BY <1>1, <1>3, <1>4
------------------------------------------------------------------------------

\* The list of statements given to sqlbox and a switch over the role map
\* admit the same roles, in every state of the right type.
LEMMA BoxMatches ==
  ASSUME TypeOK
  PROVE  BoxMatchesSwitch
<1> USE DEF AnyRole, Reserved
<1>1. SUFFICES ASSUME NEW op \in Op, NEW r \in AnyRole \ {All}
               PROVE  MayRun(r, op) <=> r \in CaseLabels(parent, grant[op])
  BY DEF BoxMatchesSwitch
<1> DEFINE g == grant[op]
<1>2. g \subseteq AnyRole \ {None}
  BY RolemapAssumption DEF TypeOK
<1>3. parent \in [Role -> Role \cup {All}]
  BY DEF TypeOK, RoleTrees
<1>4. r \in CaseLabels(parent, g) <=> \E m \in g : m \in Ancestors(parent, r)
  BY <1>2 DEF CaseLabels, Subtree
<1>5. MayRun(r, op) <=>
        \E s \in StmtRoles(g) : s = r \/ (s \in Ancestors(parent, r) /\ s \in Role)
  BY DEF MayRun, BoxAllows, BoxAbove
<1>6. CASE r \notin Role
  <2>1. Ancestors(parent, r) = {r}
    BY <1>6 DEF Ancestors
  <2>2. r \in StmtRoles(g) <=> r \in g
    BY <1>1, <1>2, <1>6, ReservedAssumption DEF StmtRoles, TopRoles
  <2> QED
    BY <1>4, <1>5, <1>6, <2>1, <2>2
<1>7. CASE r \in Role
  <2>1. ASSUME NEW m \in g, m \in Ancestors(parent, r) PROVE MayRun(r, op)
    <3>1. CASE m = All
      <4>1. PICK t \in Role : t \in Ancestors(parent, r) /\ parent[t] = All
        BY <1>3, <1>7, <2>1, <3>1, TopRoleAbove
      <4> QED
        BY <1>5, <2>1, <3>1, <4>1 DEF StmtRoles, TopRoles
    <3>2. CASE m # All
      <4>1. m \in Role
        BY <1>7, <2>1, <3>2 DEF Ancestors
      <4> QED
        BY <1>5, <2>1, <3>2, <4>1, ReservedAssumption DEF StmtRoles
    <3> QED
      BY <3>1, <3>2
  <2>2. ASSUME NEW s \in StmtRoles(g), s = r \/ (s \in Ancestors(parent, r) /\ s \in Role)
        PROVE  \E m \in g : m \in Ancestors(parent, r)
    <3>1. s \in Ancestors(parent, r) /\ s \in Role
      BY <1>7, <2>2, AncestorsSelf
    <3>2. CASE s \in g
      BY <3>1, <3>2
    <3>3. CASE All \in g /\ s \in TopRoles
      <4>1. parent[s] \in Ancestors(parent, r)
        BY <1>3, <1>7, <3>1, AncestorsClosed
      <4> QED
        BY <3>3, <4>1 DEF TopRoles
    <3> QED
      BY <2>2, <3>2, <3>3 DEF StmtRoles
  <2> QED
    BY <1>4, <1>5, <2>1, <2>2
<1> QED
  BY <1>6, <1>7
------------------------------------------------------------------------------
(***************************************************************************)
(* The inductive invariant.  RoleSync is what lets a fact about sqlbox's   *)
(* role (which statements ran) be read as one about ctx->role (what was    *)
(* stored in the object), so the two properties of objects need it.        *)
(***************************************************************************)
IInv == TypeOK /\ RoleSync /\ OnlyGranted /\ StoredNotAbove

\* When the program starts no database is open, both roles are "default" and
\* no object exists.
LEMMA InitIInv == Init => IInv
  BY ReservedAssumption
  DEF Init, IInv, TypeOK, RoleSync, OnlyGranted, StoredNotAbove, AnyRole,
      Reserved, Call

\* Where db_role() lets the role go, from any role but "default".
LEMMA TargetsAbove ==
  ASSUME TypeOK, NEW r \in Targets(role), role # Default
  PROVE  r \in Ancestors(parent, role)
<1>1. parent \in [Role -> Role \cup {All}] /\ role \in Role
  BY DEF TypeOK, RoleTrees, Targets, AnyRole, Reserved
<1>2. parent[role] \in Ancestors(parent, role)
  BY <1>1, AncestorsSelf, AncestorsClosed DEF AnyRole
<1>3. r \in Ancestors(parent, parent[role])
  BY <1>1 DEF Targets
<1>4. r \in AnyRole
  BY <1>1, <1>3, AncestorsSelf DEF AnyRole, Reserved
<1> QED
  BY <1>1, <1>2, <1>3, <1>4, AncestorsTransitive DEF AnyRole, Reserved

\* db_role() preserves the invariant.
LEMMA SetRoleIInv ==
  ASSUME IInv, NEW r \in AnyRole \ {All}, SetRole(r)
  PROVE  IInv'
<1>1. TypeOK'
  BY DEF IInv, TypeOK, SetRole, Call
<1>2. RoleSync'
  BY DEF IInv, RoleSync, SetRole
<1>3. OnlyGranted'
  BY DEF IInv, OnlyGranted, SetRole, RolemapHas
<1>4. StoredNotAbove'
  <2>1. CASE role' = role
    BY <2>1 DEF IInv, StoredNotAbove, SetRole
  <2>2. CASE role' # role
    <3>1. r \in Targets(role) /\ role' = r /\ UNCHANGED <<parent, objs>>
      BY <2>2 DEF SetRole
    <3>2. SUFFICES ASSUME NEW o \in objs, o.role # Default, r # None
                   PROVE  r \in Ancestors(parent, o.role)
      BY <3>1 DEF StoredNotAbove
    <3>3. role # None
      BY <3>1, ReservedAssumption DEF Targets
    <3>4. role \in Ancestors(parent, o.role)
      BY <3>2, <3>3 DEF IInv, StoredNotAbove
    <3>5. o.role \in AnyRole /\ role \in AnyRole
      BY DEF IInv, TypeOK, Object
    <3>6. role # Default
      BY <3>2, <3>4, <3>5, ReservedAssumption DEF Ancestors
    <3>7. r \in Ancestors(parent, role)
      BY <3>1, <3>6, TargetsAbove DEF IInv
    <3> QED
      BY <3>4, <3>5, <3>7, AncestorsTransitive DEF IInv, TypeOK, RoleTrees
  <2> QED
    BY <2>1, <2>2
<1> QED
  BY <1>1, <1>2, <1>3, <1>4 DEF IInv

\* A query preserves the invariant.
LEMMA QueryIInv ==
  ASSUME IInv, NEW op \in Op, Query(op)
  PROVE  IInv'
<1> DEFINE new == [op |-> op, role |-> role]
<1>0. objs' = objs \/ (MayRun(box, op) /\ objs' = objs \cup {new})
  BY DEF Query
<1>1. TypeOK'
  <2>1. new \in Object
    BY DEF IInv, TypeOK, Object
  <2>2. objs' \subseteq Object
    BY <1>0, <2>1 DEF IInv, TypeOK
  <2> QED
    BY <2>2 DEF IInv, TypeOK, Query, Call
<1>2. RoleSync'
  BY DEF IInv, RoleSync, Query
<1>3. OnlyGranted'
  <2>1. ASSUME MayRun(box, op) PROVE RolemapHas(parent, grant[op], role)
    <3>1. role \in CaseLabels(parent, grant[op])
      <4>1. role = box
        BY DEF IInv, RoleSync, Query
      <4> QED
        BY <2>1, <4>1, BoxMatches DEF IInv, BoxMatchesSwitch, TypeOK
    <3> QED
      BY <3>1 DEF CaseLabels, Subtree, RolemapHas
  <2>2. SUFFICES ASSUME NEW o \in objs'
                 PROVE  RolemapHas(parent, grant[o.op], o.role)
    BY DEF OnlyGranted, RolemapHas, Query
  <2>3. CASE o \in objs
    BY <2>3 DEF IInv, OnlyGranted
  <2>4. CASE o \notin objs
    BY <1>0, <2>1, <2>2, <2>4
  <2> QED
    BY <2>3, <2>4
<1>4. StoredNotAbove'
  <2>1. role \in Ancestors(parent, role)
    BY AncestorsSelf DEF IInv, TypeOK
  <2> QED
    BY <1>0, <2>1 DEF IInv, StoredNotAbove, Query
<1> QED
  BY <1>1, <1>2, <1>3, <1>4 DEF IInv

\* Opening, switching roles and queries keep the invariant: one step each.
LEMMA StepIInv == IInv /\ [Next]_vars => IInv'
<1>1. SUFFICES ASSUME IInv, [Next]_vars PROVE IInv'
  OBVIOUS
<1>2. ASSUME NEW r \in AnyRole \ {All}, SetRole(r) PROVE IInv'
  BY <1>1, <1>2, SetRoleIInv
<1>3. ASSUME NEW op \in Op, Query(op) PROVE IInv'
  BY <1>1, <1>3, QueryIInv
<1>4. CASE UNCHANGED vars
  BY <1>1, <1>4
  DEF vars, IInv, TypeOK, RoleSync, OnlyGranted, StoredNotAbove, RolemapHas
<1> QED
  BY <1>1, <1>2, <1>3, <1>4 DEF Next

\* The strengthened invariant holds in every reachable state.
THEOREM Invariance == Spec => []IInv
  BY InitIInv, StepIInv, PTL DEF Spec

\* Every state is of the right type.
THEOREM TypeCorrect == Spec => []TypeOK
<1>1. IInv => TypeOK
  BY DEF IInv
<1> QED
  BY <1>1, Invariance, PTL

\* ctx->role and sqlbox's role agree while the program runs.
THEOREM RolesAgree == Spec => []RoleSync
<1>1. IInv => RoleSync
  BY DEF IInv
<1> QED
  BY <1>1, Invariance, PTL

\* What sqlbox lets run was granted by the role map to the role stored.
THEOREM GrantedOnly == Spec => []OnlyGranted
<1>1. IInv => OnlyGranted
  BY DEF IInv
<1> QED
  BY <1>1, Invariance, PTL

\* The role stored in an object is never above the current one.
THEOREM StoredRoles == Spec => []StoredNotAbove
<1>1. IInv => StoredNotAbove
  BY DEF IInv
<1> QED
  BY <1>1, Invariance, PTL

\* sqlbox's statements and a switch over the role map admit the same roles.
THEOREM BoxAndSwitchAgree == Spec => []BoxMatchesSwitch
  BY TypeCorrect, BoxMatches, PTL
------------------------------------------------------------------------------
\* Only "default" and "none" may not run the statements of db_foo_reffind().
LEMMA DerefByRoles ==
  ASSUME TypeOK, NEW r \in Role
  PROVE  MayDeref(r)
<1>1. All \in Ancestors(parent, r)
  BY AllAbove DEF TypeOK
<1>2. PICK t \in Role : t \in Ancestors(parent, r) /\ parent[t] = All
  BY <1>1, TopRoleAbove DEF TypeOK, RoleTrees
<1> QED
  BY <1>2 DEF MayDeref, BoxAllows, BoxAbove, StmtRoles, TopRoles

\* A query granted to the current role is refused in one case only.
THEOREM GrantedIsRun == Spec => []GrantedRuns
<1>1. Init => GrantedRuns
  BY DEF Init, GrantedRuns
<1>2. IInv /\ GrantedRuns /\ [Next]_vars => GrantedRuns'
  <2>1. SUFFICES ASSUME IInv, GrantedRuns, [Next]_vars PROVE GrantedRuns'
    OBVIOUS
  <2>2. ASSUME NEW r \in AnyRole \ {All}, SetRole(r) PROVE GrantedRuns'
    BY <2>2 DEF SetRole, GrantedRuns
  <2>3. ASSUME NEW op \in Op, Query(op) PROVE GrantedRuns'
    <3>1. SUFFICES ASSUME status' = "exit", RolemapHas(parent, grant[op], role)
                   PROVE  role = Default /\ op \in NullRef
      BY <2>3 DEF GrantedRuns, Query, RolemapHas
    <3>2. role = box /\ role \in AnyRole \ {All} /\ TypeOK
      BY <2>1, <2>3 DEF IInv, RoleSync, TypeOK, Query
    <3>3. role \in CaseLabels(parent, grant[op])
      BY <3>1, <3>2, RolemapAssumption
      DEF RolemapHas, CaseLabels, Subtree, TypeOK, AnyRole, Reserved
    <3>4. MayRun(box, op)
      BY <3>2, <3>3, BoxMatches DEF BoxMatchesSwitch
    <3>5. op \in NullRef /\ ~MayDeref(box)
      BY <2>3, <3>1, <3>4 DEF Query
    <3>6. box \notin Role
      BY <3>2, <3>5, DerefByRoles
    <3>7. box # None
      <4>1. StmtRoles(grant[op]) \subseteq AnyRole \ {None}
        BY <3>2, RolemapAssumption, ReservedAssumption
        DEF StmtRoles, TopRoles, TypeOK, AnyRole, Reserved
      <4>2. BoxAbove(None) = {}
        BY ReservedAssumption DEF BoxAbove, Ancestors
      <4> QED
        BY <3>4, <4>1, <4>2 DEF MayRun, BoxAllows
    <3> QED
      BY <3>2, <3>5, <3>6, <3>7 DEF AnyRole, Reserved
  <2>4. CASE UNCHANGED vars
    BY <2>1, <2>4 DEF vars, GrantedRuns, RolemapHas
  <2> QED
    BY <2>1, <2>2, <2>3, <2>4 DEF Next
<1> QED
  BY <1>1, <1>2, Invariance, PTL DEF Spec

\* Once out of "default", what sqlbox runs for the program only gets less.
THEOREM PrivilegesOnlyShrink == Spec => PrivilegesShrink
<1>1. TypeOK /\ [Next]_vars => [box # Default => Runnable' \subseteq Runnable]_vars
  <2>1. SUFFICES ASSUME TypeOK, Next, box # Default
                 PROVE  Runnable' \subseteq Runnable
    OBVIOUS
  <2>2. CASE box' = box /\ UNCHANGED <<parent, grant>>
    BY <2>2 DEF Runnable, MayRun, BoxAllows, BoxAbove, StmtRoles, TopRoles
  <2>3. ASSUME NEW r \in AnyRole \ {All}, SetRole(r), box' # box
        PROVE  Runnable' \subseteq Runnable
    <3>1. box' = r /\ (r = None \/ r \in BoxAbove(box)) /\ UNCHANGED <<parent, grant>>
      BY <2>1, <2>3 DEF SetRole, BoxMayEnter
    <3>2. SUFFICES ASSUME NEW op \in Op, BoxAllows(r, StmtRoles(grant[op]))
                   PROVE  BoxAllows(box, StmtRoles(grant[op]))
      BY <3>1 DEF Runnable, MayRun, BoxAllows, BoxAbove, StmtRoles, TopRoles
    <3>3. CASE r = None
      <4>1. BoxAbove(None) = {}
        BY ReservedAssumption DEF BoxAbove, Ancestors
      <4>2. None \notin StmtRoles(grant[op])
        BY ReservedAssumption DEF StmtRoles, TopRoles
      <4> QED
        BY <3>2, <3>3, <4>1, <4>2 DEF BoxAllows
    <3>4. CASE r \in BoxAbove(box)
      <4>1. ASSUME NEW s \in BoxAbove(r) PROVE s \in BoxAbove(box)
        <5>1. s \in Ancestors(parent, r) /\ s \in Role
          BY DEF BoxAbove
        <5>2. r \in Ancestors(parent, box)
          BY <3>4 DEF BoxAbove
        <5>3. parent \in [Role -> Role \cup {All}] /\ box \in AnyRole /\ s \in AnyRole
          BY <2>1, <5>1 DEF TypeOK, RoleTrees, AnyRole
        <5>4. s \in Ancestors(parent, box)
          BY <5>1, <5>2, <5>3, AncestorsTransitive
        <5> QED
          BY <5>1, <5>4 DEF BoxAbove
      <4> QED
        BY <3>2, <3>4, <4>1 DEF BoxAllows
    <3> QED
      BY <3>1, <3>3, <3>4
  <2> QED
    BY <2>1, <2>2, <2>3 DEF Next, SetRole, Query
<1> QED
  BY <1>1, TypeCorrect, PTL DEF Spec, PrivilegesShrink

\* The generated C library keeps the manual's promise on db_role().
THEOREM KeepsPromise == Spec => ImplementsRoleSwitch
<1>1. Init => Promise!Init
  BY DEF Init, Promise!Init, Promise!RoleTrees, RoleTrees
<1>2. TypeOK /\ [Next]_vars => [Promise!Next]_(Promise!vars)
  <2>1. SUFFICES ASSUME TypeOK, [Next]_vars PROVE [Promise!Next]_(Promise!vars)
    OBVIOUS
  <2>2. ASSUME NEW r \in AnyRole \ {All}, SetRole(r)
        PROVE  [Promise!Next]_(Promise!vars)
    <3>1. CASE status' = "exit" \/ status' = "abort"
      BY <2>2, <3>1 DEF SetRole, Promise!Next, Promise!Stop
    <3>2. CASE role' = role /\ status' = status
      BY <2>2, <3>2 DEF SetRole, Promise!vars
    <3>3. CASE r \in Targets(role) /\ role' = r /\ status' = status
      <4>1. role # None
        BY <3>3, ReservedAssumption DEF Targets
      <4>2. role = Default \/ r \in Ancestors(parent, role)
        BY <2>1, <3>3, TargetsAbove
      <4>3. Promise!Move(r)
        BY <2>2, <3>3, <4>1, <4>2
        DEF SetRole, Promise!Move, Promise!MayEnter, Promise!Ancestors, Ancestors,
            Promise!Closed, Closed
      <4> QED
        BY <4>3 DEF Promise!Next, Promise!AnyRole, AnyRole, Promise!Reserved, Reserved
    <3> QED
      BY <2>2, <3>1, <3>2, <3>3 DEF SetRole
  <2>3. ASSUME NEW op \in Op, Query(op)
        PROVE  [Promise!Next]_(Promise!vars)
    <3>1. CASE status' = "exit"
      BY <2>3, <3>1 DEF Query, Promise!Next, Promise!Stop
    <3>2. CASE status' = status
      BY <2>3, <3>2 DEF Query, Promise!vars
    <3> QED
      BY <2>3, <3>1, <3>2 DEF Query
  <2>4. CASE UNCHANGED vars
    BY <2>4 DEF vars, Promise!vars
  <2> QED
    BY <2>1, <2>2, <2>3, <2>4 DEF Next
<1> QED
  BY <1>1, <1>2, TypeCorrect, PTL DEF Spec, ImplementsRoleSwitch, Promise!Spec
------------------------------------------------------------------------------
(* NodeRole, and Audit. *)

\* The labels of a switch over a role map are the roles that the map speaks
\* of, but for "all": the two ways to print a role map decide alike.
LEMMA LabelsOfMap ==
  ASSUME NEW p, NEW rm, NEW r \in AnyRole
  PROVE  r \in CaseLabels(p, rm) <=> RolemapHas(p, rm, r) /\ r # All
  BY DEF CaseLabels, Subtree, RolemapHas

\* Going further down loses no ancestor: what a role map says of a role it
\* says of all that is nested in the role.
LEMMA MapInherited ==
  ASSUME NEW p \in [Role -> Role \cup {All}],
         NEW rm \in SUBSET AnyRole, NEW r \in AnyRole, NEW s \in AnyRole,
         r \in Ancestors(p, s), RolemapHas(p, rm, r)
  PROVE  RolemapHas(p, rm, s)
  BY AncestorsTransitive DEF RolemapHas
------------------------------------------------------------------------------

\* The switch at the head of a query, in terms of role maps.
LEMMA MayCallMap ==
  ASSUME NodeTypeOK, NEW op \in Op
  PROVE  MayCall(op) <=> grant[op] = {} \/ RolemapHas(parent, grant[op], role)
  BY LabelsOfMap DEF MayCall, NodeTypeOK

\* The properties of objects and of the current role, and the types they
\* need; Guarded and StoredAbove are inductive as they stand.
NodeIInv == NodeTypeOK /\ Guarded /\ StoredAbove

\* A module starts in role "default" and has handed out nothing.
LEMMA NodeInitIInv == NodeInit => NodeIInv
  BY ReservedAssumption
  DEF NodeInit, NodeIInv, NodeTypeOK, Guarded, StoredAbove, AnyRole, Reserved, Call

\* Where db_role() lets the role go from any role but "default": to a role
\* that the current one is an ancestor of.
LEMMA TargetsBelow ==
  ASSUME NodeTypeOK, NEW r \in NodeTargets(role), role # Default
  PROVE  role \in Ancestors(parent, r) /\ r \in AnyRole
  BY DEF NodeTargets, CaseLabels, Subtree

\* db_role() preserves the invariant.
LEMMA NodeSetRoleIInv ==
  ASSUME NodeIInv, NEW r \in AnyRole, NodeSetRole(r)
  PROVE  NodeIInv'
<1> DEFINE stays == role' = role
           moves == role' = r /\ r # All /\ r \in NodeTargets(role)
<1>0. (stays \/ moves) /\ UNCHANGED <<parent, grant, objs>>
  BY DEF NodeSetRole
<1>1. NodeTypeOK'
  BY DEF NodeIInv, NodeTypeOK, NodeSetRole, Call
<1>2. Guarded'
  BY DEF NodeIInv, Guarded, NodeSetRole, RolemapHas
<1>3. StoredAbove'
  <2>1. CASE stays
    BY <1>0, <2>1 DEF NodeIInv, StoredAbove
  <2>2. CASE moves
    <3>1. SUFFICES ASSUME NEW o \in objs, o.role # Default
                   PROVE  o.role \in Ancestors(parent, r)
      BY <1>0, <2>2 DEF StoredAbove
    <3>2. o.role \in Ancestors(parent, role)
      BY <3>1 DEF NodeIInv, StoredAbove
    <3>3. role # Default
      BY <3>1, <3>2, ReservedAssumption DEF Ancestors
    <3>4. role \in Ancestors(parent, r) /\ r \in AnyRole
      BY <2>2, <3>3, TargetsBelow DEF NodeIInv
    <3>5. o.role \in AnyRole /\ role \in AnyRole /\ parent \in [Role -> Role \cup {All}]
      BY DEF NodeIInv, NodeTypeOK, Object, RoleTrees
    <3> QED
      BY <3>2, <3>4, <3>5, AncestorsTransitive
  <2> QED
    BY <1>0, <2>1, <2>2
<1> QED
  BY <1>1, <1>2, <1>3 DEF NodeIInv

\* A query preserves the invariant.
LEMMA NodeQueryIInv ==
  ASSUME NodeIInv, NEW op \in Op, NodeQuery(op)
  PROVE  NodeIInv'
<1> DEFINE new == [op |-> op, role |-> role]
<1>0. objs' = objs \/ (MayCall(op) /\ objs' = objs \cup {new})
  BY DEF NodeQuery
<1>1. NodeTypeOK'
  <2>1. new \in Object
    BY DEF NodeIInv, NodeTypeOK, Object
  <2>2. objs' \subseteq Object
    BY <1>0, <2>1 DEF NodeIInv, NodeTypeOK
  <2> QED
    BY <2>2 DEF NodeIInv, NodeTypeOK, NodeQuery, Call
<1>2. Guarded'
  <2>1. MayCall(op) <=> grant[op] = {} \/ RolemapHas(parent, grant[op], role)
    BY MayCallMap DEF NodeIInv
  <2>2. ASSUME NEW o \in objs', grant[o.op] # {}
        PROVE  RolemapHas(parent, grant[o.op], o.role)
    <3>1. CASE o \in objs
      BY <2>2, <3>1 DEF NodeIInv, Guarded
    <3>2. CASE o \notin objs
      BY <1>0, <2>1, <2>2, <3>2
    <3> QED
      BY <3>1, <3>2
  <2>3. status' = "abort" => ~RolemapHas(parent, grant[op], role)
    BY <2>1 DEF NodeQuery
  <2> QED
    BY <2>2, <2>3 DEF Guarded, NodeQuery, RolemapHas
<1>3. StoredAbove'
  <2>1. role \in Ancestors(parent, role)
    BY AncestorsSelf DEF NodeIInv, NodeTypeOK
  <2> QED
    BY <1>0, <2>1 DEF NodeIInv, StoredAbove, NodeQuery
<1> QED
  BY <1>1, <1>2, <1>3 DEF NodeIInv

\* db_role() and the queries keep the invariant.
LEMMA NodeStepIInv == NodeIInv /\ [NodeNext]_nodeVars => NodeIInv'
<1>1. SUFFICES ASSUME NodeIInv, [NodeNext]_nodeVars PROVE NodeIInv'
  OBVIOUS
<1>2. ASSUME NEW r \in AnyRole, NodeSetRole(r) PROVE NodeIInv'
  BY <1>1, <1>2, NodeSetRoleIInv
<1>3. ASSUME NEW op \in Op, NodeQuery(op) PROVE NodeIInv'
  BY <1>1, <1>3, NodeQueryIInv
<1>4. CASE UNCHANGED nodeVars
  BY <1>1, <1>4 DEF nodeVars, NodeIInv, NodeTypeOK, Guarded, StoredAbove, RolemapHas
<1> QED
  BY <1>1, <1>2, <1>3, <1>4 DEF NodeNext

\* The invariant holds in every reachable state.
THEOREM NodeInvariance == NodeSpec => []NodeIInv
  BY NodeInitIInv, NodeStepIInv, PTL DEF NodeSpec

\* Every state is of the right type.
THEOREM NodeTypeCorrect == NodeSpec => []NodeTypeOK
<1>1. NodeIInv => NodeTypeOK
  BY DEF NodeIInv
<1> QED
  BY <1>1, NodeInvariance, PTL

\* The switch at the head of a query returns to the roles of its role map and
\* aborts for no other.
THEOREM QueriesGuarded == NodeSpec => []Guarded
<1>1. NodeIInv => Guarded
  BY DEF NodeIInv
<1> QED
  BY <1>1, NodeInvariance, PTL

\* An object was stored in a role that the current one is nested in.
THEOREM StoredRolesAbove == NodeSpec => []StoredAbove
<1>1. NodeIInv => StoredAbove
  BY DEF NodeIInv
<1> QED
  BY <1>1, NodeInvariance, PTL
------------------------------------------------------------------------------
(* What ort_audit() decides of one operation and of one field. *)

\* What the audit says of a field that is no password is what the export of
\* an object filled in the current role does with it.
FieldsAgree ==
  \A m \in Model, st \in Strct :
    \A f \in Range(m.fields[st]) :
      Written(m, st, f, role) <=> FieldExported(m, st, f, role) /\ f.type # "password"

\* Operations: ort_audit() walks up from the role, gen_rolemap() prints the
\* subtree of each role of the map.
THEOREM AuditListsCallable == NodeSpec => []ListsCallable
<1>1. NodeTypeOK => ListsCallable
  BY MayCallMap DEF ListsCallable, Listed
<1> QED
  BY <1>1, NodeTypeCorrect, PTL

\* Fields: the step of AuditExact for one field of one structure.
THEOREM AuditFieldsExact == NodeSpec => []FieldsAgree
<1>1. NodeTypeOK => FieldsAgree
  <2>1. SUFFICES ASSUME NodeTypeOK, NEW m \in Model, NEW st \in Strct,
                        NEW f \in Range(m.fields[st])
                 PROVE  Written(m, st, f, role) <=>
                          FieldExported(m, st, f, role) /\ f.type # "password"
    BY DEF FieldsAgree
  <2>2. role \in AnyRole /\ role # All
    BY <2>1 DEF NodeTypeOK
  <2> QED
    BY <2>2, LabelsOfMap DEF Written, FieldExported
<1> QED
  BY <1>1, NodeTypeCorrect, PTL
------------------------------------------------------------------------------
\* What an object filled in the current role would show, an object filled
\* before, in a role that was no longer "default", shows as well: lowering the
\* role never opens a field.
ShowsNoMore ==
  \A m \in Model, st \in Strct, o \in objs :
    \A f \in Range(m.fields[st]) :
      o.role # Default /\ Written(m, st, f, role) => Written(m, st, f, o.role)

\* It follows from StoredAbove: role maps are inherited down the tree, and a
\* "noexport" hides more the further down.
THEOREM LowerShowsLess == NodeSpec => []ShowsNoMore
<1>1. NodeIInv => ShowsNoMore
  <2>1. SUFFICES ASSUME NodeIInv, NEW m \in Model, NEW st \in Strct, NEW o \in objs,
                        NEW f \in Range(m.fields[st]), o.role # Default,
                        o.role \in CaseLabels(parent, f.rolemap)
                 PROVE  role \in CaseLabels(parent, f.rolemap)
    BY DEF ShowsNoMore, Written
  <2>2. o.role \in AnyRole /\ role \in AnyRole \ {All} /\ parent \in [Role -> Role \cup {All}]
    BY <2>1 DEF NodeIInv, NodeTypeOK, Object, RoleTrees
  <2>3. o.role \in Ancestors(parent, role)
    BY <2>1 DEF NodeIInv, StoredAbove
  <2>4. f.rolemap \subseteq AnyRole
    BY ModelAssumption DEF ModelOK
  <2>5. RolemapHas(parent, f.rolemap, o.role)
    BY <2>1, <2>2, LabelsOfMap
  <2>6. RolemapHas(parent, f.rolemap, role)
    BY <2>2, <2>3, <2>4, <2>5, MapInherited
  <2> QED
    BY <2>2, <2>6, LabelsOfMap
<1> QED
  BY <1>1, NodeInvariance, PTL
------------------------------------------------------------------------------
\* A flattened list has the elements of its parts.
LEMMA FlattenRange ==
  ASSUME NEW X, NEW ss \in Seq(Seq(X))
  PROVE  /\ FlattenSeq(ss) \in Seq(X)
         /\ \A x : x \in Range(FlattenSeq(ss)) <=> \E i \in DOMAIN ss : x \in Range(ss[i])
<1> DEFINE n == Len(ss)
           Body(g) == [i \in 1..n |-> IF i = 1 THEN ss[i] ELSE g[i - 1] \o ss[i]]
           step == [i \in 1..n |-> [a \in Seq(X) |-> IF i = 1 THEN ss[i] ELSE a \o ss[i]]]
           flatten == CHOOSE g : g = Body(g)
<1>1. n \in Nat /\ DOMAIN ss = 1..n /\ \A i \in 1..n : ss[i] \in Seq(X)
  BY LenProperties
<1>2. CASE n = 0
  <2>1. ss = <<>>
    BY <1>1, <1>2, EmptySeq
  <2>2. FlattenSeq(ss) = <<>>
    BY <1>2, <2>1 DEF FlattenSeq
  <2>3. DOMAIN ss = {}
    BY <1>1, <1>2
  <2>4. DOMAIN <<>> = {} /\ <<>> \in Seq(X)
    BY <1>1, <2>1, <2>3
  <2>5. Range(<<>>) = {}
    BY <2>4 DEF Range
  <2> QED
    BY <2>2, <2>3, <2>4, <2>5
<1>3. CASE n # 0
  <2>1. \A a, b \in Seq(X) : a \o b \in Seq(X) /\ Range(a \o b) = Range(a) \cup Range(b)
    BY ConcatProperties, RangeConcatenation
  <2>2. PICK f \in [0..n -> Seq(X)] : \A i \in 1..n : f[i] = step[i][f[i - 1]]
    <3>1. step \in Steps(Seq(X), n)
      BY <1>1, <2>1 DEF Steps
    <3>2. ss[1] \in Seq(X)
      BY <1>1, <1>3
    <3> HIDE DEF step, n
    <3>3. Courses(Seq(X), ss[1], n, step) # {}
      BY <1>1, <3>1, <3>2, LoopRuns
    <3> QED
      BY <3>3 DEF Courses
  <2>3. \E g : g = Body(g)
    <3> DEFINE h == [i \in 1..n |-> f[i]]
    <3>1. ASSUME NEW i \in 1..n PROVE h[i] = Body(h)[i]
      <4>1. f[i - 1] \in Seq(X)
        <5>1. i - 1 \in 0..n
          BY <1>1
        <5> HIDE DEF n, step
        <5> QED
          BY <2>2, <5>1
      <4>2. f[i] = step[i][f[i - 1]]
        <5> HIDE DEF n, step
        <5> QED
          BY <2>2
      <4>4. f[i] = IF i = 1 THEN ss[i] ELSE f[i - 1] \o ss[i]
        BY <4>1, <4>2
      <4>3. i # 1 => i - 1 \in 1..n
        BY <1>1
      <4> QED
        BY <4>3, <4>4
    <3>2. Body(h) = [i \in 1..n |-> Body(h)[i]] /\ h = [i \in 1..n |-> h[i]]
      OBVIOUS
    <3> HIDE DEF Body, h
    <3> QED
      BY <3>1, <3>2
  <2>4. flatten = Body(flatten)
    <3> HIDE DEF Body
    <3> QED
      BY <2>3
  <2>5. FlattenSeq(ss) = flatten[n]
    BY <1>3 DEF FlattenSeq
  <2> HIDE DEF flatten
  <2>6. \A i \in 1..n : flatten[i] = IF i = 1 THEN ss[i] ELSE flatten[i - 1] \o ss[i]
    BY <2>4
  <2> DEFINE Right(i) == /\ flatten[i] \in Seq(X)
                         /\ \A x : x \in Range(flatten[i]) <=> \E j \in 1..i : x \in Range(ss[j])
             S == {0} \cup {i \in 1..n : Right(i)}
  <2>7. ASSUME NEW i \in 1..n, i - 1 \in S PROVE i \in S
    <3>1. CASE i = 1
      <4>1. flatten[1] = ss[1] /\ ss[1] \in Seq(X) /\ 1..1 = {1}
        BY <1>1, <1>3, <2>6
      <4> QED
        BY <3>1, <4>1, <2>7
    <3>2. CASE i # 1
      <4>1. Right(i - 1)
        BY <1>1, <2>7, <3>2
      <4>2. flatten[i] = flatten[i - 1] \o ss[i] /\ ss[i] \in Seq(X)
        BY <1>1, <2>6, <3>2
      <4>3. flatten[i] \in Seq(X) /\ Range(flatten[i]) = Range(flatten[i - 1]) \cup Range(ss[i])
        BY <2>1, <4>1, <4>2
      <4>4. \A j : j \in 1..i <=> j \in 1..i - 1 \/ j = i
        BY <1>1, <3>2
      <4>5. Right(i)
        BY <4>1, <4>3, <4>4
      <4> QED
        BY <2>7, <4>5
    <3> QED
      BY <3>1, <3>2
  <2>8. n \in S
    <3> HIDE DEF S
    <3>1. 0 \in S
      BY DEF S
    <3>2. \A i \in 0..n : i \in S
      BY <1>1, <2>7, <3>1, UpTo
    <3> QED
      BY <1>1, <3>2
  <2>9. Right(n)
    BY <1>3, <2>8
  <2> QED
    BY <1>1, <2>5, <2>9
<1> QED
  BY <1>2, <1>3
------------------------------------------------------------------------------
\* The names of fields, and the visits of a walk.
Names(m) == UNION {{f.name : f \in Range(m.fields[st])} : st \in Strct}

Visit(m) == [st : Strct, op : Op, path : Seq(Names(m)), exported : BOOLEAN]

Walks(m) == [Strct -> [BOOLEAN -> Seq(Visit(m))]]

\* What a model holds of the fields of a structure.
LEMMA FieldsAre ==
  ASSUME NEW m \in Model, NEW st \in Strct
  PROVE  /\ m.fields[st] \in Seq(Range(m.fields[st]))
         /\ \A f \in Range(m.fields[st]) :
              /\ f.name \in Names(m)
              /\ f.type = "struct" => f.to \in Strct
              /\ f.rolemap \subseteq AnyRole
         /\ \A f, g \in Range(m.fields[st]) : f.name = g.name => f = g
<1>1. ModelOK(m)
  BY ModelAssumption
<1>2. \A f \in Range(m.fields[st]) : f.name \in Names(m)
  BY DEF Names
<1> QED
  BY <1>1, <1>2 DEF ModelOK

\* A visit that is given another path.
LEMMA WithPath ==
  ASSUME NEW m \in Model, NEW v \in Visit(m), NEW p \in Seq(Names(m))
  PROVE  /\ [v EXCEPT !.path = p] \in Visit(m)
         /\ [v EXCEPT !.path = p].st = v.st /\ [v EXCEPT !.path = p].op = v.op
         /\ [v EXCEPT !.path = p].exported = v.exported /\ [v EXCEPT !.path = p].path = p
  BY DEF Visit

\* A visit by way of a field is that of the structure below, one name further.
LEMMA ViaIs ==
  ASSUME NEW m \in Model, NEW f, f.name \in Names(m), NEW v \in Visit(m)
  PROVE  /\ Via(f, v) \in Visit(m)
         /\ Via(f, v).st = v.st /\ Via(f, v).op = v.op /\ Via(f, v).exported = v.exported
         /\ Via(f, v).path = <<f.name>> \o v.path
<1>1. v.path \in Seq(Names(m))
  BY DEF Visit
<1>2. <<f.name>> \in Seq(Names(m))
  OBVIOUS
<1>3. <<f.name>> \o v.path \in Seq(Names(m))
  BY <1>1, <1>2, ConcatProperties
<1> DEFINE p == <<f.name>> \o v.path
<1>4. Via(f, v) = [v EXCEPT !.path = p]
  BY DEF Via
<1>5. p \in Seq(Names(m))
  BY <1>3
<1> HIDE DEF p
<1>6. /\ Via(f, v) \in Visit(m)
      /\ Via(f, v).st = v.st /\ Via(f, v).op = v.op
      /\ Via(f, v).exported = v.exported /\ Via(f, v).path = p
  BY <1>4, <1>5, WithPath
<1> QED
  BY <1>6 DEF p

\* The visit of a structure itself, of no path.
Root(op, st, x) == [st |-> st, op |-> op, path |-> <<>>, exported |-> x]

\* The visits by way of a field that refers to a structure.
OnBy(m, r, st, x, f, below) == below[f.to][x /\ FieldExported(m, st, f, r)]

\* Where a visit of the walk from a structure comes from.
Comes(m, r, op, below, st, x, v) ==
  \/ v = Root(op, st, x)
  \/ \E f \in Range(m.fields[st]) :
       /\ f.type = "struct"
       /\ \E u \in Range(OnBy(m, r, st, x, f, below)) : v = Via(f, u)

\* One level of follow(): the visit of the structure itself, and those of the
\* structures that its fields refer to.
LEMMA FollowIs ==
  ASSUME NEW m \in Model, NEW r, NEW op \in Op, NEW below \in Walks(m)
  PROVE  /\ Follow(m, r, op, below) \in Walks(m)
         /\ \A st \in Strct, x \in BOOLEAN : \A v :
              v \in Range(Follow(m, r, op, below)[st][x]) <=> Comes(m, r, op, below, st, x, v)
<1>1. ASSUME NEW st \in Strct, NEW x \in BOOLEAN
      PROVE  /\ Follow(m, r, op, below)[st][x] \in Seq(Visit(m))
             /\ \A v : v \in Range(Follow(m, r, op, below)[st][x]) <=> Comes(m, r, op, below, st, x, v)
  <2> DEFINE fs == m.fields[st]
             root == Root(op, st, x)
             on(f) == OnBy(m, r, st, x, f, below)
             part(f) == IF f.type # "struct" THEN <<>> ELSE [j \in DOMAIN on(f) |-> Via(f, on(f)[j])]
             parts == [i \in DOMAIN fs |-> part(fs[i])]
  <2>1. Follow(m, r, op, below)[st][x] = <<root>> \o FlattenSeq(parts)
    BY DEF Follow, OnBy, Root
  <2>2. ASSUME NEW f \in Range(fs), f.type = "struct"
        PROVE  /\ part(f) \in Seq(Visit(m))
               /\ \A v : v \in Range(part(f)) <=> \E u \in Range(on(f)) : v = Via(f, u)
    <3>1. on(f) \in Seq(Visit(m))
      <4>1. f.to \in Strct
        BY <2>2, FieldsAre
      <4> DEFINE ok == x /\ FieldExported(m, st, f, r)
      <4>2. ok \in BOOLEAN
        OBVIOUS
      <4> HIDE DEF ok
      <4>3. below[f.to][ok] \in Seq(Visit(m))
        BY <4>1, <4>2 DEF Walks
      <4> QED
        BY <4>3 DEF ok, OnBy
    <3>2. f.name \in Names(m)
      BY FieldsAre
    <3>3. part(f) = [j \in DOMAIN on(f) |-> Via(f, on(f)[j])]
      BY <2>2
    <3> HIDE DEF on, part
    <3>4. \A j \in DOMAIN on(f) : on(f)[j] \in Visit(m) /\ Via(f, on(f)[j]) \in Visit(m)
      <4>1. \A j \in DOMAIN on(f) : on(f)[j] \in Visit(m)
        BY <3>1, ElementOfSeq, LenProperties
      <4> QED
        BY <3>2, <4>1, ViaIs
    <3>5. part(f) \in Seq(Visit(m))
      <4>1. Len(on(f)) \in Nat /\ DOMAIN on(f) = 1..Len(on(f))
        BY <3>1, LenProperties
      <4>2. part(f) \in [1..Len(on(f)) -> Visit(m)]
        BY <3>3, <3>4, <4>1
      <4> QED
        BY <4>1, <4>2, SeqDef
    <3>6. \A v : v \in Range(part(f)) <=> \E u \in Range(on(f)) : v = Via(f, u)
      BY <3>3, Zenon DEF Range
    <3> QED
      BY <3>5, <3>6
  <2>3. ASSUME NEW f \in Range(fs), f.type # "struct"
        PROVE  part(f) \in Seq(Visit(m)) /\ \A v : v \notin Range(part(f))
    <3>1. part(f) = <<>>
      BY <2>3
    <3>2. <<>> \in Seq(Visit(m)) /\ DOMAIN <<>> = {}
      OBVIOUS
    <3>3. \A v : v \notin Range(<<>>)
      BY <3>2 DEF Range
    <3> QED
      BY <3>1, <3>2, <3>3
  <2> HIDE DEF on, part
  <2>4. Len(fs) \in Nat /\ DOMAIN fs = 1..Len(fs) /\ \A i \in DOMAIN fs : fs[i] \in Range(fs)
    <3>1. fs \in Seq(Range(fs))
      BY FieldsAre
    <3> QED
      BY <3>1, LenProperties DEF Range
  <2>5. parts \in Seq(Seq(Visit(m)))
    <3>1. parts \in [1..Len(fs) -> Seq(Visit(m))]
      BY <2>2, <2>3, <2>4
    <3> HIDE DEF parts, fs
    <3> QED
      BY <2>4, <3>1, SeqDef
  <2>6. /\ FlattenSeq(parts) \in Seq(Visit(m))
        /\ \A v : v \in Range(FlattenSeq(parts)) <=> \E i \in DOMAIN parts : v \in Range(parts[i])
    <3> HIDE DEF parts
    <3> QED
      BY <2>5, FlattenRange
  <2>7. \A v : v \in Range(FlattenSeq(parts)) <=> \E f \in Range(fs) : v \in Range(part(f))
    <3>1. \A v : (\E i \in DOMAIN parts : v \in Range(parts[i])) <=> \E i \in DOMAIN fs : v \in Range(part(fs[i]))
      OBVIOUS
    <3>2. \A v : (\E i \in DOMAIN fs : v \in Range(part(fs[i]))) <=> \E f \in Range(fs) : v \in Range(part(f))
      BY DEF Range
    <3> HIDE DEF parts, fs
    <3> QED
      BY <2>6, <3>1, <3>2
  <2>8. <<root>> \in Seq(Visit(m)) /\ Range(<<root>>) = {root}
    <3>1. root \in Visit(m)
      BY DEF Visit, Root
    <3> HIDE DEF root
    <3>2. DOMAIN <<root>> = {1} /\ <<root>>[1] = root /\ <<root>> \in Seq(Visit(m))
      BY <3>1
    <3> QED
      BY <3>2, Zenon DEF Range
  <2> DEFINE all == <<root>> \o FlattenSeq(parts)
  <2>9. all \in Seq(Visit(m)) /\ Range(all) = {root} \cup Range(FlattenSeq(parts))
    <3> DEFINE a == <<root>> b == FlattenSeq(parts)
    <3>1. a \in Seq(Visit(m)) /\ b \in Seq(Visit(m)) /\ Range(a) = {root}
      BY <2>6, <2>8
    <3> HIDE DEF a, b
    <3>2. a \o b \in Seq(Visit(m)) /\ Range(a \o b) = {root} \cup Range(b)
      BY <3>1, ConcatProperties, RangeConcatenation
    <3> QED
      BY <3>2 DEF a, b
  <2> HIDE DEF parts, all
  <2>10. Follow(m, r, op, below)[st][x] = all
    BY <2>1 DEF all
  <2>11. \A v : v \in Range(all) <=>
           v = root \/ \E f \in Range(fs) : f.type = "struct" /\ \E u \in Range(on(f)) : v = Via(f, u)
    <3> HIDE DEF root, fs
    <3>1. \A v, f : f \in Range(fs) =>
            (v \in Range(part(f)) <=> f.type = "struct" /\ \E u \in Range(on(f)) : v = Via(f, u))
      BY <2>2, <2>3
    <3> QED
      BY <2>7, <2>9, <3>1
  <2> QED
    BY <2>9, <2>10, <2>11 DEF on, Comes
<1>2. Follow(m, r, op, below) \in Walks(m)
  <2>1. Follow(m, r, op, below) = [st \in Strct |-> [x \in BOOLEAN |-> Follow(m, r, op, below)[st][x]]]
    BY DEF Follow
  <2> QED
    BY <1>1, <2>1 DEF Walks
<1> QED
  BY <1>1, <1>2

\* The marks of an entry but for passwords: what an export writes.
Shown(m, r, st) == {y \in Marked(m, r, st) : ~ToPassword(m, st, y)}

\* A field is written exactly if its entry marks it and it is no password; names
\* stand for fields, which all have their own.
LEMMA ShownIsWritten ==
  ASSUME NEW m \in Model, NEW st \in Strct, NEW r \in AnyRole \ {All}
  PROVE  /\ \A f \in Range(m.fields[st]) :
              Written(m, st, f, r) <=> FieldExported(m, st, f, r) /\ f.type # "password"
         /\ \A y : y \in Shown(m, r, st) <=>
              \E f \in Range(m.fields[st]) : Written(m, st, f, r) /\ y = f.name
<1>1. \A f \in Range(m.fields[st]) :
        Written(m, st, f, r) <=> FieldExported(m, st, f, r) /\ f.type # "password"
  BY LabelsOfMap DEF Written, FieldExported
<1>2. ASSUME NEW f \in Range(m.fields[st]), Written(m, st, f, r)
      PROVE  f.name \in Shown(m, r, st)
  <2>1. f.name \in Marked(m, r, st)
    BY <1>1, <1>2 DEF Marked
  <2>2. \A g \in Range(m.fields[st]) : g.name = f.name => g = f
    BY FieldsAre
  <2>3. ~ToPassword(m, st, f.name)
    BY <1>1, <1>2, <2>2 DEF ToPassword
  <2> QED
    BY <2>1, <2>3 DEF Shown
<1>3. ASSUME NEW y \in Shown(m, r, st)
      PROVE  \E f \in Range(m.fields[st]) : Written(m, st, f, r) /\ y = f.name
  <2>1. PICK f \in Range(m.fields[st]) : FieldExported(m, st, f, r) /\ y = f.name
    BY DEF Shown, Marked
  <2>2. f.type # "password"
    BY <2>1 DEF Shown, ToPassword
  <2> QED
    BY <1>1, <2>1, <2>2
<1> QED
  BY <1>1, <1>2, <1>3

\* One level of an export.
Texts(m) == [Strct -> SUBSET Seq(Names(m))]

\* Where a path of an export comes from.
Writes(m, r, below, st, p) ==
  \E f \in Range(m.fields[st]) :
    /\ Written(m, st, f, r)
    /\ \/ p = <<f.name>>
       \/ f.type = "struct" /\ \E q \in below[f.to] : p = <<f.name>> \o q

\* What a level writes, path by path.
LEMMA ExportsIs ==
  ASSUME NEW m \in Model, NEW r, NEW below \in Texts(m)
  PROVE  /\ Exports(m, r, below) \in Texts(m)
         /\ \A st \in Strct : \A p :
              p \in Exports(m, r, below)[st] <=> Writes(m, r, below, st, p)
<1> DEFINE more(f) == IF f.type = "struct" THEN {<<f.name>> \o p : p \in below[f.to]} ELSE {}
           text(f) == {<<f.name>>} \cup more(f)
           all(st) == UNION {text(f) : f \in {g \in Range(m.fields[st]) : Written(m, st, g, r)}}
<1>1. Exports(m, r, below) = [st \in Strct |-> all(st)]
  BY DEF Exports
<1>2. ASSUME NEW st \in Strct
      PROVE  \A p : p \in all(st) <=> \E f \in Range(m.fields[st]) :
                                        Written(m, st, f, r) /\ p \in text(f)
  <2> HIDE DEF text
  <2> QED
    OBVIOUS
<1>3. ASSUME NEW st \in Strct, NEW f \in Range(m.fields[st])
      PROVE  /\ \A p : p \in text(f) <=>
                  \/ p = <<f.name>>
                  \/ f.type = "struct" /\ \E q \in below[f.to] : p = <<f.name>> \o q
             /\ text(f) \subseteq Seq(Names(m))
  <2>1. \A p : p \in text(f) <=>
          \/ p = <<f.name>>
          \/ f.type = "struct" /\ \E q \in below[f.to] : p = <<f.name>> \o q
    OBVIOUS
  <2>2. f.name \in Names(m)
    BY FieldsAre
  <2> DEFINE head == <<f.name>>
  <2>3. head \in Seq(Names(m))
    BY <2>2
  <2> HIDE DEF head
  <2>4. \A q \in Seq(Names(m)) : head \o q \in Seq(Names(m))
    BY <2>3, ConcatProperties
  <2>5. f.type = "struct" => below[f.to] \subseteq Seq(Names(m))
    BY FieldsAre DEF Texts
  <2>6. \A p : p \in text(f) => p \in Seq(Names(m))
    <3> HIDE DEF text
    <3> QED
      BY <2>1, <2>3, <2>4, <2>5 DEF head
  <2> HIDE DEF text
  <2> QED
    BY <2>1, <2>6
<1> HIDE DEF text
<1>4. \A st \in Strct : all(st) \in SUBSET Seq(Names(m))
  BY <1>2, <1>3
<1>5. Exports(m, r, below) \in Texts(m)
  BY <1>1, <1>4 DEF Texts
<1>6. ASSUME NEW st \in Strct, NEW p
      PROVE  p \in Exports(m, r, below)[st] <=> Writes(m, r, below, st, p)
  <2>1. p \in Exports(m, r, below)[st] <=> p \in all(st)
    BY <1>1
  <2> HIDE DEF all
  <2>2. p \in all(st) <=> \E f \in Range(m.fields[st]) : Written(m, st, f, r) /\ p \in text(f)
    BY <1>2
  <2>3. \A f \in Range(m.fields[st]) :
          p \in text(f) <=>
            \/ p = <<f.name>>
            \/ f.type = "struct" /\ \E q \in below[f.to] : p = <<f.name>> \o q
    BY <1>3
  <2> QED
    BY <2>1, <2>2, <2>3, Zenon DEF Writes
<1> QED
  BY <1>5, <1>6

\* Elements of a sequence.
LEMMA RangeIn ==
  ASSUME NEW X, NEW s \in Seq(X), NEW x \in Range(s)
  PROVE  x \in X
  BY ElementOfSeq, LenProperties DEF Range

\* A name before a path and one behind it may be added in either order.
LEMMA AppendBelow ==
  ASSUME NEW X, NEW n \in X, NEW p \in Seq(X), NEW y \in X
  PROVE  /\ Append(<<n>> \o p, y) = <<n>> \o Append(p, y)
         /\ Append(<<>>, y) = <<y>>
<1>1. <<n>> \in Seq(X) /\ <<y>> \in Seq(X)
  OBVIOUS
<1>2. <<n>> \o p \in Seq(X)
  BY <1>1, ConcatProperties
<1>3. Append(<<n>> \o p, y) = (<<n>> \o p) \o <<y>>
  BY <1>2, AppendIsConcat
<1>4. Append(p, y) = p \o <<y>>
  BY AppendIsConcat
<1>5. (<<n>> \o p) \o <<y>> = <<n>> \o (p \o <<y>>)
  BY <1>1, ConcatAssociative
<1>6. Append(<<>>, y) = <<y>>
  OBVIOUS
<1> QED
  BY <1>3, <1>4, <1>5, <1>6

\* The paths reported by visits.
Told(m, r, vs, p) ==
  \E v \in Range(vs) : v.exported /\ \E y \in Shown(m, r, v.st) : p = Append(v.path, y)

\* What the walk of query op reports below each structure is what an export
\* writes there.
Agrees(m, r, op, e, w) ==
  /\ e \in Texts(m) /\ w \in Walks(m)
  /\ \A st \in Strct, x \in BOOLEAN : \A v \in Range(w[st][x]) : v.op = op /\ (v.exported => x)
  /\ \A st \in Strct : \A p : p \in e[st] <=> Told(m, r, w[st][TRUE], p)

\* If they agree on the structures below they agree a level up.
LEMMA AgreeBelow ==
  ASSUME NEW m \in Model, NEW r \in AnyRole \ {All}, NEW op \in Op,
         NEW e, NEW w, Agrees(m, r, op, e, w)
  PROVE  Agrees(m, r, op, Exports(m, r, e), Follow(m, r, op, w))
<1> DEFINE e2 == Exports(m, r, e)
           w2 == Follow(m, r, op, w)
<1>1. e \in Texts(m) /\ w \in Walks(m)
  BY DEF Agrees
<1>2. e2 \in Texts(m) /\ w2 \in Walks(m)
  BY <1>1, ExportsIs, FollowIs
<1>3. ASSUME NEW st \in Strct, NEW x \in BOOLEAN, NEW v
      PROVE  v \in Range(w2[st][x]) <=> Comes(m, r, op, w, st, x, v)
  BY <1>1, FollowIs
<1>4. ASSUME NEW st \in Strct, NEW x \in BOOLEAN, NEW f \in Range(m.fields[st]), f.type = "struct",
              NEW u \in Range(OnBy(m, r, st, x, f, w))
       PROVE  /\ f.name \in Names(m) /\ f.to \in Strct /\ u \in Visit(m) /\ u.op = op
              /\ u.exported => x /\ FieldExported(m, st, f, r)
  <2> DEFINE ok == x /\ FieldExported(m, st, f, r)
  <2>1. ok \in BOOLEAN /\ u \in Range(w[f.to][ok])
    BY <1>4 DEF OnBy
  <2>2. f.name \in Names(m) /\ f.to \in Strct
    BY <1>4, FieldsAre
  <2> HIDE DEF ok
  <2>3. w[f.to][ok] \in Seq(Visit(m))
    BY <1>1, <2>1, <2>2 DEF Walks
  <2>4. u \in Visit(m)
    BY <2>1, <2>3, RangeIn
  <2>5. u.op = op /\ (u.exported => ok)
    BY <2>1, <2>2 DEF Agrees
  <2> QED
    BY <2>2, <2>4, <2>5 DEF ok
<1>5. ASSUME NEW st \in Strct, NEW x \in BOOLEAN, NEW f \in Range(m.fields[st]), f.type = "struct",
             NEW u \in Range(OnBy(m, r, st, x, f, w))
      PROVE  /\ Via(f, u) \in Visit(m) /\ Via(f, u).st = u.st
             /\ Via(f, u).op = op /\ Via(f, u).exported = u.exported
             /\ Via(f, u).path = <<f.name>> \o u.path
  <2>1. f.name \in Names(m) /\ u \in Visit(m) /\ u.op = op
    BY <1>5, <1>4
  <2> QED
    BY <2>1, ViaIs
<1>6. ASSUME NEW st \in Strct, NEW x \in BOOLEAN, NEW v \in Range(w2[st][x])
      PROVE  v.op = op /\ (v.exported => x)
  <2>1. Root(op, st, x).op = op /\ Root(op, st, x).exported = x
    BY DEF Root
  <2>2. CASE v = Root(op, st, x)
    BY <2>1, <2>2
  <2>3. CASE v # Root(op, st, x)
    <3>1. PICK f \in Range(m.fields[st]) :
            /\ f.type = "struct"
            /\ \E u \in Range(OnBy(m, r, st, x, f, w)) : v = Via(f, u)
      BY <1>3, <2>3 DEF Comes
    <3>2. PICK u \in Range(OnBy(m, r, st, x, f, w)) : v = Via(f, u)
      BY <3>1
    <3>3. /\ u.exported => x
          /\ Via(f, u).op = op /\ Via(f, u).exported = u.exported
      <4>1. f.type = "struct" /\ u \in Range(OnBy(m, r, st, x, f, w))
        BY <3>1
      <4>2. u.exported => x
        BY <1>4, <4>1
      <4>3. Via(f, u).op = op /\ Via(f, u).exported = u.exported
        BY <1>5, <4>1
      <4> QED
        BY <4>2, <4>3
    <3>4. v.op = op /\ v.exported = u.exported
      BY <3>2, <3>3
    <3> QED
      BY <3>3, <3>4
  <2> QED
    BY <2>2, <2>3
<1>7. ASSUME NEW st \in Strct, NEW f \in Range(m.fields[st]), f.type = "struct",
             FieldExported(m, st, f, r)
      PROVE  OnBy(m, r, st, TRUE, f, w) = w[f.to][TRUE]
  <2> DEFINE ok == TRUE /\ FieldExported(m, st, f, r)
  <2>1. ok = TRUE
    BY <1>7
  <2>2. OnBy(m, r, st, TRUE, f, w) = w[f.to][ok]
    BY DEF OnBy
  <2> HIDE DEF ok
  <2> QED
    BY <2>1, <2>2
<1>8. ASSUME NEW st \in Strct, NEW f \in Range(m.fields[st]), f.type = "struct",
             NEW u \in Range(OnBy(m, r, st, TRUE, f, w)), NEW y \in Shown(m, r, u.st)
      PROVE  Append(Via(f, u).path, y) = <<f.name>> \o Append(u.path, y)
  <2>1. f.name \in Names(m) /\ u \in Visit(m) /\ Via(f, u).path = <<f.name>> \o u.path
    BY <1>5, <1>8, <1>4
  <2>2. u.path \in Seq(Names(m)) /\ u.st \in Strct
    BY <2>1 DEF Visit
  <2>3. y \in Names(m)
    BY <1>8, <2>2, ShownIsWritten, FieldsAre
  <2>4. Append(<<f.name>> \o u.path, y) = <<f.name>> \o Append(u.path, y)
    <3> DEFINE n == f.name path == u.path
    <3>1. n \in Names(m) /\ path \in Seq(Names(m))
      BY <2>1, <2>2
    <3> HIDE DEF n, path
    <3>2. Append(<<n>> \o path, y) = <<n>> \o Append(path, y)
      BY <2>3, <3>1, AppendBelow
    <3> QED
      BY <3>2 DEF n, path
  <2> QED
    BY <2>1, <2>4
<1>9. ASSUME NEW st \in Strct, NEW p, p \in e2[st]
      PROVE  Told(m, r, w2[st][TRUE], p)
  <2>0. Writes(m, r, e, st, p)
    BY <1>1, <1>9, ExportsIs
  <2>1. PICK f \in Range(m.fields[st]) :
          /\ Written(m, st, f, r)
          /\ \/ p = <<f.name>>
             \/ f.type = "struct" /\ \E q \in e[f.to] : p = <<f.name>> \o q
    BY <2>0 DEF Writes
  <2>2. CASE p = <<f.name>>
    <3> DEFINE v == Root(op, st, TRUE)
    <3>1. v.exported = TRUE /\ v.path = <<>> /\ v.st = st
      BY DEF Root
    <3>2. v \in Range(w2[st][TRUE])
      <4>1. Comes(m, r, op, w, st, TRUE, v)
        BY DEF Comes
      <4> QED
        BY <1>3, <4>1
    <3>3. f.name \in Shown(m, r, st)
      BY <2>1, ShownIsWritten
    <3>4. p = Append(<<>>, f.name)
      BY <2>2
    <3> HIDE DEF v, w2
    <3> QED
      BY <3>1, <3>2, <3>3, <3>4 DEF Told
  <2>3. CASE f.type = "struct" /\ \E q \in e[f.to] : p = <<f.name>> \o q
    <3>1. PICK q \in e[f.to] : p = <<f.name>> \o q
      BY <2>3
    <3>2. f.to \in Strct
      BY <2>3, FieldsAre
    <3>3. PICK u \in Range(w[f.to][TRUE]) :
            u.exported /\ \E y \in Shown(m, r, u.st) : q = Append(u.path, y)
      BY <3>1, <3>2 DEF Agrees, Told
    <3>4. PICK y \in Shown(m, r, u.st) : q = Append(u.path, y)
      BY <3>3
    <3>5. u \in Range(OnBy(m, r, st, TRUE, f, w))
      <4>1. FieldExported(m, st, f, r)
        BY <2>1, ShownIsWritten
      <4> QED
        BY <1>7, <2>3, <3>3, <4>1
    <3> DEFINE v == Via(f, u)
    <3>6. v \in Range(w2[st][TRUE])
      <4>1. Comes(m, r, op, w, st, TRUE, v)
        BY <2>3, <3>5 DEF Comes
      <4> QED
        BY <1>3, <4>1
    <3>7. v.exported = u.exported /\ v.st = u.st
      BY <1>5, <2>3, <3>5
    <3>8. p = Append(v.path, y)
      BY <1>8, <2>3, <3>1, <3>4, <3>5
    <3> HIDE DEF v, w2
    <3> QED
      BY <3>3, <3>4, <3>6, <3>7, <3>8 DEF Told
  <2> QED
    BY <2>1, <2>2, <2>3
<1>10. ASSUME NEW st \in Strct, NEW p, Told(m, r, w2[st][TRUE], p)
      PROVE  p \in e2[st]
  <2>1. PICK v \in Range(w2[st][TRUE]) :
          v.exported /\ \E y \in Shown(m, r, v.st) : p = Append(v.path, y)
    BY <1>10 DEF Told
  <2>2. PICK y \in Shown(m, r, v.st) : p = Append(v.path, y)
    BY <2>1
  <2>3. Comes(m, r, op, w, st, TRUE, v)
    BY <1>3, <2>1
  <2>4. CASE v = Root(op, st, TRUE)
    <3>1. v.path = <<>> /\ v.st = st
      BY <2>4 DEF Root
    <3>2. PICK f \in Range(m.fields[st]) : Written(m, st, f, r) /\ y = f.name
      BY <2>2, <3>1, ShownIsWritten
    <3>3. p = <<f.name>>
      BY <2>2, <3>1, <3>2
    <3>10. Writes(m, r, e, st, p)
      BY <3>2, <3>3 DEF Writes
    <3> QED
      BY <1>1, <3>10, ExportsIs
  <2>5. CASE v # Root(op, st, TRUE)
    <3>1. PICK f \in Range(m.fields[st]) :
            /\ f.type = "struct"
            /\ \E u \in Range(OnBy(m, r, st, TRUE, f, w)) : v = Via(f, u)
      BY <2>3, <2>5 DEF Comes
    <3>2. PICK u \in Range(OnBy(m, r, st, TRUE, f, w)) : v = Via(f, u)
      BY <3>1
    <3>3. /\ v.exported = u.exported /\ v.st = u.st /\ f.to \in Strct
          /\ u.exported => FieldExported(m, st, f, r)
      BY <1>5, <1>4, <3>1, <3>2
    <3>4. FieldExported(m, st, f, r) /\ u.exported
      BY <2>1, <3>3
    <3>5. Written(m, st, f, r)
      BY <3>1, <3>4, ShownIsWritten
    <3>6. u \in Range(w[f.to][TRUE])
      BY <1>7, <3>1, <3>2, <3>4
    <3>7. y \in Shown(m, r, u.st)
      BY <3>3
    <3> DEFINE q == Append(u.path, y)
    <3>8. q \in e[f.to]
      BY <3>3, <3>4, <3>6, <3>7 DEF Agrees, Told
    <3>9. p = <<f.name>> \o q
      BY <1>8, <2>2, <3>1, <3>2, <3>7
    <3> HIDE DEF q
    <3>10. Writes(m, r, e, st, p)
      BY <3>1, <3>5, <3>8, <3>9 DEF Writes
    <3> QED
      BY <1>1, <3>10, ExportsIs
  <2> QED
    BY <2>4, <2>5
<1>11. \A st \in Strct : \A p : p \in e2[st] <=> Told(m, r, w2[st][TRUE], p)
  <2> HIDE DEF w2, e2
  <2> QED
    BY <1>9, <1>10
<1> HIDE DEF e2, w2
<1>12. Agrees(m, r, op, e2, w2)
  BY <1>2, <1>6, <1>11 DEF Agrees
<1> QED
  BY <1>12 DEF e2, w2

\* There are finitely many structures.
LEMMA DepthIs == Depth \in Nat
  BY ModelAssumption, FS_CardinalityType DEF Depth

\* The levels of an export and of the walk from a query, one by one.
ExportLevel(m, r, E) ==
  /\ E[0] = [s \in Strct |-> {}]
  /\ \A n \in 1..Depth : E[n] = Exports(m, r, E[n - 1])
  /\ \A st : Export(m, st, r) = E[Depth][st]

WalkLevel(m, r, op, V) ==
  /\ V[0] = [st \in Strct |-> [exported \in BOOLEAN |-> <<>>]]
  /\ \A n \in 1..Depth : V[n] = Follow(m, r, op, V[n - 1])
  /\ \A start : Visits(m, r, op, start) = V[Depth][m.gives[op]][start]

\* The recursion of Export() goes from level to level.
LEMMA ExportLevels ==
  ASSUME NEW m \in Model, NEW r
  PROVE  \E E : ExportLevel(m, r, E)
<1> DEFINE z == [s \in Strct |-> {}]
           Body(g) == [n \in 0..Depth |-> IF n = 0 THEN z ELSE Exports(m, r, g[n - 1])]
           E == CHOOSE g : g = Body(g)
           step == [n \in 1..Depth |-> [t \in Texts(m) |-> Exports(m, r, t)]]
<1>1. Depth \in Nat /\ z \in Texts(m)
  BY DepthIs DEF Texts
<1>2. \A st : Export(m, st, r) = E[Depth][st]
  BY DEF Export
<1> HIDE DEF z
<1>3. step \in Steps(Texts(m), Depth)
  BY ExportsIs DEF Steps
<1>4. \E g : g = Body(g)
  <2>1. PICK f \in [0..Depth -> Texts(m)] : f[0] = z /\ \A n \in 1..Depth : f[n] = step[n][f[n - 1]]
    <3> HIDE DEF step
    <3>1. Courses(Texts(m), z, Depth, step) # {}
      BY <1>1, <1>3, LoopRuns
    <3> QED
      BY <3>1 DEF Courses
  <2>2. ASSUME NEW n \in 0..Depth PROVE f[n] = Body(f)[n]
    <3>1. CASE n = 0
      BY <2>1, <3>1
    <3>2. CASE n # 0
      <4>1. n \in 1..Depth /\ n - 1 \in 0..Depth
        BY <1>1, <3>2
      <4>2. f[n - 1] \in Texts(m)
        BY <4>1
      <4>3. f[n] = step[n][f[n - 1]]
        <5> HIDE DEF step
        <5> QED
          BY <2>1, <4>1
      <4>4. f[n] = Exports(m, r, f[n - 1])
        BY <4>1, <4>2, <4>3
      <4> QED
        BY <3>2, <4>4
    <3> QED
      BY <3>1, <3>2
  <2>3. f = [n \in 0..Depth |-> f[n]] /\ Body(f) = [n \in 0..Depth |-> Body(f)[n]]
    OBVIOUS
  <2> HIDE DEF Body
  <2>4. f = Body(f)
    BY <2>2, <2>3
  <2> QED
    BY <2>4
<1>5. E = Body(E)
  <2> HIDE DEF Body
  <2> QED
    BY <1>4
<1> HIDE DEF E
<1>6. E[0] = z /\ \A n \in 1..Depth : E[n] = Exports(m, r, E[n - 1])
  <2>1. 0 \in 0..Depth /\ \A n \in 1..Depth : n \in 0..Depth /\ n # 0
    BY <1>1
  <2>2. \A n \in 0..Depth : E[n] = IF n = 0 THEN z ELSE Exports(m, r, E[n - 1])
    BY <1>5
  <2> HIDE DEF Body
  <2> QED
    BY <2>1, <2>2
<1>7. ExportLevel(m, r, E)
  BY <1>2, <1>6 DEF z, ExportLevel
<1> QED
  BY <1>7

\* So does that of Visits().
LEMMA WalkLevels ==
  ASSUME NEW m \in Model, NEW r, NEW op \in Op
  PROVE  \E V : WalkLevel(m, r, op, V)
<1> DEFINE z == [st \in Strct |-> [exported \in BOOLEAN |-> <<>>]]
           Body(g) == [n \in 0..Depth |-> IF n = 0 THEN z ELSE Follow(m, r, op, g[n - 1])]
           V == CHOOSE g : g = Body(g)
           step == [n \in 1..Depth |-> [t \in Walks(m) |-> Follow(m, r, op, t)]]
<1>1. Depth \in Nat /\ z \in Walks(m)
  BY DepthIs DEF Walks
<1>2. \A start : Visits(m, r, op, start) = V[Depth][m.gives[op]][start]
  BY DEF Visits
<1> HIDE DEF z
<1>3. step \in Steps(Walks(m), Depth)
  BY FollowIs DEF Steps
<1>4. \E g : g = Body(g)
  <2>1. PICK f \in [0..Depth -> Walks(m)] : f[0] = z /\ \A n \in 1..Depth : f[n] = step[n][f[n - 1]]
    <3> HIDE DEF step
    <3>1. Courses(Walks(m), z, Depth, step) # {}
      BY <1>1, <1>3, LoopRuns
    <3> QED
      BY <3>1 DEF Courses
  <2>2. ASSUME NEW n \in 0..Depth PROVE f[n] = Body(f)[n]
    <3>1. CASE n = 0
      BY <2>1, <3>1
    <3>2. CASE n # 0
      <4>1. n \in 1..Depth /\ n - 1 \in 0..Depth
        BY <1>1, <3>2
      <4>2. f[n - 1] \in Walks(m)
        BY <4>1
      <4>3. f[n] = step[n][f[n - 1]]
        <5> HIDE DEF step
        <5> QED
          BY <2>1, <4>1
      <4>4. f[n] = Follow(m, r, op, f[n - 1])
        BY <4>1, <4>2, <4>3
      <4> QED
        BY <3>2, <4>4
    <3> QED
      BY <3>1, <3>2
  <2>3. f = [n \in 0..Depth |-> f[n]] /\ Body(f) = [n \in 0..Depth |-> Body(f)[n]]
    OBVIOUS
  <2> HIDE DEF Body
  <2>4. f = Body(f)
    BY <2>2, <2>3
  <2> QED
    BY <2>4
<1>5. V = Body(V)
  <2> HIDE DEF Body
  <2> QED
    BY <1>4
<1> HIDE DEF V
<1>6. V[0] = z /\ \A n \in 1..Depth : V[n] = Follow(m, r, op, V[n - 1])
  <2>1. 0 \in 0..Depth /\ \A n \in 1..Depth : n \in 0..Depth /\ n # 0
    BY <1>1
  <2>2. \A n \in 0..Depth : V[n] = IF n = 0 THEN z ELSE Follow(m, r, op, V[n - 1])
    BY <1>5
  <2> HIDE DEF Body
  <2> QED
    BY <2>1, <2>2
<1>7. WalkLevel(m, r, op, V)
  BY <1>2, <1>6 DEF z, WalkLevel
<1> QED
  BY <1>7

\* The visits of one walk.
WalkOf(m, op, start, vs) ==
  vs \in Seq(Visit(m)) /\ \A v \in Range(vs) : v.op = op /\ (v.exported => start)

\* A query: what is reported from it is what an object that it returns shows.
LEMMA AuditOfQuery ==
  ASSUME NEW m \in Model, NEW r \in AnyRole \ {All}, NEW op \in Op
  PROVE  /\ \A start \in BOOLEAN : WalkOf(m, op, start, Visits(m, r, op, start))
         /\ \A p : p \in Export(m, m.gives[op], r) <=> Told(m, r, Visits(m, r, op, TRUE), p)
<1>0. (\E E : ExportLevel(m, r, E)) /\ \E V : WalkLevel(m, r, op, V)
  BY ExportLevels, WalkLevels
<1>1. PICK E : ExportLevel(m, r, E)
  BY <1>0
<1>2. PICK V : WalkLevel(m, r, op, V)
  BY <1>0
<1> DEFINE S == {n \in 0..Depth : Agrees(m, r, op, E[n], V[n])}
<1>3. Depth \in Nat
  BY DepthIs
<1>4. 0 \in S
  <2> DEFINE e == E[0] w == V[0]
  <2>1. e \in Texts(m) /\ w \in Walks(m)
    BY <1>1, <1>2 DEF Texts, Walks, ExportLevel, WalkLevel
  <2>2. \A st \in Strct, x \in BOOLEAN : Range(w[st][x]) = {}
    <3>1. Range(<<>>) = {}
      <4>1. DOMAIN <<>> = {}
        OBVIOUS
      <4> QED
        BY <4>1 DEF Range
    <3>2. \A st \in Strct, x \in BOOLEAN : w[st][x] = <<>>
      BY <1>2 DEF WalkLevel
    <3> HIDE DEF w
    <3> QED
      BY <3>1, <3>2
  <2>3. \A st \in Strct : e[st] = {}
    BY <1>1 DEF ExportLevel
  <2> HIDE DEF e, w
  <2>4. \A st \in Strct : Range(w[st][TRUE]) = {}
    BY <2>2
  <2>5. Agrees(m, r, op, e, w)
    BY <2>1, <2>2, <2>3, <2>4 DEF Agrees, Told
  <2> QED
    BY <1>3, <2>5 DEF e, w
<1>5. ASSUME NEW n \in 1..Depth, n - 1 \in S PROVE n \in S
  <2>1. Agrees(m, r, op, Exports(m, r, E[n - 1]), Follow(m, r, op, V[n - 1]))
    BY <1>5, AgreeBelow
  <2> QED
    BY <1>1, <1>2, <1>3, <2>1 DEF ExportLevel, WalkLevel
<1>6. Agrees(m, r, op, E[Depth], V[Depth])
  <2>1. Depth \in S
    <3> HIDE DEF S
    <3>1. \A n \in 0..Depth : n \in S
      BY <1>3, <1>4, <1>5, UpTo
    <3> QED
      BY <1>3, <3>1
  <2> QED
    BY <2>1
<1>7. m.gives[op] \in Strct
  BY ModelAssumption DEF ModelOK
<1>8. ASSUME NEW start \in BOOLEAN
      PROVE  WalkOf(m, op, start, Visits(m, r, op, start))
  <2>1. Visits(m, r, op, start) = V[Depth][m.gives[op]][start]
    BY <1>2 DEF WalkLevel
  <2> QED
    BY <1>6, <1>7, <2>1 DEF Agrees, Walks, WalkOf
<1>9. \A p : p \in Export(m, m.gives[op], r) <=> Told(m, r, Visits(m, r, op, TRUE), p)
  <2>1. Visits(m, r, op, TRUE) = V[Depth][m.gives[op]][TRUE]
    BY <1>2 DEF WalkLevel
  <2>2. Export(m, m.gives[op], r) = E[Depth][m.gives[op]]
    BY <1>1 DEF ExportLevel
  <2> QED
    BY <1>6, <1>7, <2>1, <2>2 DEF Agrees
<1> QED
  BY <1>8, <1>9
------------------------------------------------------------------------------
\* The entries of a report.
Entry(m) == [exported : BOOLEAN, srs : Seq(Visit(m)), fields : SUBSET Names(m)]

Entries(m) == UNION {[S -> Entry(m)] : S \in SUBSET Strct}

\* Marks are names of fields.
LEMMA MarkedAre ==
  ASSUME NEW m \in Model, NEW r, NEW st \in Strct
  PROVE  Marked(m, r, st) \in SUBSET Names(m)
  BY FieldsAre DEF Marked

\* One visit: its structure has an entry, that of the others stays.
EntersTo(m, r, aq, v, b) ==
  /\ b \in Entries(m)
  /\ DOMAIN b = DOMAIN aq \cup {v.st}
  /\ \A st \in DOMAIN aq : st # v.st => b[st] = aq[st]
  /\ v.st \notin DOMAIN aq =>
       /\ b[v.st].srs = <<v>> /\ b[v.st].exported = v.exported
       /\ b[v.st].fields = Marked(m, r, v.st)
  /\ v.st \in DOMAIN aq =>
       /\ b[v.st].srs = Append(aq[v.st].srs, v)
       /\ b[v.st].exported <=> aq[v.st].exported \/ v.exported
       /\ b[v.st].fields = aq[v.st].fields

\* The entries after a visit.
LEMMA EnterIs ==
  ASSUME NEW m \in Model, NEW r, NEW aq \in Entries(m), NEW v \in Visit(m)
  PROVE  EntersTo(m, r, aq, v, Enter(m, r, aq, v))
<1> DEFINE b == Enter(m, r, aq, v)
           D == DOMAIN aq
           new == [exported |-> v.exported, srs |-> <<v>>, fields |-> Marked(m, r, v.st)]
<1>1. v.st \in Strct /\ v.exported \in BOOLEAN
  BY DEF Visit
<1>2. PICK S \in SUBSET Strct : aq \in [S -> Entry(m)]
  BY DEF Entries
<1>3. D = S /\ D \cup {v.st} \in SUBSET Strct /\ \A st \in D : aq[st] \in Entry(m)
  BY <1>1, <1>2
<1>4. DOMAIN b = D \cup {v.st} /\ b = [st \in D \cup {v.st} |-> b[st]]
  BY DEF Enter
<1>5. \A st \in D : st # v.st => b[st] = aq[st]
  BY DEF Enter
<1>6. ASSUME v.st \notin D
      PROVE  b[v.st] = new
  <2>1. b[v.st] = [exported |-> v.exported, srs |-> <<v>>, fields |-> Marked(m, r, v.st)]
    BY <1>6 DEF Enter
  <2> QED
    BY <2>1
<1>7. new \in Entry(m) /\ new.srs = <<v>> /\ new.exported = v.exported /\ new.fields = Marked(m, r, v.st)
  <2>1. <<v>> \in Seq(Visit(m))
    OBVIOUS
  <2>2. Marked(m, r, v.st) \in SUBSET Names(m)
    BY <1>1, MarkedAre
  <2> QED
    BY <1>1, <2>1, <2>2 DEF Entry
<1>8. ASSUME v.st \in D
      PROVE  /\ b[v.st] \in Entry(m)
             /\ b[v.st].srs = Append(aq[v.st].srs, v)
             /\ b[v.st].exported <=> aq[v.st].exported \/ v.exported
             /\ b[v.st].fields = aq[v.st].fields
  <2> DEFINE e == aq[v.st]
             s == Append(e.srs, v)
             x == e.exported \/ v.exported
             d == [e EXCEPT !.srs = s, !.exported = x]
  <2>1. e \in Entry(m)
    BY <1>3, <1>8
  <2>2. e.srs \in Seq(Visit(m)) /\ e.exported \in BOOLEAN
    BY <2>1 DEF Entry
  <2>3. s \in Seq(Visit(m))
    BY <2>2, AppendProperties
  <2>4. x \in BOOLEAN
    OBVIOUS
  <2>5. b[v.st] = d
    <3>1. b[v.st] = [aq[v.st] EXCEPT !.srs = Append(@, v), !.exported = @ \/ v.exported]
      BY <1>4, <1>8, Zenon DEF Enter
    <3> QED
      BY <3>1, Zenon
  <2> HIDE DEF x, s, e
  <2>6. d \in Entry(m) /\ d.srs = s /\ d.exported = x /\ d.fields = e.fields
    BY <2>1, <2>3, <2>4 DEF Entry
  <2> HIDE DEF d
  <2> QED
    BY <2>5, <2>6 DEF s, x, e
<1> HIDE DEF new
<1>9. b \in Entries(m)
  <2>1. \A st \in D \cup {v.st} : b[st] \in Entry(m)
    BY <1>3, <1>5, <1>6, <1>7, <1>8
  <2> HIDE DEF b
  <2>2. b \in [D \cup {v.st} -> Entry(m)]
    BY <1>4, <2>1
  <2> QED
    BY <1>3, <2>2 DEF Entries
<1> QED
  BY <1>4, <1>5, <1>6, <1>7, <1>8, <1>9 DEF EntersTo

\* Elements of a longer list.
LEMMA RangeAppend ==
  ASSUME NEW X, NEW s \in Seq(X), NEW v \in X
  PROVE  Range(Append(s, v)) = Range(s) \cup {v}
<1> DEFINE one == <<v>>
<1>1. one \in Seq(X) /\ DOMAIN one = {1} /\ one[1] = v
  OBVIOUS
<1>2. Append(s, v) = s \o one
  BY AppendIsConcat
<1> HIDE DEF one
<1>3. Range(one) = {v}
  BY <1>1, Zenon DEF Range
<1>4. Range(s \o one) = Range(s) \cup Range(one)
  BY <1>1, RangeConcatenation
<1> QED
  BY <1>2, <1>3, <1>4, Zenon

\* What the entries hold after the first n visits of a list.
Entered(m, r, W, n, aq) ==
  /\ aq \in Entries(m)
  /\ \A st : st \in DOMAIN aq <=> \E i \in 1..n : W[i].st = st
  /\ \A st \in DOMAIN aq :
       /\ aq[st].fields = Marked(m, r, st)
       /\ \A v : v \in Range(aq[st].srs) <=> v.st = st /\ \E i \in 1..n : v = W[i]
       /\ aq[st].exported <=> \E i \in 1..n : W[i].st = st /\ W[i].exported

\* The next visit is entered as well.
LEMMA EnterNext ==
  ASSUME NEW m \in Model, NEW r, NEW W \in Seq(Visit(m)), NEW n \in 1..Len(W),
         NEW aq, Entered(m, r, W, n - 1, aq)
  PROVE  Entered(m, r, W, n, Enter(m, r, aq, W[n]))
<1> DEFINE v == W[n]
           b == Enter(m, r, aq, v)
<1>1. Len(W) \in Nat /\ v \in Visit(m) /\ aq \in Entries(m)
  BY LenProperties, ElementOfSeq DEF Entered
<1>2. \A i : i \in 1..n <=> i \in 1..(n - 1) \/ i = n
  BY <1>1
<1> HIDE DEF v
<1>0. EntersTo(m, r, aq, v, b)
  BY <1>1, EnterIs
<1>3. /\ b \in Entries(m)
      /\ DOMAIN b = DOMAIN aq \cup {v.st}
      /\ \A st \in DOMAIN aq : st # v.st => b[st] = aq[st]
      /\ v.st \notin DOMAIN aq =>
           /\ b[v.st].srs = <<v>> /\ b[v.st].exported = v.exported
           /\ b[v.st].fields = Marked(m, r, v.st)
      /\ v.st \in DOMAIN aq =>
           /\ b[v.st].srs = Append(aq[v.st].srs, v)
           /\ b[v.st].exported <=> aq[v.st].exported \/ v.exported
           /\ b[v.st].fields = aq[v.st].fields
  BY <1>0 DEF EntersTo
<1>4. W[n] = v
  BY DEF v
<1> HIDE DEF b
<1>5. \A st : st \in DOMAIN b <=> \E i \in 1..n : W[i].st = st
  BY <1>2, <1>3, <1>4 DEF Entered
<1>6. ASSUME NEW st \in DOMAIN b
      PROVE  /\ b[st].fields = Marked(m, r, st)
             /\ \A u : u \in Range(b[st].srs) <=> u.st = st /\ \E i \in 1..n : u = W[i]
             /\ b[st].exported <=> \E i \in 1..n : W[i].st = st /\ W[i].exported
  <2>1. CASE st # v.st
    <3>1. st \in DOMAIN aq /\ b[st] = aq[st]
      BY <1>3, <1>6, <2>1
    <3>2. \A u : u.st = st => u # W[n]
      BY <1>4, <2>1
    <3>3. b[st].fields = Marked(m, r, st)
      BY <3>1 DEF Entered
    <3>4. \A u : u \in Range(aq[st].srs) <=> u.st = st /\ \E i \in 1..(n - 1) : u = W[i]
      BY <3>1 DEF Entered
    <3>5. \A u : u \in Range(b[st].srs) <=> u.st = st /\ \E i \in 1..n : u = W[i]
      BY <1>2, <3>1, <3>2, <3>4
    <3>6. aq[st].exported <=> \E i \in 1..(n - 1) : W[i].st = st /\ W[i].exported
      BY <3>1 DEF Entered
    <3>7. b[st].exported <=> \E i \in 1..n : W[i].st = st /\ W[i].exported
      BY <1>2, <1>4, <2>1, <3>1, <3>6
    <3> QED
      BY <3>3, <3>5, <3>7
  <2>2. CASE st = v.st /\ st \notin DOMAIN aq
    <3>1. \A i \in 1..(n - 1) : W[i].st # st
      BY <2>2 DEF Entered
    <3>2. Range(b[st].srs) = {v}
      <4>1. b[st].srs = <<v>>
        BY <1>3, <2>2
      <4>2. DOMAIN <<v>> = {1} /\ <<v>>[1] = v
        OBVIOUS
      <4>3. Range(<<v>>) = {v}
        BY <4>2, Zenon DEF Range
      <4> QED
        BY <4>1, <4>3
    <3>3. b[st].fields = Marked(m, r, st) /\ b[st].exported = v.exported
      BY <1>3, <2>2
    <3>4. \A u : u \in Range(b[st].srs) <=> u.st = st /\ \E i \in 1..n : u = W[i]
      BY <1>2, <1>4, <2>2, <3>1, <3>2
    <3>5. v.exported <=> \E i \in 1..n : W[i].st = st /\ W[i].exported
      BY <1>2, <1>4, <2>2, <3>1
    <3> QED
      BY <3>3, <3>4, <3>5
  <2>3. CASE st = v.st /\ st \in DOMAIN aq
    <3>1. aq[st] \in Entry(m)
      BY <1>1, <2>3 DEF Entries
    <3>2. aq[st].srs \in Seq(Visit(m))
      BY <3>1 DEF Entry
    <3>3. Range(b[st].srs) = Range(aq[st].srs) \cup {v}
      <4>1. b[st].srs = Append(aq[st].srs, v)
        BY <1>3, <2>3
      <4> DEFINE s == aq[st].srs
      <4>2. s \in Seq(Visit(m)) /\ b[st].srs = Append(s, v)
        BY <3>2, <4>1
      <4> HIDE DEF s
      <4>3. Range(Append(s, v)) = Range(s) \cup {v}
        BY <1>1, <4>2, RangeAppend
      <4> QED
        BY <4>2, <4>3 DEF s
    <3>4. b[st].fields = Marked(m, r, st) /\ (b[st].exported <=> aq[st].exported \/ v.exported)
      BY <1>3, <2>3 DEF Entered
    <3>5. \A u : u \in Range(aq[st].srs) <=> u.st = st /\ \E i \in 1..(n - 1) : u = W[i]
      BY <2>3 DEF Entered
    <3>6. \A u : u \in Range(b[st].srs) <=> u.st = st /\ \E i \in 1..n : u = W[i]
      BY <1>2, <1>4, <2>3, <3>3, <3>5
    <3>7. aq[st].exported <=> \E i \in 1..(n - 1) : W[i].st = st /\ W[i].exported
      BY <2>3 DEF Entered
    <3>8. b[st].exported <=> \E i \in 1..n : W[i].st = st /\ W[i].exported
      BY <1>2, <1>4, <2>3, <3>4, <3>7
    <3> QED
      BY <3>4, <3>6, <3>8
  <2> QED
    BY <2>1, <2>2, <2>3
<1>7. Entered(m, r, W, n, b)
  BY <1>3, <1>5, <1>6 DEF Entered
<1> QED
  BY <1>7 DEF b, v

\* The queries listed, one after the other.
LEMMA ListedIs ==
  ASSUME NEW r
  PROVE  /\ SetToSeq(Listed(r)) \in Seq(Op)
         /\ \A op : op \in Listed(r) <=> \E i \in DOMAIN SetToSeq(Listed(r)) : SetToSeq(Listed(r))[i] = op
<1> DEFINE L == Listed(r)
           n == Cardinality(L)
           c == CHOOSE f \in [1..n -> L] : IsInjective(f)
<1>1. L \subseteq Op /\ IsFiniteSet(L)
  BY ModelAssumption, FS_Subset DEF Listed
<1> HIDE DEF L
<1>2. n \in Nat /\ \E f \in [1..n -> L] : IsInjective(f)
  <2>1. n \in Nat /\ ExistsBijection(1..n, L)
    BY <1>1, FS_CardinalityType
  <2> QED
    BY <2>1 DEF ExistsBijection, Bijection, Injection
<1>3. c \in [1..n -> L] /\ IsInjective(c)
  BY <1>2
<1>4. SetToSeq(L) = c
  BY DEF SetToSeq
<1> HIDE DEF c
<1>5. \A op \in L : \E i \in 1..n : c[i] = op
  BY <1>1, <1>3, OrderedAll
<1> HIDE DEF n
<1>6. c \in [1..n -> Op] /\ DOMAIN c = 1..n
  BY <1>1, <1>3
<1>7. c \in Seq(Op)
  BY <1>2, <1>6, SeqDef
<1>8. \A op : op \in L <=> \E i \in DOMAIN c : c[i] = op
  BY <1>3, <1>5, <1>6
<1> QED
  BY <1>4, <1>7, <1>8 DEF L

\* The visits are those of the queries listed.
LEMMA VisitedIs ==
  ASSUME NEW m \in Model, NEW r \in AnyRole \ {All}
  PROVE  /\ Visited(m, r) \in Seq(Visit(m))
         /\ \A v : v \in Range(Visited(m, r)) <=>
              \E op \in Listed(r) : v \in Range(Visits(m, r, op, Start(m, r, op)))
<1> DEFINE ops == SetToSeq(Listed(r))
           walk(op) == Visits(m, r, op, Start(m, r, op))
           walks == [i \in DOMAIN ops |-> walk(ops[i])]
<1>1. ops \in Seq(Op) /\ \A op : op \in Listed(r) <=> \E i \in DOMAIN ops : ops[i] = op
  BY ListedIs
<1>2. Visited(m, r) = FlattenSeq(walks)
  BY DEF Visited
<1>3. \A op \in Op : walk(op) \in Seq(Visit(m))
  <2>1. ASSUME NEW op \in Op PROVE walk(op) \in Seq(Visit(m))
    <3> DEFINE start == Start(m, r, op)
    <3>1. start \in BOOLEAN
      BY DEF Start
    <3> HIDE DEF start
    <3>2. Visits(m, r, op, start) \in Seq(Visit(m))
      BY <3>1, AuditOfQuery DEF WalkOf
    <3> QED
      BY <3>2 DEF start
  <2> QED
    BY <2>1
<1> HIDE DEF walk, ops
<1>4. Len(ops) \in Nat /\ DOMAIN ops = 1..Len(ops) /\ \A i \in DOMAIN ops : ops[i] \in Op
  BY <1>1, LenProperties, ElementOfSeq
<1>5. walks \in Seq(Seq(Visit(m)))
  <2>1. walks \in [1..Len(ops) -> Seq(Visit(m))]
    BY <1>3, <1>4
  <2> HIDE DEF walks
  <2> QED
    BY <1>4, <2>1, SeqDef
<1>6. /\ FlattenSeq(walks) \in Seq(Visit(m))
      /\ \A v : v \in Range(FlattenSeq(walks)) <=> \E i \in DOMAIN walks : v \in Range(walks[i])
  <2> HIDE DEF walks
  <2> QED
    BY <1>5, FlattenRange
<1>7. \A v : (\E i \in DOMAIN walks : v \in Range(walks[i])) <=>
               \E op \in Listed(r) : v \in Range(walk(op))
  BY <1>1
<1> QED
  BY <1>2, <1>6, <1>7 DEF walk

\* The entries of a report, in terms of all visits.
LEMMA ReachIs ==
  ASSUME NEW m \in Model, NEW r, Visited(m, r) \in Seq(Visit(m))
  PROVE  Entered(m, r, Visited(m, r), Len(Visited(m, r)), Reach(m, r))
<1> DEFINE vs == Visited(m, r)
           k == Len(vs)
           z == [st \in {} |-> <<>>]
           Body(g) == [n \in 0..k |-> IF n = 0 THEN z ELSE Enter(m, r, g[n - 1], vs[n])]
           aq == CHOOSE g : g = Body(g)
           step == [n \in 1..k |-> [a \in Entries(m) |-> Enter(m, r, a, vs[n])]]
<1>1. k \in Nat /\ \A n \in 1..k : vs[n] \in Visit(m)
  BY LenProperties, ElementOfSeq
<1>2. Reach(m, r) = aq[k]
  BY DEF Reach
<1>3. z \in Entries(m) /\ DOMAIN z = {}
  <2>1. z \in [{} -> Entry(m)]
    OBVIOUS
  <2> HIDE DEF z
  <2> QED
    BY <2>1 DEF Entries
<1> HIDE DEF z, vs
<1>4. step \in Steps(Entries(m), k)
  <2>1. ASSUME NEW n \in 1..k, NEW a \in Entries(m) PROVE Enter(m, r, a, vs[n]) \in Entries(m)
    BY <1>1, EnterIs DEF EntersTo
  <2> QED
    BY <2>1 DEF Steps
<1> HIDE DEF k
<1>5. \E g : g = Body(g)
  <2>1. PICK f \in [0..k -> Entries(m)] : f[0] = z /\ \A n \in 1..k : f[n] = step[n][f[n - 1]]
    <3> HIDE DEF step
    <3>1. Courses(Entries(m), z, k, step) # {}
      BY <1>1, <1>3, <1>4, LoopRuns
    <3> QED
      BY <3>1 DEF Courses
  <2>2. ASSUME NEW n \in 0..k PROVE f[n] = Body(f)[n]
    <3>1. CASE n = 0
      BY <2>1, <3>1
    <3>2. CASE n # 0
      <4>1. n \in 1..k /\ n - 1 \in 0..k
        BY <1>1, <3>2
      <4>2. f[n - 1] \in Entries(m)
        BY <4>1
      <4>3. f[n] = step[n][f[n - 1]]
        <5> HIDE DEF step
        <5> QED
          BY <2>1, <4>1
      <4>4. f[n] = Enter(m, r, f[n - 1], vs[n])
        BY <4>1, <4>2, <4>3
      <4> QED
        BY <3>2, <4>4
    <3> QED
      BY <3>1, <3>2
  <2>3. f = [n \in 0..k |-> f[n]] /\ Body(f) = [n \in 0..k |-> Body(f)[n]]
    OBVIOUS
  <2> HIDE DEF Body
  <2>4. f = Body(f)
    BY <2>2, <2>3
  <2> QED
    BY <2>4
<1>6. aq = Body(aq)
  <2> HIDE DEF Body
  <2> QED
    BY <1>5
<1> HIDE DEF aq
<1>7. aq[0] = z /\ \A n \in 1..k : aq[n] = Enter(m, r, aq[n - 1], vs[n])
  <2>1. 0 \in 0..k /\ \A n \in 1..k : n \in 0..k /\ n # 0
    BY <1>1
  <2>2. \A n \in 0..k : aq[n] = IF n = 0 THEN z ELSE Enter(m, r, aq[n - 1], vs[n])
    BY <1>6
  <2> HIDE DEF Body
  <2> QED
    BY <2>1, <2>2
<1> HIDE DEF Body, step
<1> DEFINE S == {n \in 0..k : Entered(m, r, vs, n, aq[n])}
<1>8. 0 \in S
  <2>1. Entered(m, r, vs, 0, z)
    BY <1>3 DEF Entered
  <2> QED
    BY <1>1, <1>7, <2>1
<1>9. ASSUME NEW n \in 1..k, n - 1 \in S PROVE n \in S
  <2>1. Entered(m, r, vs, n - 1, aq[n - 1])
    BY <1>9
  <2>2. n \in 1..Len(vs) /\ vs \in Seq(Visit(m))
    BY DEF k, vs
  <2>3. Entered(m, r, vs, n, Enter(m, r, aq[n - 1], vs[n]))
    BY <2>1, <2>2, EnterNext
  <2> QED
    BY <1>1, <1>7, <2>3
<1>10. k \in S
  <2> HIDE DEF S
  <2>1. \A n \in 0..k : n \in S
    BY <1>1, <1>8, <1>9, UpTo
  <2> QED
    BY <1>1, <2>1
<1> QED
  BY <1>2, <1>10 DEF k, vs

\* The paths that a report marks as exported from a query are those of its walk.
LEMMA ReportedIs ==
  ASSUME NEW m \in Model, NEW r \in AnyRole \ {All}, NEW op \in Listed(r)
  PROVE  \A p : p \in Reported(m, Reach(m, r), op) <=> Told(m, r, Visits(m, r, op, Start(m, r, op)), p)
<1> DEFINE W == Visited(m, r)
           aq == Reach(m, r)
           mine == Visits(m, r, op, Start(m, r, op))
<1>1. /\ W \in Seq(Visit(m))
      /\ \A v : v \in Range(W) <=> \E o \in Listed(r) : v \in Range(Visits(m, r, o, Start(m, r, o)))
  BY VisitedIs
<1>2. Entered(m, r, W, Len(W), aq)
  BY <1>1, ReachIs
<1>3. \A o \in Listed(r) : \A v \in Range(Visits(m, r, o, Start(m, r, o))) : v.op = o
  <2>1. ASSUME NEW o \in Listed(r), NEW v \in Range(Visits(m, r, o, Start(m, r, o)))
        PROVE  v.op = o
    <3> DEFINE start == Start(m, r, o)
    <3>1. start \in BOOLEAN /\ o \in Op
      BY DEF Start, Listed
    <3>2. v \in Range(Visits(m, r, o, start))
      BY <2>1
    <3> HIDE DEF start
    <3>3. WalkOf(m, o, start, Visits(m, r, o, start))
      BY <3>1, AuditOfQuery
    <3> QED
      BY <3>2, <3>3 DEF WalkOf
  <2> QED
    BY <2>1
<1>4. \A v : v \in Range(W) /\ v.op = op <=> v \in Range(mine)
  <2> HIDE DEF W
  <2> QED
    BY <1>1, <1>3
<1>5. \A v : v \in Range(W) <=> \E i \in 1..Len(W) : v = W[i]
  BY <1>1, LenProperties DEF Range
<1>6. \A st : st \in DOMAIN aq <=> \E v \in Range(W) : v.st = st
  BY <1>2, <1>5 DEF Entered
<1> HIDE DEF W, aq, mine
<1>7. ASSUME NEW st \in DOMAIN aq
      PROVE  /\ aq[st].fields = Marked(m, r, st)
             /\ \A v : v \in Range(aq[st].srs) <=> v.st = st /\ v \in Range(W)
  <2>1. aq[st].fields = Marked(m, r, st)
    BY <1>2 DEF Entered
  <2>2. \A v : v \in Range(aq[st].srs) <=> v.st = st /\ \E i \in 1..Len(W) : v = W[i]
    BY <1>2 DEF Entered
  <2> QED
    BY <1>5, <2>1, <2>2
<1> DEFINE shown(st) == {y \in aq[st].fields : ~ToPassword(m, st, y)}
           from(st) == {w \in Range(aq[st].srs) : w.op = op /\ w.exported}
           paths(v, st) == {Append(v.path, x) : x \in shown(st)}
<1>8. Reported(m, aq, op) = UNION {UNION {paths(v, st) : v \in from(st)} : st \in DOMAIN aq}
  BY DEF Reported
<1>9. \A st \in DOMAIN aq : shown(st) = Shown(m, r, st)
  BY <1>7 DEF Shown
<1>10. \A st \in DOMAIN aq : \A v : v \in from(st) <=> v \in Range(mine) /\ v.st = st /\ v.exported
  BY <1>4, <1>7
<1> HIDE DEF shown, from
<1>11. \A v, st, p : p \in paths(v, st) <=> \E y \in shown(st) : p = Append(v.path, y)
  OBVIOUS
<1> HIDE DEF paths
<1>12. \A p : p \in Reported(m, aq, op) <=> \E st \in DOMAIN aq : \E v \in from(st) : p \in paths(v, st)
  BY <1>8
<1>13. ASSUME NEW p, p \in Reported(m, aq, op)
       PROVE  Told(m, r, mine, p)
  <2>1. PICK st \in DOMAIN aq : \E v \in from(st) : p \in paths(v, st)
    BY <1>12, <1>13
  <2>2. PICK v \in from(st) : p \in paths(v, st)
    BY <2>1
  <2> QED
    BY <1>9, <1>10, <1>11, <2>2 DEF Told
<1>14. ASSUME NEW p, Told(m, r, mine, p)
       PROVE  p \in Reported(m, aq, op)
  <2>1. PICK v \in Range(mine) : v.exported /\ \E y \in Shown(m, r, v.st) : p = Append(v.path, y)
    BY <1>14 DEF Told
  <2>2. v.st \in DOMAIN aq
    BY <1>4, <1>6
  <2>4. v \in from(v.st)
    BY <1>10, <2>1, <2>2
  <2>5. PICK y \in Shown(m, r, v.st) : p = Append(v.path, y)
    BY <2>1
  <2>6. y \in shown(v.st)
    BY <1>9, <2>2
  <2>3. v \in from(v.st) /\ p \in paths(v, v.st)
    BY <1>11, <2>4, <2>5, <2>6
  <2> QED
    BY <1>12, <2>2, <2>3
<1> QED
  BY <1>13, <1>14 DEF aq, mine

\* Nothing is written of a structure with "noexport" of all fields, if the map
\* of each field has the roles of it.
LEMMA HiddenAsWhole ==
  ASSUME NEW m \in Model, NEW r \in AnyRole \ {All}, NEW st \in Strct,
         RolemapHas(parent, m.hideall[st], r), FieldsHave(m, st)
  PROVE  Export(m, st, r) = {}
<1>1. \A f \in Range(m.fields[st]) : ~Written(m, st, f, r)
  <2>1. \A f \in Range(m.fields[st]) : RolemapHas(parent, f.rolemap, r)
    BY DEF FieldsHave, RolemapHas
  <2>2. \A f \in Range(m.fields[st]) : f.rolemap \subseteq AnyRole
    BY FieldsAre
  <2> QED
    BY <2>1, <2>2, LabelsOfMap DEF Written
<1>2. PICK E : ExportLevel(m, r, E)
  BY ExportLevels
<1>3. ASSUME NEW X PROVE Exports(m, r, X)[st] = {}
  <2> DEFINE W == {g \in Range(m.fields[st]) : Written(m, st, g, r)}
  <2>1. W = {}
    BY <1>1
  <2> HIDE DEF W
  <2>2. Exports(m, r, X)[st] =
          UNION {{<<f.name>>} \cup
                 (IF f.type = "struct" THEN {<<f.name>> \o p : p \in X[f.to]} ELSE {}) : f \in W}
    BY DEF Exports, W
  <2> QED
    BY <2>1, <2>2
<1>4. Depth \in 1..Depth \/ Depth = 0
  BY DepthIs
<1> QED
  BY <1>2, <1>3, <1>4 DEF ExportLevel

\* What ort_audit() says of a query that it lists.
ExactOf(m, r, op) ==
  LET aq == Reach(m, r) IN
  /\ Reported(m, aq, op) \subseteq Export(m, m.gives[op], r)
  /\ Start(m, r, op) \/ (m.gives[op] = m.of[op] /\ FieldsHave(m, m.of[op])) =>
       Export(m, m.gives[op], r) \subseteq Reported(m, aq, op)
  /\ \A st \in DOMAIN aq :
       aq[st].exported = \E v \in Range(aq[st].srs) : v.exported

\* The walk agrees with the export when it starts as exported and reports
\* nothing when not, and the entries agree with the walk.
LEMMA ListedExact ==
  ASSUME NEW m \in Model, NEW r \in AnyRole \ {All}, NEW op \in Listed(r)
  PROVE  ExactOf(m, r, op)
<1> DEFINE aq == Reach(m, r)
           W == Visited(m, r)
           start == Start(m, r, op)
<1>1. op \in Op /\ start \in BOOLEAN
  BY DEF Listed, Start
<1>2. \A p : p \in Reported(m, aq, op) <=> Told(m, r, Visits(m, r, op, start), p)
  BY ReportedIs
<1>3. ASSUME Start(m, r, op)
      PROVE  Export(m, m.gives[op], r) = Reported(m, aq, op)
  <2>1. start = TRUE
    BY <1>3
  <2> HIDE DEF start, aq
  <2>2. \A p : p \in Reported(m, aq, op) <=> Told(m, r, Visits(m, r, op, TRUE), p)
    BY <1>2, <2>1
  <2>3. \A p : p \in Export(m, m.gives[op], r) <=> Told(m, r, Visits(m, r, op, TRUE), p)
    BY <1>1, AuditOfQuery
  <2>4. \A p : p \in Export(m, m.gives[op], r) <=> p \in Reported(m, aq, op)
    BY <2>2, <2>3
  <2>5. Export(m, m.gives[op], r) \in SUBSET Export(m, m.gives[op], r)
    OBVIOUS
  <2> QED
    BY <2>4
<1>4. ASSUME ~Start(m, r, op)
      PROVE  Reported(m, aq, op) = {}
  <2>1. start = FALSE
    BY <1>4
  <2> HIDE DEF start, aq
  <2>2. \A v \in Range(Visits(m, r, op, start)) : ~v.exported
    BY <1>1, <2>1, AuditOfQuery DEF WalkOf
  <2>3. \A p : p \notin Reported(m, aq, op)
    BY <1>2, <2>2 DEF Told
  <2> QED
    BY <2>3
<1>5. ASSUME ~Start(m, r, op), m.gives[op] = m.of[op], FieldsHave(m, m.of[op])
      PROVE  Export(m, m.gives[op], r) = {}
  <2>1. m.of[op] \in Strct
    BY <1>1, ModelAssumption DEF ModelOK
  <2> QED
    BY <1>5, <2>1, HiddenAsWhole DEF Start
<1>6. W \in Seq(Visit(m)) /\ Entered(m, r, W, Len(W), aq)
  BY VisitedIs, ReachIs
<1>7. ASSUME NEW st \in DOMAIN aq
      PROVE  aq[st].exported = \E v \in Range(aq[st].srs) : v.exported
  <2> HIDE DEF aq, W
  <2>1. aq[st].exported \in BOOLEAN
    BY <1>6 DEF Entered, Entries, Entry
  <2>2. aq[st].exported <=> \E i \in 1..Len(W) : W[i].st = st /\ W[i].exported
    BY <1>6 DEF Entered
  <2>3. \A v : v \in Range(aq[st].srs) <=> v.st = st /\ \E i \in 1..Len(W) : v = W[i]
    BY <1>6 DEF Entered
  <2>4. aq[st].exported <=> \E v \in Range(aq[st].srs) : v.exported
    BY <2>2, <2>3
  <2> QED
    BY <2>1, <2>4
<1> HIDE DEF aq
<1>8. Reported(m, aq, op) \subseteq Export(m, m.gives[op], r)
  BY <1>3, <1>4
<1>9. ASSUME Start(m, r, op) \/ (m.gives[op] = m.of[op] /\ FieldsHave(m, m.of[op]))
      PROVE  Export(m, m.gives[op], r) \subseteq Reported(m, aq, op)
  BY <1>3, <1>5, <1>9
<1> QED
  BY <1>7, <1>8, <1>9 DEF ExactOf, aq
------------------------------------------------------------------------------
\* The structures that only refer to those of S: starting from none, these are
\* all of them after Depth turns.
Ends(m, S) == {st \in Strct : \A f \in Range(m.fields[st]) : f.type = "struct" => f.to \in S}

\* Each level adds a structure, as references lead to none again.
LEMMA ReferencesEnd ==
  ASSUME NEW m \in Model
  PROVE  \E g \in [0..Depth -> SUBSET Strct] :
           g[0] = {} /\ g[Depth] = Strct /\ \A n \in 1..Depth : g[n] = Ends(m, g[n - 1])
<1> DEFINE step == [n \in 1..Depth |-> [S \in SUBSET Strct |-> Ends(m, S)]]
           none == {}
<1>1. Depth \in Nat /\ IsFiniteSet(Strct) /\ Depth = Cardinality(Strct) /\ ModelOK(m)
  BY DepthIs, ModelAssumption DEF Depth
<1>2. PICK g \in [0..Depth -> SUBSET Strct] :
        g[0] = none /\ \A n \in 1..Depth : g[n] = step[n][g[n - 1]]
  <2>1. step \in Steps(SUBSET Strct, Depth)
    BY DEF Steps, Ends
  <2>2. none \in SUBSET Strct
    OBVIOUS
  <2> HIDE DEF step, none
  <2>3. Courses(SUBSET Strct, none, Depth, step) # {}
    BY <1>1, <2>1, <2>2, LoopRuns
  <2> QED
    BY <2>3 DEF Courses
<1>3. \A n \in 1..Depth : n \in 0..Depth /\ n - 1 \in 0..Depth
  BY <1>1
<1>4. \A n \in 1..Depth : g[n] = Ends(m, g[n - 1])
  <2>1. \A n \in 1..Depth : g[n - 1] \in SUBSET Strct /\ g[n] = step[n][g[n - 1]]
    <3> HIDE DEF step
    <3> QED
      BY <1>2, <1>3
  <2> QED
    BY <2>1
<1> HIDE DEF step
<1>5. ASSUME NEW A, NEW B, A \subseteq B
      PROVE  Ends(m, A) \subseteq Ends(m, B)
  BY <1>5 DEF Ends
<1> DEFINE Up == {n \in 0..Depth : n = Depth \/ g[n] \subseteq Ends(m, g[n])}
<1>6. \A n \in 0..Depth : n \in Up
  <2>1. 0 \in Up
    BY <1>1, <1>2
  <2>2. ASSUME NEW n \in 1..Depth, n - 1 \in Up PROVE n \in Up
    <3>1. g[n - 1] \subseteq Ends(m, g[n - 1])
      BY <1>1, <2>2
    <3>2. g[n - 1] \subseteq g[n]
      BY <1>4, <3>1
    <3>3. g[n] \subseteq Ends(m, g[n])
      BY <1>4, <1>5, <3>2
    <3> QED
      BY <1>3, <3>3
  <2> HIDE DEF Up
  <2> QED
    BY <1>1, <2>1, <2>2, UpTo
<1> DEFINE Big == {n \in 0..Depth : g[n] = Strct \/ Cardinality(g[n]) >= n}
<1>7. \A n \in 0..Depth : n \in Big
  <2>1. 0 \in Big
    <3>1. Cardinality({}) = 0
      BY FS_EmptySet
    <3>2. g[0] = {} /\ 0 \in 0..Depth
      BY <1>1, <1>2
    <3>3. Cardinality(g[0]) >= 0
      BY <3>1, <3>2
    <3> QED
      BY <3>2, <3>3
  <2>2. ASSUME NEW n \in 1..Depth, n - 1 \in Big PROVE n \in Big
    <3> DEFINE a == g[n - 1] b == g[n]
    <3>1. a \in SUBSET Strct /\ b \in SUBSET Strct /\ b = Ends(m, a)
      BY <1>2, <1>3, <1>4
    <3>2. a \subseteq b
      <4>1. n - 1 \in Up /\ n - 1 # Depth
        BY <1>1, <1>3, <1>6
      <4> QED
        BY <3>1, <4>1
    <3>3. IsFiniteSet(a) /\ IsFiniteSet(b)
      BY <1>1, <3>1, FS_Subset
    <3>4. CASE a = Strct
      BY <1>3, <3>1, <3>2, <3>4
    <3>5. CASE a # Strct
      <4>1. Cardinality(a) >= n - 1
        BY <2>2, <3>5
      <4>2. Strct \ a \in (SUBSET Strct) \ {{}}
        BY <3>1, <3>5
      <4>3. PICK st \in Strct \ a :
              \A f \in Range(m.fields[st]) : f.type = "struct" => f.to \notin Strct \ a
        BY <1>1, <4>2 DEF ModelOK
      <4>4. st \in b
        BY <1>1, <3>1, <4>3 DEF Ends, ModelOK
      <4>5. a \cup {st} \subseteq b /\ st \notin a
        BY <3>2, <4>3, <4>4
      <4>6. IsFiniteSet(a \cup {st}) /\ Cardinality(a \cup {st}) = Cardinality(a) + 1
        BY <3>3, <4>5, FS_AddElement
      <4>7. Cardinality(a \cup {st}) <= Cardinality(b)
        BY <3>3, <4>5, FS_Subset
      <4>8. Cardinality(a) \in Nat /\ Cardinality(b) \in Nat
        BY <3>3, FS_CardinalityType
      <4>9. Cardinality(b) >= n
        BY <1>1, <4>1, <4>6, <4>7, <4>8
      <4> QED
        BY <1>3, <4>9
    <3> QED
      BY <3>4, <3>5
  <2> HIDE DEF Big
  <2> QED
    BY <1>1, <2>1, <2>2, UpTo
<1>8. g[Depth] = Strct
  <2>1. Depth \in 0..Depth
    BY <1>1
  <2>2. g[Depth] = Strct \/ Cardinality(g[Depth]) >= Cardinality(Strct)
    BY <1>1, <1>7, <2>1
  <2>3. g[Depth] \in SUBSET Strct
    BY <1>2, <2>1
  <2>4. /\ Cardinality(g[Depth]) <= Cardinality(Strct)
        /\ Cardinality(Strct) = Cardinality(g[Depth]) => Strct = g[Depth]
    BY <1>1, <2>3, FS_Subset
  <2>5. IsFiniteSet(g[Depth]) /\ Cardinality(g[Depth]) \in Nat /\ Cardinality(Strct) \in Nat
    BY <1>1, <2>3, FS_Subset, FS_CardinalityType
  <2> QED
    BY <2>2, <2>4, <2>5
<1> QED
  BY <1>2, <1>4, <1>8

\* Only what is below a structure enters into its export.
LEMMA ExportBelow ==
  ASSUME NEW m \in Model, NEW r, NEW X, NEW Y, NEW st \in Strct,
         \A f \in Range(m.fields[st]) : f.type = "struct" => X[f.to] = Y[f.to]
  PROVE  Exports(m, r, X)[st] = Exports(m, r, Y)[st]
<1> DEFINE text(f, Z) == {<<f.name>>} \cup
             (IF f.type = "struct" THEN {<<f.name>> \o p : p \in Z[f.to]} ELSE {})
           W == {g \in Range(m.fields[st]) : Written(m, st, g, r)}
<1>1. \A f \in W : text(f, X) = text(f, Y)
  OBVIOUS
<1>2. Exports(m, r, X)[st] = UNION {text(f, X) : f \in W} /\ Exports(m, r, Y)[st] = UNION {text(f, Y) : f \in W}
  BY DEF Exports
<1> HIDE DEF text, W
<1>3. UNION {text(f, X) : f \in W} = UNION {text(f, Y) : f \in W}
  BY <1>1
<1> QED
  BY <1>2, <1>3

\* The same for the walk.
LEMMA WalkBelow ==
  ASSUME NEW m \in Model, NEW r, NEW op, NEW X, NEW Y, NEW st \in Strct,
         \A f \in Range(m.fields[st]) : f.type = "struct" => X[f.to] = Y[f.to]
  PROVE  Follow(m, r, op, X)[st] = Follow(m, r, op, Y)[st]
<1> DEFINE fs == m.fields[st]
           root(x) == <<[st |-> st, op |-> op, path |-> <<>>, exported |-> x]>>
           via(f, on) == [j \in DOMAIN on |-> Via(f, on[j])]
           part(f, x, Z) == IF f.type # "struct" THEN <<>> ELSE via(f, OnBy(m, r, st, x, f, Z))
           walk(x, Z) == root(x) \o FlattenSeq([i \in DOMAIN fs |-> part(fs[i], x, Z)])
<1>1. Follow(m, r, op, X)[st] = [x \in BOOLEAN |-> walk(x, X)] /\ Follow(m, r, op, Y)[st] = [x \in BOOLEAN |-> walk(x, Y)]
  BY DEF Follow, OnBy
<1>2. \A i \in DOMAIN fs, x \in BOOLEAN : part(fs[i], x, X) = part(fs[i], x, Y)
  <2>1. ASSUME NEW i \in DOMAIN fs, NEW x \in BOOLEAN, fs[i].type = "struct"
        PROVE  OnBy(m, r, st, x, fs[i], X) = OnBy(m, r, st, x, fs[i], Y)
    <3>1. fs[i] \in Range(fs)
      BY DEF Range
    <3>2. X[fs[i].to] = Y[fs[i].to]
      BY <2>1, <3>1
    <3> QED
      BY <3>2 DEF OnBy
  <2> HIDE DEF via, fs
  <2> QED
    BY <2>1
<1> HIDE DEF part, root
<1>3. \A x \in BOOLEAN : walk(x, X) = walk(x, Y)
  <2>1. ASSUME NEW x \in BOOLEAN
        PROVE  [i \in DOMAIN fs |-> part(fs[i], x, X)] = [i \in DOMAIN fs |-> part(fs[i], x, Y)]
    BY <1>2
  <2> QED
    BY <2>1
<1> HIDE DEF walk
<1> QED
  BY <1>1, <1>3

\* No level is missing: what is written of a structure is what its functions
\* write of the structures below, and so are the walks.
LEMMA LevelsSuffice ==
  ASSUME NEW m \in Model, NEW r, NEW E, ExportLevel(m, r, E), NEW op, NEW V
  PROVE  \A st \in Strct :
           /\ Exports(m, r, E[Depth])[st] = E[Depth][st]
           /\ WalkLevel(m, r, op, V) => Follow(m, r, op, V[Depth])[st] = V[Depth][st]
<1>1. PICK g \in [0..Depth -> SUBSET Strct] :
        g[0] = {} /\ g[Depth] = Strct /\ \A n \in 1..Depth : g[n] = Ends(m, g[n - 1])
  BY ReferencesEnd
<1> DEFINE Ready(n) == \A st \in g[n] : /\ Exports(m, r, E[n])[st] = E[n][st]
                                        /\ WalkLevel(m, r, op, V) =>
                                             Follow(m, r, op, V[n])[st] = V[n][st]
           S == {n \in 0..Depth : Ready(n)}
<1>2. Depth \in Nat
  BY DepthIs
<1>3. 0 \in S
  BY <1>1, <1>2
<1>4. ASSUME NEW n \in 1..Depth, n - 1 \in S PROVE n \in S
  <2> DEFINE e == E[n - 1] v == V[n - 1]
  <2>1. /\ E[n] = Exports(m, r, e) /\ g[n] = Ends(m, g[n - 1]) /\ Ready(n - 1)
        /\ WalkLevel(m, r, op, V) => V[n] = Follow(m, r, op, v)
    BY <1>1, <1>4 DEF ExportLevel, WalkLevel
  <2>2. ASSUME NEW st \in g[n]
        PROVE  /\ Exports(m, r, E[n])[st] = E[n][st]
               /\ WalkLevel(m, r, op, V) => Follow(m, r, op, V[n])[st] = V[n][st]
    <3>1. st \in Strct /\ \A f \in Range(m.fields[st]) : f.type = "struct" => f.to \in g[n - 1]
      BY <2>1 DEF Ends
    <3> DEFINE e2 == E[n] v2 == V[n]
    <3>3. \A f \in Range(m.fields[st]) : f.type = "struct" => e2[f.to] = e[f.to]
      BY <2>1, <3>1
    <3>4. WalkLevel(m, r, op, V) =>
            \A f \in Range(m.fields[st]) : f.type = "struct" => v2[f.to] = v[f.to]
      BY <2>1, <3>1
    <3> HIDE DEF e, v, e2, v2
    <3>5. Exports(m, r, e2)[st] = Exports(m, r, e)[st]
      BY <3>1, <3>3, ExportBelow
    <3>6. WalkLevel(m, r, op, V) => Follow(m, r, op, v2)[st] = Follow(m, r, op, v)[st]
      BY <3>1, <3>4, WalkBelow
    <3> QED
      BY <2>1, <3>5, <3>6 DEF e2, v2
  <2> QED
    BY <1>2, <2>2
<1>5. Depth \in S
  <2> HIDE DEF S
  <2>1. \A n \in 0..Depth : n \in S
    BY <1>2, <1>3, <1>4, UpTo
  <2> QED
    BY <1>2, <2>1
<1> QED
  BY <1>1, <1>5

\* db_export_foo() calls the functions of the structures referred to until
\* there are none: the levels that Export counts are as many as that takes.
THEOREM ExportWhole ==
  ASSUME NEW m \in Model, NEW r \in AnyRole, NEW st \in Strct
  PROVE  Export(m, st, r) = Exports(m, r, [s \in Strct |-> Export(m, s, r)])[st]
<1> DEFINE e == [s \in Strct |-> Export(m, s, r)]
<1>1. PICK E : ExportLevel(m, r, E)
  BY ExportLevels
<1>2. \A s : Export(m, s, r) = E[Depth][s]
  BY <1>1 DEF ExportLevel
<1>3. Exports(m, r, E[Depth])[st] = E[Depth][st]
  BY <1>1, LevelsSuffice
<1>4. \A f \in Range(m.fields[st]) : f.type = "struct" => e[f.to] = E[Depth][f.to]
  BY <1>2, FieldsAre
<1> DEFINE last == E[Depth]
<1>5. \A f \in Range(m.fields[st]) : f.type = "struct" => e[f.to] = last[f.to]
  BY <1>4
<1> HIDE DEF e, last
<1>6. Exports(m, r, e)[st] = Exports(m, r, last)[st]
  BY <1>5, ExportBelow
<1> QED
  BY <1>2, <1>3, <1>6 DEF e, last
------------------------------------------------------------------------------
(* AuditExact, for all models. *)

\* The last query was open to the role, if the program still runs.
LastCallable == status = "run" /\ call.fn = "query" => MayCall(call.arg)

\* Queries change no role, and db_role() is another call.
LEMMA AuditStepIInv == LastCallable /\ [NodeNext]_nodeVars => LastCallable'
<1>1. SUFFICES ASSUME LastCallable, [NodeNext]_nodeVars PROVE LastCallable'
  OBVIOUS
<1>2. ASSUME NEW r \in AnyRole, NodeSetRole(r) PROVE LastCallable'
  BY <1>2 DEF NodeSetRole, LastCallable
<1>3. ASSUME NEW op \in Op, NodeQuery(op) PROVE LastCallable'
  BY <1>3 DEF NodeQuery, LastCallable, MayCall
<1>4. CASE UNCHANGED nodeVars
  BY <1>1, <1>4 DEF nodeVars, LastCallable, MayCall
<1> QED
  BY <1>1, <1>2, <1>3, <1>4 DEF NodeNext

\* What an audit marks as exported from a query is shown by the object that the
\* query just returned; and it is all that this shows, path for path, where the
\* walk starts as exported, or else the fields have the roles that it goes by.
THEOREM AuditIsExact == NodeSpec => []AuditExact
<1>1. NodeInit => LastCallable
  BY DEF NodeInit, LastCallable
<1>2. NodeTypeOK /\ LastCallable => AuditExact
  <2>1. SUFFICES ASSUME NodeTypeOK, LastCallable,
                        status = "run", call.fn = "query", grant[call.arg] # {}
                 PROVE  ListsCallable /\ \A m \in Model : ExactOf(m, role, call.arg)
    BY DEF AuditExact, ExactOf
  <2>2. ListsCallable
    BY <2>1, MayCallMap DEF ListsCallable, Listed
  <2>3. call.arg \in Op
    BY <2>1 DEF NodeTypeOK, Call
  <2>4. call.arg \in Listed(role)
    BY <2>1, <2>2, <2>3 DEF ListsCallable, LastCallable
  <2>5. role \in AnyRole \ {All}
    BY <2>1 DEF NodeTypeOK
  <2>6. \A m \in Model : ExactOf(m, role, call.arg)
    BY <2>4, <2>5, ListedExact
  <2> QED
    BY <2>2, <2>6
<1> QED
  BY <1>1, <1>2, AuditStepIInv, NodeTypeCorrect, PTL DEF NodeSpec
==============================================================================
