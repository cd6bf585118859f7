-------------------------------- MODULE Audit --------------------------------
(***************************************************************************)
(* What ort-audit says of a role, beside what a program does in it.  The   *)
(* program is the Node.js class of NodeRole; an object that a query gave   *)
(* in some role is exported by db_export_foo() (lang-nodejs.c), which in C *)
(* is json_foo_data() (lang-c-source.c): fields are left out for their     *)
(* flag, their type or their role map, and references are exported by the  *)
(* function of their structure.  ort_audit() (audit.c) walks the           *)
(* configuration instead, from each query the role may call.               *)
(*                                                                         *)
(* A model is the structures of a configuration, with the role maps that   *)
(* the linker left (RoleMaps).  Those of the fields and that of a          *)
(* "noexport" without a field need not agree: where statements with and    *)
(* without a field meet, linking may lose roles of the latter, or add      *)
(* roles to it.  References that may be null are taken not to be.          *)
(***************************************************************************)
EXTENDS NodeRole, Integers, Sequences, SequencesExt

CONSTANTS
  Strct,   \* structures
  Model    \* configurations of them: what every run of a module keeps as it is

\* Fields of a structure have different names, and references lead to no
\* structure again (parser_field.c, linker_aliases.c).
ModelOK(m) ==
  /\ \A st \in Strct :
       /\ m.fields[st] \in Seq(Range(m.fields[st]))
       /\ \A f, g \in Range(m.fields[st]) : f.name = g.name => f = g
       /\ \A f \in Range(m.fields[st]) :
            /\ f.type \in {"data", "password", "struct"}
            /\ f.type = "struct" => f.to \in Strct
            /\ f.rolemap \subseteq AnyRole \ {None}
       /\ m.hideall[st] \subseteq AnyRole \ {None}
  /\ \A S \in (SUBSET Strct) \ {{}} : \E st \in S :
       \A f \in Range(m.fields[st]) : f.type = "struct" => f.to \notin S
  /\ m.of \in [Op -> Strct] /\ m.gives \in [Op -> Strct]

ASSUME ModelAssumption ==
  /\ IsFiniteSet(Strct) /\ IsFiniteSet(Op)
  /\ \A m \in Model : ModelOK(m)

\* No path of references goes by more structures than there are.
Depth == Cardinality(Strct)

------------------------------------------------------------------------------
(* Export. *)

\* gen_json_out_field(), and the loop of gen_strct(): whether a field is
\* written for an object that was filled in role r.
Written(m, st, f, r) ==
  /\ ~f.noexport
  /\ f.type # "password"
  /\ r \notin CaseLabels(parent, f.rolemap)

\* db_export_foo(): what is written of each structure, by what its functions
\* write of the structures below.
Exports(m, r, below) ==
  [st \in Strct |->
     UNION {{<<f.name>>} \cup
            (IF f.type = "struct" THEN {<<f.name>> \o p : p \in below[f.to]} ELSE {}) :
            f \in {g \in Range(m.fields[st]) : Written(m, st, g, r)}}]

\* The paths of names in what is written for an object.
Export(m, st, r) ==
  LET E[n \in 0..Depth] == IF n = 0 THEN [s \in Strct |-> {}] ELSE Exports(m, r, E[n - 1])
  IN  E[Depth][st]
------------------------------------------------------------------------------
(* The audit. *)

\* Mutant: forgets that the field itself may be marked.
FieldExportedMapped(m, st, f, r) == ~RolemapHas(parent, f.rolemap, r)

\* follow(): the mark of a field in the entry of its structure, and whether a
\* reference is followed as an exported one.
FieldExported(m, st, f, r) ==
  ~f.noexport /\ ~RolemapHas(parent, f.rolemap, r)

\* A visit by way of a field.
Via(f, v) == [v EXCEPT !.path = <<f.name>> \o @]

\* Mutant: starts anew at each reference.
FollowAnew(m, r, op, below) ==
  [st \in Strct |-> [exported \in BOOLEAN |->
     LET fs == m.fields[st] IN
     <<[st |-> st, op |-> op, path |-> <<>>, exported |-> exported]>> \o
     FlattenSeq([i \in DOMAIN fs |->
       IF fs[i].type # "struct" THEN <<>>
       ELSE LET on == below[fs[i].to][FieldExported(m, st, fs[i], r)]
            IN  [j \in DOMAIN on |-> Via(fs[i], on[j])]])]]

\* follow(): the visits made from each structure, exported or not, in their
\* order, by those made from the structures below.
Follow(m, r, op, below) ==
  [st \in Strct |-> [exported \in BOOLEAN |->
     LET fs == m.fields[st] IN
     <<[st |-> st, op |-> op, path |-> <<>>, exported |-> exported]>> \o
     FlattenSeq([i \in DOMAIN fs |->
       IF fs[i].type # "struct" THEN <<>>
       ELSE LET on == below[fs[i].to][exported /\ FieldExported(m, st, fs[i], r)]
            IN  [j \in DOMAIN on |-> Via(fs[i], on[j])]])]]

\* The structures visited from query op, with the path to each and whether it
\* is exported on the way.
Visits(m, r, op, start) ==
  LET V[n \in 0..Depth] == IF n = 0 THEN [st \in Strct |-> [exported \in BOOLEAN |-> <<>>]]
                           ELSE Follow(m, r, op, V[n - 1])
  IN  V[Depth][m.gives[op]][start]

\* The fields marked in the entry of a structure.
Marked(m, r, st) == {f.name : f \in {g \in Range(m.fields[st]) : FieldExported(m, st, g, r)}}

\* Mutant: an entry keeps the mark of its first visit.
EnterFirst(m, r, aq, v) ==
  [st \in DOMAIN aq \cup {v.st} |->
     IF st \notin DOMAIN aq
     THEN [exported |-> v.exported, srs |-> <<v>>, fields |-> Marked(m, r, st)]
     ELSE IF st = v.st THEN [aq[st] EXCEPT !.srs = Append(@, v)]
     ELSE aq[st]]

\* follow(): the entry of the structure is made on the first visit, and each
\* visit adds its path and may turn the entry into an exported one.
Enter(m, r, aq, v) ==
  [st \in DOMAIN aq \cup {v.st} |->
     IF st \notin DOMAIN aq
     THEN [exported |-> v.exported, srs |-> <<v>>, fields |-> Marked(m, r, st)]
     ELSE IF st = v.st
     THEN [aq[st] EXCEPT !.srs = Append(@, v), !.exported = @ \/ v.exported]
     ELSE aq[st]]

\* Mutant: lists what is open to the role by name only.
ListedNamed(r) == {op \in Op : r \in grant[op]}

\* ort_audit(): the operations listed, whose role map speaks of r.
Listed(r) == {op \in Op : RolemapHas(parent, grant[op], r)}

\* ort_audit(): a walk starts as an exported one but for a "noexport" of all
\* fields of the structure searched, by the map of that statement.  This may
\* not be the structure returned, nor need its fields have all of these roles.
Start(m, r, op) == ~RolemapHas(parent, m.hideall[m.of[op]], r)

\* ort_audit(): all visits, from one query after the other.
Visited(m, r) ==
  LET ops == SetToSeq(Listed(r))
  IN  FlattenSeq([i \in DOMAIN ops |-> Visits(m, r, ops[i], Start(m, r, ops[i]))])

\* ort_audit(): the entries of structures reachable from the queries listed.
Reach(m, r) ==
  LET vs == Visited(m, r)
      aq[n \in 0..Len(vs)] == IF n = 0 THEN [st \in {} |-> <<>>] ELSE Enter(m, r, aq[n - 1], vs[n])
  IN  aq[Len(vs)]
------------------------------------------------------------------------------
(* Properties. *)

\* Paths through a model to passwords, which are never exported.
ToPassword(m, st, name) ==
  \E f \in Range(m.fields[st]) : f.name = name /\ f.type = "password"

\* The paths of fields that the audit marks as exported from query op.
Reported(m, aq, op) ==
  UNION {UNION {{Append(v.path, x) : x \in {y \in aq[st].fields : ~ToPassword(m, st, y)}} :
                  v \in {w \in Range(aq[st].srs) : w.op = op /\ w.exported}} :
           st \in DOMAIN aq}

\* The operations that the audit lists for the current role are, of those
\* given roles, the ones that the program may call in it.
ListsCallable == \A op \in Op : grant[op] # {} => (op \in Listed(role) <=> MayCall(op))

\* Whether linking left each field of a structure the roles of the "noexport"
\* of all: so it is without one that names a field, when they share the map.
FieldsHave(m, st) == \A f \in Range(m.fields[st]) : m.hideall[st] \subseteq f.rolemap

\* The audit of a role lists what the role may call, and never marks a field
\* as exported that an object does not show which a query just returned to
\* it.  But for passwords it marks every field shown, unless it takes the
\* structure searched as hidden and that is not the one returned, or some of
\* its fields lost roles of the "noexport" of all.  A structure is "readwrite"
\* in the short form if that is so on some path.  (Of operations that were
\* given roles.)
AuditExact ==
  status = "run" /\ call.fn = "query" /\ grant[call.arg] # {} =>
    /\ ListsCallable
    /\ \A m \in Model :
         LET aq == Reach(m, role) op == call.arg IN
         /\ Reported(m, aq, op) \subseteq Export(m, m.gives[op], role)
         /\ Start(m, role, op) \/ (m.gives[op] = m.of[op] /\ FieldsHave(m, m.of[op])) =>
              Export(m, m.gives[op], role) \subseteq Reported(m, aq, op)
         /\ \A st \in DOMAIN aq :
              aq[st].exported = \E v \in Range(aq[st].srs) : v.exported

\* man/ort-audit.1:66: a structure that is reachable is reported as "read",
\* and as "readwrite" if "it may be exported".  So an object of one that is
\* only "read" shows nothing.  Fails in both of the cases excepted above.
ReadOnlyHidden ==
  status = "run" /\ call.fn = "query" /\ grant[call.arg] # {} =>
    \A m \in Model :
      ~Reach(m, role)[m.gives[call.arg]].exported => Export(m, m.gives[call.arg], role) = {}

\* All operations that the program runs are listed: fails for those that were
\* given no roles.
AuditLists ==
  status = "run" /\ call.fn = "query" => call.arg \in Listed(role)
==============================================================================
