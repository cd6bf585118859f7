------------------------------ MODULE RoleMaps ------------------------------
(***************************************************************************)
(* The "roles" statements of one structure, from the parser to the linker. *)
(* parse_struct_roles() and rolemap_assign() (parser_struct.c) collect, for*)
(* each kind of operation named, one role map and one entry of the resolve *)
(* queue; linker_resolve() (linker_resolve.c) then hands the map to the    *)
(* operation, the fields, or all operations; ort_parse_close() (linker.c)  *)
(* refuses maps that hold a role twice.                                    *)
(*                                                                         *)
(* Role maps are objects: operations and fields point at them, several may *)
(* point at the same one, and roles are added through any of them.  What   *)
(* is linked may be written (writer.c) and read again.                     *)
(***************************************************************************)
EXTENDS Integers, Sequences, SequencesExt

CONSTANTS
  Role,        \* roles known to the configuration
  Unknown,     \* a role name the configuration does not have
  RoleList,    \* the role lists a statement may start with
  Op,          \* operations the structure has
  Missing,     \* an operation name it does not have
  Field,       \* its fields
  NoName,      \* for "noexport;" and "all;", which name nothing
  MaxRoles     \* bound: role names written, over all statements

ASSUME RoleMapsAssumption ==
  /\ Unknown \notin Role /\ Missing \notin Op /\ NoName \notin Field
  /\ RoleList \subseteq Seq(Role \cup {Unknown}) \ {<<>>}
  /\ MaxRoles \in Nat

VARIABLES
  maps,      \* the role maps, in the order of their resolve queue entries
  phase,     \* "parse", "link", "post", "done" or "fail"
  next,      \* the entry being resolved
  fails,     \* entries that could not be resolved
  opMap,     \* operation -> its role map, 0 for none
  fieldMap,  \* field -> the role map it is not exported to, 0 for none
  allMap,    \* the map given to "all", 0 for none
  decl,      \* what was written: <<role, type, name>>
  saved      \* the roles of operations and fields before they were rewritten

vars == <<maps, phase, next, fails, opMap, fieldMap, allMap, decl, saved>>

Kind ==
  ({"all"} \X {NoName}) \cup ({"op"} \X (Op \cup {Missing}))
    \cup ({"noexport"} \X (Field \cup {NoName}))

MapId == 0..Len(maps)

TypeOK ==
  /\ maps \in Seq([kind : Kind, roles : Seq(Role \cup {Unknown})])
  /\ phase \in {"parse", "link", "post", "done", "fail"}
  /\ next \in 1..Len(maps) + 1
  /\ fails \in 0..Len(maps)
  /\ opMap \in [Op -> MapId]
  /\ fieldMap \in [Field -> MapId]
  /\ allMap \in MapId
  /\ decl \subseteq (Role \cup {Unknown}) \X {"all", "op", "noexport"}
                    \X (Op \cup Field \cup {Missing, NoName})
  /\ saved = <<>> \/ saved \in Seq([op : [Op -> SUBSET Role], field : [Field -> SUBSET Role]])

Init ==
  /\ maps = <<>>
  /\ phase = "parse"
  /\ next = 1
  /\ fails = 0
  /\ opMap = [op \in Op |-> 0]
  /\ fieldMap = [f \in Field |-> 0]
  /\ allMap = 0
  /\ decl = {}
  /\ saved = <<>>
------------------------------------------------------------------------------
(* The parser. *)

\* Role names written so far.
Given == FoldLeft(LAMBDA n, m : n + Len(m.roles), 0, maps)

\* rolemap_assign(): the map of this kind of operation, old or new, gets the
\* roles of the statement.
Assign(ns, kind) ==
  /\ phase = "parse"
  /\ Given + Len(ns) <= MaxRoles
  /\ \/ \E m \in DOMAIN maps :
          /\ maps[m].kind = kind
          /\ maps' = [maps EXCEPT ![m].roles = @ \o ns]
     \/ /\ \A m \in DOMAIN maps : maps[m].kind # kind
        /\ maps' = Append(maps, [kind |-> kind, roles |-> ns])
  /\ decl' = decl \cup {<<r, kind[1], kind[2]>> : r \in Range(ns)}
  /\ UNCHANGED <<phase, next, fails, opMap, fieldMap, allMap, saved>>

\* linker_resolve(), first pass: every role name is looked up.
ResolveNames ==
  /\ phase = "parse"
  /\ phase' = IF \E m \in DOMAIN maps : Unknown \in Range(maps[m].roles)
              THEN "fail" ELSE "link"
  /\ UNCHANGED <<maps, next, fails, opMap, fieldMap, allMap, decl, saved>>
------------------------------------------------------------------------------
(* The linker's second pass: hand each map to what it names. *)

Entry == maps[next]

Linking(type) ==
  /\ phase = "link"
  /\ next <= Len(maps)
  /\ Entry.kind[1] = type
  /\ next' = next + 1

\* resolve_struct_rolemap_all()
LinkAll ==
  /\ Linking("all")
  /\ allMap' = next
  /\ UNCHANGED <<maps, phase, fails, opMap, fieldMap, decl, saved>>

\* resolve_struct_rolemap_insert(), _update(), _query(): the operation's map,
\* or a failure that is counted while the pass goes on.
LinkOp ==
  /\ Linking("op")
  /\ \/ /\ Entry.kind[2] \in Op
        /\ opMap' = [opMap EXCEPT ![Entry.kind[2]] = next]
        /\ UNCHANGED fails
     \/ /\ Entry.kind[2] \notin Op
        /\ fails' = fails + 1
        /\ UNCHANGED opMap
  /\ UNCHANGED <<maps, phase, fieldMap, allMap, decl, saved>>

\* resolve_struct_rolemap_field(), the loop: roles of src are added to dst up
\* to the first that dst already has, where the function returns.
Merged(dst, src) ==
  LET had == {i \in DOMAIN src : src[i] \in Range(dst) \cup Range(SubSeq(src, 1, i - 1))}
      n   == IF had = {} THEN Len(src) ELSE Min(had) - 1
  IN  dst \o SubSeq(src, 1, n)

\* Mutant: leaves the loop over all fields after the first.
WithheldFirst == IF Entry.kind[2] = NoName THEN {CHOOSE f \in Field : TRUE} ELSE {Entry.kind[2]}

\* The fields of a "noexport" entry: the one it names, or all.
Withheld == IF Entry.kind[2] = NoName THEN Field ELSE {Entry.kind[2]}

\* resolve_struct_rolemap_noexport(): a field without a map takes the entry's,
\* the maps of the others get its roles.  Fields may share a map: to merge it
\* again adds nothing, for it has the first of the roles by then.
LinkNoexport ==
  /\ Linking("noexport")
  /\ fieldMap' = [f \in Field |-> IF f \in Withheld /\ fieldMap[f] = 0 THEN next ELSE fieldMap[f]]
  /\ maps' = [m \in DOMAIN maps |->
                IF \E f \in Withheld : fieldMap[f] = m
                THEN [maps[m] EXCEPT !.roles = Merged(@, Entry.roles)]
                ELSE maps[m]]
  /\ UNCHANGED <<phase, fails, opMap, allMap, decl, saved>>

EndLink ==
  /\ phase = "link"
  /\ next > Len(maps)
  /\ phase' = IF fails > 0 THEN "fail" ELSE "post"
  /\ UNCHANGED <<maps, next, fails, opMap, fieldMap, allMap, decl, saved>>
------------------------------------------------------------------------------
\* Mutant: adds roles that are there already.
CoveredTwice(dst, src) == dst \o src

\* resolve_struct_rolemap_post_cover(): the roles of src that dst lacks.
Covered(dst, src) ==
  LET upto[n \in 0..Len(src)] ==
        IF n = 0 THEN dst
        ELSE IF src[n] \in Range(upto[n - 1]) THEN upto[n - 1] ELSE Append(upto[n - 1], src[n])
  IN  upto[Len(src)]

\* Mutant: an operation with a map of its own is left out.
CoverOpsBare ==
  /\ opMap' = [op \in Op |-> IF opMap[op] = 0 THEN allMap ELSE opMap[op]]
  /\ UNCHANGED maps

\* resolve_struct_rolemap_post(): operations without a map take that of
\* "all", the maps of the others are extended by its roles.
CoverOps ==
  /\ opMap' = [op \in Op |-> IF opMap[op] = 0 THEN allMap ELSE opMap[op]]
  /\ maps' = [m \in DOMAIN maps |->
                IF allMap # 0 /\ m \in Range(opMap)
                THEN [maps[m] EXCEPT !.roles = Covered(@, maps[allMap].roles)]
                ELSE maps[m]]

\* check_unique_roles()
HasDuplicates == \E m \in DOMAIN maps' : ~IsInjective(maps'[m].roles)

\* The third pass, then the check of every map of the structure.
Post ==
  /\ phase = "post"
  /\ CoverOps
  /\ phase' = IF HasDuplicates THEN "fail" ELSE "done"
  /\ UNCHANGED <<next, fails, fieldMap, allMap, decl, saved>>

RolesOf(m) == IF m = 0 THEN {} ELSE Range(maps[m].roles)

OpRoles == [op \in Op |-> RolesOf(opMap[op])]
FieldRoles == [f \in Field |-> RolesOf(fieldMap[f])]

\* parse_write_rolemap() for each map in its order, with the roles it has come
\* to hold, and rolemap_assign() for each of the statements: as many maps, for
\* no two are of one kind and name, and nobody holds one yet.
Rewrite ==
  /\ phase = "done" /\ saved = <<>>
  /\ saved' = <<[op |-> OpRoles, field |-> FieldRoles]>>
  /\ phase' = "link"
  /\ next' = 1
  /\ opMap' = [op \in Op |-> 0]
  /\ fieldMap' = [f \in Field |-> 0]
  /\ allMap' = 0
  /\ UNCHANGED <<maps, fails, decl>>

Next ==
  \/ \E ns \in RoleList, kind \in Kind : Assign(ns, kind)
  \/ ResolveNames
  \/ LinkAll \/ LinkOp \/ LinkNoexport \/ EndLink
  \/ Post
  \/ Rewrite

Spec == Init /\ [][Next]_vars
------------------------------------------------------------------------------
(* Properties. *)

\* The roles for which the statements written say "type name".
Written(type, name) == {d[1] : d \in {e \in decl : e[2] = type /\ e[3] = name}}

\* A linked operation is open to the roles that statements give it or give to
\* "all", to no other, whatever the order of the statements and though "all"
\* is shared between operations.
OpRolesExact ==
  phase = "done" =>
    \A op \in Op : RolesOf(opMap[op]) = Written("op", op) \cup Written("all", NoName)

NamesFields == \E d \in decl : d[2] = "noexport" /\ d[3] # NoName

\* Where a structure only has "noexport" with a field's name or only without,
\* each field is withheld from exactly the roles written.
NoexportExactUnmixed ==
  phase = "done" /\ (NamesFields => Written("noexport", NoName) = {}) =>
    \A f \in Field : RolesOf(fieldMap[f]) =
                       Written("noexport", f) \cup Written("noexport", NoName)

\* A configuration that ort wrote links again, though maps were merged and
\* extended by one another when it was linked first, and gives every operation
\* and field the same roles.
RewriteStable ==
  saved # <<>> =>
    /\ phase # "fail"
    /\ phase = "done" => saved[1] = [op |-> OpRoles, field |-> FieldRoles]

\* linker_resolve.c:535: a role the field already has is "just skipped"; and
\* man/ort.5:690: "Do not export the field name" to the roles listed.  So a
\* linked field is withheld from every role written for it or for all fields.
NoexportHonoured ==
  phase = "done" =>
    \A f \in Field : Written("noexport", f) \cup Written("noexport", NoName)
                       \subseteq RolesOf(fieldMap[f])

\* The same of no other role: "noexport" with a name is about that field.
NoexportOnlyNamed ==
  phase = "done" =>
    \A f \in Field : RolesOf(fieldMap[f]) \subseteq
                       Written("noexport", f) \cup Written("noexport", NoName)
==============================================================================
