-------------------------------- MODULE Diff --------------------------------
(***************************************************************************)
(* What ort_diff() of diff.c says of two linked configurations, as a       *)
(* sequence of entries (struct diff in struct diffq).                      *)
(*                                                                         *)
(* A configuration is a record of sequences "enms", "bitfs", "strcts" and  *)
(* "roles", in the order of the file or of the linker.  An element of one  *)
(* is a record; those of its fields that are compared are its parts.  An   *)
(* enumeration or bitfield has a sequence "items"; a structure has         *)
(* sequences "fields", "searches", "updates", "deletes" and "uniques" and  *)
(* "insert", a sequence of at most one.  Labels are sequences of pairs of   *)
(* the index of a language in the "langs" of the configuration and a text. *)
(***************************************************************************)
EXTENDS Naturals, Sequences, FiniteSets, SequencesExt

CONSTANT None   \* NULL: no name, no reference, no default, ...

Whole == "whole"   \* the part of an entry about an element as a whole

\* The parts compared of a field, a search, an update or delete, a role, in
\* the order of the code.  Both clauses of an update are reported as its
\* parameters.
FieldParts == <<"rolemap", "type", "actions", "flags", "bitf", "enm", "def",
                "reference", "valids", "comment">>

SearchParts == <<"params", "order", "aggr", "group", "distinct", "comment",
                 "limit", "offset", "rolemap">>

UpdateParts == <<"modify", "constrain", "comment", "rolemap", "flags">>

RoleParts == <<"parent", "comment", "children">>

PartsOf ==
  [eitem  |-> <<"value", "comment", "labels">>,
   bitidx |-> <<"value", "labels", "comment">>,
   enm    |-> <<"comment", "labels">>,
   bitf   |-> <<"comment", "labels">>,
   strct  |-> <<"comment">>,
   insert |-> <<"rolemap", "params">>,
   field  |-> FieldParts,
   search |-> SearchParts,
   update |-> UpdateParts,
   delete |-> UpdateParts,
   role   |-> RoleParts]

\* An entry of the queue.  "from" and "into" are positions in the queue of
\* that kind that belongs to "owner" (a structure, enumeration or bitfield, by
\* name) in the one and in the other configuration, 0 for none.
Entry(op, kind, part, owner, from, into) ==
  [op |-> op, kind |-> kind, part |-> part, owner |-> owner, from |-> from, into |-> into]

Mirrored(e) ==
  [e EXCEPT !.op = CASE e.op = "add" -> "del" [] e.op = "del" -> "add" [] OTHER -> e.op,
            !.from = e.into, !.into = e.from]
------------------------------------------------------------------------------
\* Mutant: leaves defaults to the comparison of flags.
SamePartFlagless(kind, p, f, i) == p = "def" \/ f[p] = i[p]

\* ort_check_fvalids(): the same only for the same type, if there are any.
SameValids(f, i) == f.valids = i.valids /\ (f.type = i.type \/ f.valids = {})

\* ort_check_labels(): the same number of labels, and each in the other.
SameLabels(f, i) == Len(f) = Len(i) /\ ToSet(f) \subseteq ToSet(i)

\* One part of two elements.  Of fields, enumerations and bitfields are
\* compared only if both have one, defaults if both have one of one type.
SamePart(kind, p, f, i) ==
  CASE kind = "field" /\ p \in {"enm", "bitf"} -> None \in {f[p], i[p]} \/ f[p] = i[p]
    [] kind = "field" /\ p = "def" -> None \in {f.def, i.def} \/ f.type # i.type \/ f.def = i.def
    [] kind = "field" /\ p = "valids" -> SameValids(f, i)
    [] kind = "bitf" /\ p = "labels" -> SameLabels(f.unset, i.unset) /\ SameLabels(f.labels, i.labels)
    [] kind # "bitf" /\ p = "labels" -> SameLabels(f.labels, i.labels)
    [] OTHER -> f[p] = i[p]

Differing(kind, f, i) == SelectSeq(PartsOf[kind], LAMBDA p : ~SamePart(kind, p, f, i))

Changed(q) == \E n \in DOMAIN q : q[n].op # "same"

\* Mutant: what a pair is made of does not count as a change of it.
PairOwn(kind, owner, F, I, f, i, nested) ==
  LET parts == Differing(kind, F[f], I[i])
      mods == [n \in DOMAIN parts |-> Entry("mod", kind, parts[n], owner, f, i)]
  IN nested \o mods \o <<Entry(IF parts # <<>> THEN "mod" ELSE "same", kind, Whole, owner, f, i)>>

\* The entries of a pair: those of what it is made of, its parts that differ,
\* and one for the pair as a whole.
Pair(kind, owner, F, I, f, i, nested) ==
  LET parts == Differing(kind, F[f], I[i])
      mods == [n \in DOMAIN parts |-> Entry("mod", kind, parts[n], owner, f, i)]
      op == IF Changed(nested) \/ parts # <<>> THEN "mod" ELSE "same"
  IN nested \o mods \o <<Entry(op, kind, Whole, owner, f, i)>>

Named(S, x) == SelectInSeq(S, LAMBDA y : y.name = x.name)

\* Mutant: never looks back at the old elements.
MissingNew(op, kind, owner, S, T) ==
  LET lone == SelectSeq([n \in DOMAIN S |-> n], LAMBDA n : op = "add" /\ Named(T, S[n]) = 0)
  IN [n \in DOMAIN lone |-> Entry("add", kind, Whole, owner, 0, lone[n])]

\* The elements of S whose names are not in T.
Missing(op, kind, owner, S, T) ==
  LET lone == SelectSeq([n \in DOMAIN S |-> n], LAMBDA n : Named(T, S[n]) = 0)
  IN [n \in DOMAIN lone |->
        Entry(op, kind, Whole, owner, IF op = "del" THEN lone[n] ELSE 0,
                                      IF op = "add" THEN lone[n] ELSE 0)]

\* The walk over elements that all have names: over the new ones, each matched
\* with the old one of its name, and over the old ones that have no match.
\* Nested(f, i) are the entries of what a pair is made of.
Walk(kind, owner, F, I, Nested(_, _)) ==
  FlattenSeq([i \in DOMAIN I |->
    LET f == Named(F, I[i])
    IN IF f = 0 THEN <<Entry("add", kind, Whole, owner, 0, i)>>
       ELSE Pair(kind, owner, F, I, f, i, Nested(f, i))])
  \o Missing("del", kind, owner, F, I)

Nothing(f, i) == <<>>
------------------------------------------------------------------------------
\* ort_diff_enm(), ort_diff_eitem().
DiffEnm(f, i) == Walk("eitem", i.name, f.items, i.items, Nothing)

DiffEnms(from, into) ==
  Walk("enm", None, from.enms, into.enms, LAMBDA f, i : DiffEnm(from.enms[f], into.enms[i]))

\* ort_diff_bitf(), ort_diff_bitidx().
DiffBitf(f, i) == Walk("bitidx", i.name, f.items, i.items, Nothing)

DiffBitfs(from, into) ==
  Walk("bitf", None, from.bitfs, into.bitfs, LAMBDA f, i : DiffBitf(from.bitfs[f], into.bitfs[i]))

\* The query of S that x is compared with: with a name, the first of its type
\* and name; without, the first of its type without name that is all the same.
Twin(kind, S, x) ==
  SelectInSeq(S, LAMBDA y :
    /\ y.type = x.type
    /\ y.name = x.name
    /\ x.name = None => Differing(kind, x, y) = <<>>)

\* ort_diff_searchq(), ort_diff_strct_updateq(): queries with a name, the old
\* ones first, then those without, which are never modified.
DiffQueries(kind, owner, F, I) ==
  LET Old(f) ==
        LET i == Twin(kind, I, F[f])
        IN IF i = 0 THEN <<Entry("del", kind, Whole, owner, f, 0)>>
           ELSE Pair(kind, owner, F, I, f, i, <<>>)
      New(i) ==
        IF Twin(kind, F, I[i]) = 0 THEN <<Entry("add", kind, Whole, owner, 0, i)>> ELSE <<>>
      Those(S, named, Of(_)) ==
        FlattenSeq([n \in DOMAIN S |-> IF (S[n].name # None) = named THEN Of(n) ELSE <<>>])
  IN Those(F, TRUE, Old) \o Those(I, TRUE, New) \o Those(F, FALSE, Old) \o Those(I, FALSE, New)

\* The parameters of an insert are the fields of its structure, in order.
InsertOf(s) == [s.insert[1] EXCEPT !.params = [n \in DOMAIN s.fields |-> s.fields[n].name]]

\* ort_diff_strct_insert(), ort_check_insert_order().
DiffInsert(owner, f, i) ==
  CASE f.insert = <<>> /\ i.insert = <<>> -> <<>>
    [] f.insert = <<>> /\ i.insert # <<>> -> <<Entry("add", "insert", Whole, owner, 0, 1)>>
    [] f.insert # <<>> /\ i.insert = <<>> -> <<Entry("del", "insert", Whole, owner, 1, 0)>>
    [] OTHER -> Pair("insert", owner, <<InsertOf(f)>>, <<InsertOf(i)>>, 1, 1, <<>>)

\* ort_has_unique(): some clause of S has as many fields, and all of those of u.
HasUnique(S, u) == \E n \in DOMAIN S : Cardinality(S[n]) = Cardinality(u) /\ u \subseteq S[n]

\* The two loops over unique clauses in ort_diff_strct().
DiffUniques(owner, F, I) ==
  LET Lone(S, T) == SelectSeq([n \in DOMAIN S |-> n], LAMBDA n : ~HasUnique(T, S[n]))
      added == Lone(I, F)
      gone == Lone(F, I)
  IN [n \in DOMAIN added |-> Entry("add", "unique", Whole, owner, 0, added[n])]
     \o [n \in DOMAIN gone |-> Entry("del", "unique", Whole, owner, gone[n], 0)]

\* ort_diff_strct().
DiffStrct(f, i) ==
  DiffQueries("search", f.name, f.searches, i.searches)
  \o DiffQueries("update", f.name, f.updates, i.updates)
  \o DiffQueries("delete", f.name, f.deletes, i.deletes)
  \o DiffInsert(f.name, f, i)
  \o Walk("field", f.name, f.fields, i.fields, Nothing)
  \o DiffUniques(f.name, f.uniques, i.uniques)

\* ort_diff_strcts().
DiffStrcts(from, into) ==
  Walk("strct", None, from.strcts, into.strcts,
       LAMBDA f, i : DiffStrct(from.strcts[f], into.strcts[i]))

\* The roles with their "children", the roles nested right below.
RoleElements(R) ==
  [n \in DOMAIN R |->
     [name |-> R[n].name, parent |-> R[n].parent, comment |-> R[n].comment,
      children |-> {R[m].name : m \in {m \in DOMAIN R : R[m].parent = R[n].name}}]]

\* ort_diff_roleq(): the virtual roles are not compared.
DiffRoleq(F, I) ==
  FlattenSeq([f \in DOMAIN F |->
    LET i == Named(I, F[f])
    IN CASE i = 0 -> <<Entry("del", "role", Whole, None, f, 0)>>
         [] i # 0 /\ F[f].parent = None -> <<>>
         [] OTHER -> Pair("role", None, F, I, f, i, <<>>)])
  \o Missing("add", "role", None, I, F)

\* ort_diff_roles(): one entry if only one of the configurations has roles.
DiffRoles(from, into) ==
  LET nested == DiffRoleq(RoleElements(from.roles), RoleElements(into.roles))
  IN CASE from.roles = <<>> /\ into.roles = <<>> -> <<>>
       [] from.roles = <<>> /\ into.roles # <<>> -> <<Entry("add", "roles", Whole, None, 0, 1)>>
       [] from.roles # <<>> /\ into.roles = <<>> -> <<Entry("del", "roles", Whole, None, 1, 0)>>
       [] OTHER -> nested \o <<Entry(IF Changed(nested) THEN "mod" ELSE "same", "roles", Whole, None, 1, 1)>>

\* ort_diff().
Diff(from, into) ==
  DiffEnms(from, into) \o DiffBitfs(from, into) \o DiffStrcts(from, into) \o DiffRoles(from, into)
==============================================================================
