------------------------------- MODULE Reader -------------------------------
(***************************************************************************)
(* What the parser makes of a text that module Writer printed.  Of what it *)
(* refuses there is what such a text can run into; the rest of its checks  *)
(* is in LinkResolve, RoleMaps, UniqueClauses and EnumItems.               *)
(***************************************************************************)
EXTENDS Writer

ClausesOf(t, w) == SelectSeq(t.clauses, LAMBDA c : c[1] = w)
Has(t, w) == ClausesOf(t, w) # <<>>
The(t, w) == ClausesOf(t, w)[1]

\* parse_comment().
ReadComment(t) == IF Has(t, "comment") THEN The(t, "comment")[2] ELSE None

ReadTerms(words, default) ==
  [n \in DOMAIN words |-> IF Len(words[n]) = 1 THEN <<words[n][1], default>> ELSE words[n]]

ReadValue(v) == [word |-> v.word, mant |-> v.mant, exp |-> v.exp]

\* parse_next() ends a number at the first letter, which no statement takes.
NumberRefused(v) == v.form = "exponent"

\* parse_field_info(): a date is three integers, and one is written.
DefaultRefused(t) == Has(t, "default") /\ (t.type = "date" \/ NumberRefused(The(t, "default")[2]))

\* parse_validate(): a limit may not be given twice.
LimitRefused(t) ==
  LET limits == ClausesOf(t, "limit")
  IN \/ \E n \in DOMAIN limits : NumberRefused(limits[n][3])
     \/ \E n, k \in DOMAIN limits : n # k /\ limits[n] = limits[k]

\* parse_action().
ReadActions(t) == {c[2] : c \in ToSet(ClausesOf(t, "action"))}

\* parse_field() and what it calls, with what is linked to the names.
ReadField(t) ==
  [name |-> t.name, type |-> t.type, rolemap |-> {},
   actions |-> ReadActions(t),
   flags |-> {w \in {"rowid", "unique", "null", "noexport"} : Has(t, w)}
             \cup {w \in {"hasdef"} : Has(t, "default")},
   bitf |-> IF t.type = "bitfield" THEN t.over ELSE None,
   enm |-> IF t.type = "enum" THEN t.over ELSE None,
   def |-> IF Has(t, "default") THEN ReadValue(The(t, "default")[2]) ELSE None,
   reference |-> IF t.type = "struct" THEN t.over ELSE t.target,
   valids |-> {<<c[2], ReadValue(c[3])>> : c \in ToSet(ClausesOf(t, "limit"))},
   comment |-> ReadComment(t)]

\* parse_config_limit_params().
ReadLimit(t) == IF Has(t, "limit") THEN The(t, "limit")[2] ELSE 0
ReadOffset(t) == IF Has(t, "limit") /\ Len(The(t, "limit")) = 3 THEN The(t, "limit")[3] ELSE 0

\* parse_struct_search(), parse_config_search_params().
ReadQuery(t) ==
  LET aggrs == SelectSeq(t.clauses, LAMBDA c : c[1] \in {"minrow", "maxrow"})
  IN [type |-> t.type, params |-> ReadTerms(t.terms, "eq"), rolemap |-> {},
      name |-> IF Has(t, "name") THEN The(t, "name")[2] ELSE None,
      order |-> IF Has(t, "order") THEN ReadTerms(The(t, "order")[2], "asc") ELSE <<>>,
      aggr |-> IF aggrs # <<>> THEN aggrs[1] ELSE None,
      group |-> IF Has(t, "grouprow") THEN The(t, "grouprow")[2] ELSE None,
      distinct |-> CASE ~Has(t, "distinct") -> None
                     [] The(t, "distinct")[2] = <<".">> -> <<>>
                     [] OTHER -> The(t, "distinct")[2],
      limit |-> ReadLimit(t), offset |-> ReadOffset(t),
      comment |-> ReadComment(t)]

\* parse_struct_post(): an update without fields is of all that can be set.
AllFields(fields) ==
  LET settable == SelectSeq(fields, LAMBDA f : "rowid" \notin f.flags /\ f.type # "struct")
  IN [n \in DOMAIN settable |-> <<settable[n].name, "set">>]

\* parse_struct_update(): sections by their number, the first for an update only.
ReadModify(t, fields) ==
  LET sections == IF t.type = "update" THEN t.sections ELSE <<<<>>>> \o t.sections
      all == t.type = "update" /\ sections[1] = <<>>
      tail == [clauses |-> IF Len(sections) > 2 THEN sections[3] ELSE <<>>]
  IN [type |-> t.type, rolemap |-> {},
      modify |-> IF all THEN AllFields(fields) ELSE ReadTerms(sections[1], "set"),
      flags |-> IF all THEN {"all"} ELSE {},
      constrain |-> IF Len(sections) > 1 THEN ReadTerms(sections[2], "eq") ELSE <<>>,
      name |-> IF Has(tail, "name") THEN The(tail, "name")[2] ELSE None,
      comment |-> ReadComment(tail)]

\* parse_struct_data().
ReadStrct(t) ==
  LET fields == MapSeq(t.fields, ReadField)
      modifies == MapSeq(t.modifies, LAMBDA u : ReadModify(u, fields))
  IN [name |-> t.name, comment |-> ReadComment(t), fields |-> fields,
      searches |-> MapSeq(t.queries, ReadQuery),
      updates |-> SelectSeq(modifies, LAMBDA u : u.type = "update"),
      deletes |-> SelectSeq(modifies, LAMBDA u : u.type = "delete"),
      insert |-> If(t.insert, [name |-> None, rolemap |-> {}, params |-> <<>>]),
      uniques |-> MapSeq(t.uniques, ToSet)]

\* parse_label(): languages are numbered as they come, after the one without
\* name.
Langs(labels) ==
  FoldLeft(LAMBDA langs, l : IF l.lang = <<>> \/ l.lang[1] \in ToSet(langs) THEN langs
                             ELSE Append(langs, l.lang[1]),
           <<"">>, labels)

LabelsIn(t) == FlattenSeq(MapSeq(t.items, LAMBDA i : i.labels))

\* The labels of a text in their order.
AllLabels(t) ==
  FlattenSeq(MapSeq(t.enms, LAMBDA e : LabelsIn(e) \o e.null))
  \o FlattenSeq(MapSeq(t.bitfs, LAMBDA b : LabelsIn(b) \o b.unset \o b.null))

\* parse_label(), parse_enum_label(), parse_bitidx_label().
ReadLabels(langs, labels) ==
  [n \in DOMAIN labels |->
     <<IF labels[n].lang = <<>> THEN 1 ELSE SelectInSeq(langs, LAMBDA x : x = labels[n].lang[1]),
       labels[n].text>>]

\* parse_enum_item(), parse_enum_data(), parse_enum(): items without a value
\* are numbered after the greatest one given.
ReadEnm(langs, t) ==
  LET given == {n \in DOMAIN t.items : t.items[n].value # <<>>}
      first == Max({t.items[n].value[1] + 1 : n \in given} \cup {0})
      Auto(n) == first + Cardinality({k \in 1..n - 1 : k \notin given})
  IN [name |-> t.name, comment |-> ReadComment(t), labels |-> ReadLabels(langs, t.null),
      unset |-> <<>>,
      items |-> [n \in DOMAIN t.items |->
                   [name |-> t.items[n].name, auto |-> n \notin given,
                    value |-> IF n \in given THEN t.items[n].value[1] ELSE Auto(n),
                    comment |-> ReadComment(t.items[n]),
                    labels |-> ReadLabels(langs, t.items[n].labels)]]]

\* parse_bitfield() and what it calls.
ReadBitf(langs, t) ==
  [name |-> t.name, comment |-> ReadComment(t),
   labels |-> ReadLabels(langs, t.null), unset |-> ReadLabels(langs, t.unset),
   items |-> [n \in DOMAIN t.items |->
                [name |-> t.items[n].name, auto |-> FALSE, value |-> t.items[n].value[1],
                 comment |-> ReadComment(t.items[n]),
                 labels |-> ReadLabels(langs, t.items[n].labels)]]]

\* parse_role(): a role, then those in its braces.
RECURSIVE ReadRole(_, _)
ReadRole(t, parent) ==
  <<[name |-> t.name, parent |-> parent, comment |-> ReadComment(t)]>>
  \o FlattenSeq(MapSeq(t.below, LAMBDA r : ReadRole(r, t.name)))

\* parse_roles(): the first block makes the roles that are always there.
ReadRoles(blocks) ==
  IF blocks = <<>> THEN <<>>
  ELSE MapSeq(<<"default", "none", "all">>,
              LAMBDA r : [name |-> r, parent |-> None, comment |-> None])
       \o FlattenSeq(MapSeq(blocks[1], LAMBDA r : ReadRole(r, "all")))

\* parse_root(), with the end of the parse.
ReadFile(t) ==
  LET langs == Langs(AllLabels(t))
  IN [langs |-> langs,
      roles |-> ReadRoles(t.roles),
      enms |-> MapSeq(t.enms, LAMBDA e : ReadEnm(langs, e)),
      bitfs |-> MapSeq(t.bitfs, LAMBDA b : ReadBitf(langs, b)),
      strcts |-> MapSeq(t.strcts, ReadStrct)]

\* parse_label(): a queue of labels has one for each language.
LabelsRefused(labels) ==
  \E n, k \in DOMAIN labels : n # k /\ labels[n].lang = labels[k].lang

FileRefused(t) ==
  \/ \E s \in ToSet(t.strcts) : \E f \in ToSet(s.fields) : DefaultRefused(f) \/ LimitRefused(f)
  \/ \E e \in ToSet(t.enms) : LabelsRefused(e.null) \/ \E i \in ToSet(e.items) : LabelsRefused(i.labels)
  \/ \E b \in ToSet(t.bitfs) :
       \/ LabelsRefused(b.null) \/ LabelsRefused(b.unset)
       \/ \E i \in ToSet(b.items) : LabelsRefused(i.labels)
==============================================================================
