------------------------------- MODULE Writer -------------------------------
(***************************************************************************)
(* What ort_write_file() of writer.c prints of a configuration in the form *)
(* of module Diff.  A text is a record of the blocks in the order they are *)
(* printed; a statement is a record of its head and a sequence of clauses, *)
(* each clause a sequence of words.  White space, keywords that are always *)
(* there and the letters of words are left out; role maps are in RoleMaps. *)
(*                                                                         *)
(* A constant is [word, mant, exp]: a string or the name of an item, or    *)
(* the number mant * 10^exp, mant no multiple of 10.                       *)
(***************************************************************************)
EXTENDS Diff

Word(w) == [word |-> w, mant |-> 0, exp |-> 0]
Number(m, e) == [word |-> "", mant |-> m, exp |-> e]

\* A clause that is printed if there is something to say.
If(test, clause) == IF test THEN <<clause>> ELSE <<>>

\* parse_write_comment().
CommentText(x) == If(x.comment # None, <<"comment", x.comment>>)

\* The number of digits of n.
Digits(n) == CHOOSE d \in 1..10 : n < 10^d /\ (d > 1 => n >= 10^(d - 1))

\* A number without the zeros at its end.
RECURSIVE Short(_, _)
Short(m, e) == IF m > 0 /\ m % 10 = 0 THEN Short(m \div 10, e + 1) ELSE <<m, e>>

\* "%g": six digits, the last one rounded, with an exponent if the number is
\* large or small.
GeneralText(v) ==
  LET drop == IF Digits(v.mant) > 6 THEN Digits(v.mant) - 6 ELSE 0
      kept == (v.mant + (10^drop) \div 2) \div 10^drop
      s == Short(kept, v.exp + drop)
      point == Digits(s[1]) - 1 + s[2]
  IN [word |-> "", mant |-> s[1], exp |-> s[2],
      form |-> IF point < -4 \/ point >= 6 THEN "exponent" ELSE "plain"]

ValueText(v) == [word |-> v.word, mant |-> v.mant, exp |-> v.exp, form |-> "plain"]

\* A default or limit of a field of the type.
ConstantText(type, v) == IF type = "real" THEN GeneralText(v) ELSE ValueText(v)

\* parse_write_field().  The source of an embedded structure is written, its
\* target follows from it.
FieldText(f) ==
  LET limits == SetToSeq(f.valids)
      actions == SetToSeq(f.actions)
  IN [name |-> f.name,
      target |-> IF f.type # "struct" THEN f.reference ELSE None,
      type |-> f.type,
      over |-> CASE f.type = "struct" -> f.reference [] f.type = "enum" -> f.enm
                 [] f.type = "bitfield" -> f.bitf [] OTHER -> None,
      clauses |->
        If("rowid" \in f.flags, <<"rowid">>)
        \o If("unique" \in f.flags, <<"unique">>)
        \o If("null" \in f.flags, <<"null">>)
        \o If("noexport" \in f.flags, <<"noexport">>)
        \o If("hasdef" \in f.flags, <<"default", ConstantText(f.type, f.def)>>)
        \o [n \in DOMAIN limits |-> <<"limit", limits[n][1], ConstantText(f.type, limits[n][2])>>]
        \o [n \in DOMAIN actions |-> <<"action", actions[n]>>]
        \o CommentText(f)]

\* The abort() of parse_write_field(): limits of bit fields are not written.
FieldUnwritten(f) == f.type = "bitfield" /\ f.valids # {}

\* Terms are fields with an operator or modifier, which is not written if it is
\* the one taken when there is none.
TermsText(terms, default) ==
  [n \in DOMAIN terms |-> IF terms[n][2] = default THEN <<terms[n][1]>> ELSE terms[n]]

\* Mutant: always writes the fields that are modified.
ModifiedTextAll(u) == TermsText(u.modify, "set")

\* What an update modifies, of "all" nothing.
ModifiedText(u) == IF "all" \in u.flags THEN <<>> ELSE TermsText(u.modify, "set")

\* parse_write_modify(): sections that colons separate, of an update one more
\* than of a delete.
ModifyText(u) ==
  [type |-> u.type,
   sections |->
     If(u.type = "update", ModifiedText(u))
     \o IF u.constrain = <<>> /\ u.name = None /\ u.comment = None THEN <<>>
        ELSE <<TermsText(u.constrain, "eq")>>
             \o If(u.name # None \/ u.comment # None,
                   If(u.name # None, <<"name", u.name>>) \o CommentText(u))]

\* parse_write_unique().
UniqueText(fields) == SetToSeq(fields)

\* Mutant: writes an offset only where there is a limit.
LimitTextLimited(s) == If(s.limit # 0, <<"limit", s.limit>> \o If(s.offset # 0, s.offset))

LimitText(s) == If(s.limit # 0 \/ s.offset # 0, <<"limit", s.limit>> \o If(s.offset # 0, s.offset))

\* parse_write_query(): after the terms, and a colon if there is any, clauses.
QueryText(s) ==
  [type |-> s.type,
   terms |-> TermsText(s.params, "eq"),
   clauses |->
     If(s.name # None, <<"name", s.name>>)
     \o If(s.order # <<>>, <<"order", TermsText(s.order, "asc")>>)
     \o LimitText(s)
     \o If(s.group # None, <<"grouprow", s.group>>)
     \o If(s.group # None, s.aggr)
     \o If(s.distinct # None, <<"distinct", IF s.distinct = <<>> THEN <<".">> ELSE s.distinct>>)
     \o CommentText(s)]

MapSeq(s, Of(_)) == [n \in DOMAIN s |-> Of(s[n])]

\* parse_write_strct().
StrctText(s) ==
  [name |-> s.name,
   fields |-> MapSeq(s.fields, FieldText),
   queries |-> MapSeq(s.searches, QueryText),
   modifies |-> MapSeq(s.updates \o s.deletes, ModifyText),
   insert |-> s.insert # <<>>,
   uniques |-> MapSeq(s.uniques, UniqueText),
   clauses |-> CommentText(s)]

\* parse_write_label(): the language, if it is not the first, by its name; each
\* run of white space as one blank.
LabelText(c, l) ==
  [lang |-> IF l[1] = 1 THEN <<>> ELSE <<c.langs[l[1]]>>,
   text |-> [l[2] EXCEPT !.loose = FALSE]]

LabelsText(c, labels) == [n \in DOMAIN labels |-> LabelText(c, labels[n])]

\* parse_write_bitf().
BitfText(c, b) ==
  [name |-> b.name,
   items |-> [n \in DOMAIN b.items |->
                [name |-> b.items[n].name, value |-> <<b.items[n].value>>,
                 labels |-> LabelsText(c, b.items[n].labels), clauses |-> CommentText(b.items[n])]],
   unset |-> LabelsText(c, b.unset),
   null |-> LabelsText(c, b.labels),
   clauses |-> CommentText(b)]

\* parse_write_enm(): an automatic value is written as a remark, which is not
\* read.
EnmText(c, e) ==
  [name |-> e.name,
   items |-> [n \in DOMAIN e.items |->
                [name |-> e.items[n].name,
                 value |-> IF e.items[n].auto THEN <<>> ELSE <<e.items[n].value>>,
                 labels |-> LabelsText(c, e.items[n].labels), clauses |-> CommentText(e.items[n])]],
   null |-> LabelsText(c, e.labels),
   clauses |-> CommentText(e)]

\* parse_write_role(): a role with those below it in braces.
RECURSIVE RoleText(_, _)
RoleText(R, r) ==
  LET below == SelectSeq(R, LAMBDA x : x.parent = r.name)
  IN [name |-> r.name, clauses |-> CommentText(r),
      below |-> MapSeq(below, LAMBDA x : RoleText(R, x))]

\* parse_write_roles(): only those below "all".
RolesText(R) == MapSeq(SelectSeq(R, LAMBDA x : x.parent = "all"), LAMBDA x : RoleText(R, x))

\* ort_write_file().
FileText(c) ==
  [roles |-> If(c.roles # <<>>, RolesText(c.roles)),
   enms |-> MapSeq(c.enms, LAMBDA e : EnmText(c, e)),
   bitfs |-> MapSeq(c.bitfs, LAMBDA b : BitfText(c, b)),
   strcts |-> MapSeq(c.strcts, StrctText)]

\* An assert or abort() ends the program instead.
Unwritten(c) == \E n \in DOMAIN c.strcts : \E m \in DOMAIN c.strcts[n].fields :
                  FieldUnwritten(c.strcts[n].fields[m])
==============================================================================
