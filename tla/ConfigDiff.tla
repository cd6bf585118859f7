----------------------------- MODULE ConfigDiff -----------------------------
(***************************************************************************)
(* ort-diff: the queue of differences of two configurations (diff.c) and   *)
(* what is printed of it (writer-diff.c).  The queue is flat; the writer   *)
(* finds what belongs together by going through it again, in three levels, *)
(* and comparing pointers.  A line of the output is the entry it is about  *)
(* and the word printed for it; headings are left out.  The second of the  *)
(* configurations may be the first one, written out and read again.        *)
(***************************************************************************)
EXTENDS Reader

CONSTANT Configs   \* the linked configurations compared

VARIABLES
  via,          \* "file", or "rewritten": "into" is what was written of "from"
  from, into,   \* the two configurations
  phase,        \* what is next, "done", or "abort" (an assert of the writer),
                \* "unwritten", "refused" (by the parser)
  q,            \* the queue
  out           \* the lines printed

vars == <<via, from, into, phase, q, out>>

Line(as, e) == [as |-> as, entry |-> e]

TypeOK ==
  /\ via \in {"file", "rewritten"}
  /\ from \in Configs
  /\ via = "file" => into \in Configs
  /\ phase \in {"rewrite", "unwritten", "refused", "enms", "bitfs", "strcts", "roles",
                "write roles", "write enms", "write bitfs", "write strcts", "done", "abort"}
  /\ \A n \in DOMAIN q :
       /\ q[n].op \in {"add", "del", "mod", "same"}
       /\ q[n].op = "add" <=> q[n].from = 0
       /\ q[n].op = "del" <=> q[n].into = 0
       /\ q[n].part # Whole => q[n].op = "mod"
  /\ \A n \in DOMAIN out : out[n].entry \in ToSet(q)
------------------------------------------------------------------------------
Init ==
  /\ from \in Configs
  /\ \/ via = "file" /\ into \in Configs /\ phase = "enms"
     \/ via = "rewritten" /\ into = from /\ phase = "rewrite"
  /\ q = <<>>
  /\ out = <<>>

\* ort: the writer stops at an abort(), or the parser at what was written, or
\* there is a second configuration.
StopWriting ==
  /\ phase = "rewrite" /\ Unwritten(from)
  /\ phase' = "unwritten"
  /\ UNCHANGED <<via, from, into, q, out>>

StopReading ==
  /\ phase = "rewrite" /\ ~Unwritten(from) /\ FileRefused(FileText(from))
  /\ phase' = "refused"
  /\ UNCHANGED <<via, from, into, q, out>>

Rewrite ==
  /\ phase = "rewrite" /\ ~Unwritten(from) /\ ~FileRefused(FileText(from))
  /\ into' = ReadFile(FileText(from))
  /\ phase' = "enms"
  /\ UNCHANGED <<via, from, q, out>>

\* ort_diff() goes on with the next of its parts.
Compare(this, entries, next) ==
  /\ phase = this
  /\ q' = q \o entries
  /\ phase' = next
  /\ UNCHANGED <<via, from, into, out>>

CompareEnms == Compare("enms", DiffEnms(from, into), "bitfs")
CompareBitfs == Compare("bitfs", DiffBitfs(from, into), "strcts")
CompareStrcts == Compare("strcts", DiffStrcts(from, into), "roles")
CompareRoles == Compare("roles", DiffRoles(from, into), "write roles")

\* The entries of the queue that Test selects, in order.
Those(Test(_)) == SelectSeq(q, Test)

\* Entries about a part of the pair that d is about, found by either pointer.
PartsFor(d) ==
  Those(LAMBDA e : /\ e.kind = d.kind
                   /\ e.part # Whole
                   /\ e.owner = d.owner
                   /\ e.into = d.into \/ e.from = d.from)

\* The asserts of ort_write_diff_search() and its likes: both pointers agree.
PartsAgree(d) ==
  \A n \in DOMAIN PartsFor(d) : PartsFor(d)[n].into = d.into /\ PartsFor(d)[n].from = d.from

\* Lines about an entry: itself and, if the pair was modified, its parts.
WithParts(d) ==
  <<Line(d.kind, d)>>
  \o (IF d.op = "mod" THEN [n \in DOMAIN PartsFor(d) |-> Line(d.kind, PartsFor(d)[n])] ELSE <<>>)

\* The kinds printed under a modified element.
Below(kind) ==
  CASE kind = "enm" -> {"eitem"}
    [] kind = "bitf" -> {"bitidx"}
    [] kind = "strct" -> {"search", "update", "delete", "insert", "field", "unique"}
    [] kind = "roles" -> {"role"}

\* ort_write_diff_enm(), ort_write_diff_bitf(), ort_write_diff_strct(): what is
\* below d, for a modified element, and its own parts.  Nothing is printed of
\* an insert that is the same.
Nested(d, name) ==
  LET below == Those(LAMBDA e :
        \/ /\ e.kind \in Below(d.kind)
           /\ e.owner = name
           /\ e.part = Whole
           /\ ~(e.kind = "insert" /\ e.op = "same")
        \/ e.kind = d.kind /\ e.part # Whole /\ e.into = d.into)
  IN FlattenSeq([n \in DOMAIN below |->
       IF below[n].part = Whole THEN WithParts(below[n]) ELSE <<Line(d.kind, below[n])>>])

\* ort_write_diff_roleq(): the lines below modified roles.  Its "case" for a
\* removed role names the one of a removed enumeration item.
RolesBelow ==
  Those(LAMBDA e :
    \/ e.kind = "role" /\ e.part = Whole /\ e.op # "del"
    \/ e.kind = "eitem" /\ e.op = "del")

\* What is printed below a modified pair of each kind.
RoleqLines(d) ==
  FlattenSeq([n \in DOMAIN RolesBelow |->
    IF RolesBelow[n].kind = "role" THEN WithParts(RolesBelow[n]) ELSE <<Line("role", RolesBelow[n])>>])

EnmLines(d) == Nested(d, into.enms[d.into].name)
BitfLines(d) == Nested(d, into.bitfs[d.into].name)
StrctLines(d) == Nested(d, into.strcts[d.into].name)

LinesBelow(d) ==
  CASE d.kind = "roles" -> RoleqLines(d)
    [] d.kind = "enm" -> EnmLines(d)
    [] d.kind = "bitf" -> BitfLines(d)
    [] d.kind = "strct" -> StrctLines(d)

\* A section of ort_write_diff_file(), written if an element of the kind was
\* added, removed or modified.
Write(this, kind, next) ==
  /\ phase = this
  /\ LET whole == Those(LAMBDA e : e.kind = kind /\ e.part = Whole)
         modified == {n \in DOMAIN whole : whole[n].op = "mod"}
         inner == {e \in ToSet(q) : e.op = "mod" /\ e.part = Whole /\ e.kind \in Below(kind)}
     IN \/ /\ ~Changed(whole)
           /\ phase' = next
           /\ UNCHANGED out
        \/ /\ Changed(whole)
           /\ modified # {} => \A d \in inner : PartsAgree(d)
           /\ out' = out \o FlattenSeq([n \in DOMAIN whole |->
                <<Line(kind, whole[n])>> \o (IF n \in modified THEN LinesBelow(whole[n]) ELSE <<>>)])
           /\ phase' = next
        \/ /\ modified # {}
           /\ \E d \in inner : ~PartsAgree(d)
           /\ phase' = "abort"
           /\ UNCHANGED out
  /\ UNCHANGED <<via, from, into, q>>

WriteRoles == Write("write roles", "roles", "write enms")
WriteEnms == Write("write enms", "enm", "write bitfs")
WriteBitfs == Write("write bitfs", "bitf", "write strcts")
WriteStrcts == Write("write strcts", "strct", "done")

Next ==
  \/ StopWriting \/ StopReading \/ Rewrite
  \/ CompareEnms \/ CompareBitfs \/ CompareStrcts \/ CompareRoles
  \/ WriteRoles \/ WriteEnms \/ WriteBitfs \/ WriteStrcts

Spec == Init /\ [][Next]_vars
------------------------------------------------------------------------------
(* Properties. *)

Compared == phase \in {"write roles", "write enms", "write bitfs", "write strcts", "done", "abort"}

\* The parser does not refuse two updates or deletes of one name, nor two of
\* them without name that are all the same.
Twinless(c) ==
  \A n \in DOMAIN c.strcts : \A k \in {"searches", "updates", "deletes"} :
    LET Q == c.strcts[n][k]
    IN \A a, b \in DOMAIN Q :
         /\ Q[a].type = Q[b].type
         /\ Q[a].name = Q[b].name
         /\ Q[a].name = None => Q[a] = Q[b]
         => a = b

\* A configuration without what has no meaning: the order of everything but
\* the fields of a structure that has an insert; how a value came about.
Unordered(g) ==
  [g EXCEPT !.labels = ToSet(g.labels), !.unset = ToSet(g.unset),
            !.items = {[i EXCEPT !.labels = ToSet(i.labels), !.auto = FALSE] : i \in ToSet(g.items)}]

Meaning(c) ==
  [enms |-> {Unordered(e) : e \in ToSet(c.enms)},
   bitfs |-> {Unordered(b) : b \in ToSet(c.bitfs)},
   strcts |-> {[s EXCEPT !.fields = ToSet(s.fields),
                         !.insert = IF s.insert = <<>> THEN <<>> ELSE <<InsertOf(s)>>,
                         !.searches = ToSet(s.searches), !.updates = ToSet(s.updates),
                         !.deletes = ToSet(s.deletes), !.uniques = ToSet(s.uniques)]
               : s \in ToSet(c.strcts)},
   roles |-> ToSet(c.roles)]

\* ort-diff exits with 0 exactly for configurations that mean the same,
\* whatever the order they are written in, if their languages are numbered
\* alike and no two queries are twins.
EmptyIffEqual ==
  Compared /\ from.langs = into.langs /\ Twinless(from) /\ Twinless(into) =>
    (~Changed(q) <=> Meaning(from) = Meaning(into))

\* The way back is the way there, reversed: what is added one way is removed
\* the other, what is modified or the same is so both ways.  The walks of
\* diff.c are each made of two loops, one for each direction.
Mirror ==
  Compared /\ Twinless(from) /\ Twinless(into) =>
    ToSet(Diff(into, from)) = {Mirrored(e) : e \in ToSet(q)}

Occurs(s, x) == Cardinality({n \in DOMAIN s : s[n] = x})

\* The writer, which finds the entries by the changed ones above them, prints
\* each change as often as it is in the queue, but for removed roles, and
\* only stops at an assert for configurations with twins.
WrittenOnce ==
  /\ phase = "abort" => ~Twinless(from) \/ ~Twinless(into)
  /\ phase = "done" => \A e \in ToSet(q) :
       e.op # "same" /\ ~(e.kind = "role" /\ e.op = "del") =>
         Occurs(out, Line(e.kind, e)) = Occurs(q, e)

\* man/ort-diff.1:22: ort-diff "produces differences between the two
\* configurations"; a removed role is one.
AllWritten ==
  phase = "done" => \A e \in ToSet(q) : e.op # "same" => Line(e.kind, e) \in ToSet(out)

\* A line names what its entry is about.
NamedRight == \A n \in DOMAIN out : out[n].as = out[n].entry.kind

Real(f) == f.type = "real"
Constants(f) == {v[2] : v \in f.valids} \cup (IF f.def = None THEN {} ELSE {f.def})
FieldsOf(c) == UNION {ToSet(s.fields) : s \in ToSet(c.strcts)}
LabelsOf(c) ==
  UNION {ToSet(g.labels) \cup ToSet(g.unset) \cup UNION {ToSet(i.labels) : i \in ToSet(g.items)}
         : g \in ToSet(c.enms) \cup ToSet(c.bitfs)}

\* What the form ort writes has no way to say.
LongConstants(c) ==
  \E f \in FieldsOf(c) : Real(f) /\ \E v \in Constants(f) : GeneralText(v) # ValueText(v)
DateDefault(c) == \E f \in FieldsOf(c) : f.type = "date" /\ f.def # None
LooseLabels(c) == \E l \in LabelsOf(c) : l[2].loose
Renumbered(c) == Langs(AllLabels(FileText(c))) # c.langs

\* A configuration that was written and read again is the same to ort-diff,
\* but for constants of more than six digits and labels with runs of blanks or
\* languages numbered anew; only such constants and dates are refused, and
\* nothing but a limit of a bit field stops the writer.
RewriteKeeps ==
  via = "rewritten" =>
    /\ phase = "unwritten" => \E f \in FieldsOf(from) : f.type = "bitfield" /\ f.valids # {}
    /\ phase = "refused" => DateDefault(from) \/ LongConstants(from)
    /\ Compared /\ Twinless(from) => \A n \in DOMAIN q : q[n].op # "same" /\ q[n].part # Whole =>
         \/ q[n].part \in {"def", "valids"} /\ LongConstants(from)
         \/ q[n].part = "labels" /\ (LooseLabels(from) \/ Renumbered(from))
    /\ Compared => \A n \in DOMAIN q : q[n].op \in {"same", "mod"}

\* man/ort.1:40: on success, "the configuration is reproduced on standard
\* output".
Reproduced ==
  via = "rewritten" => phase \notin {"unwritten", "refused"} /\ (Compared => ~Changed(q))

InLanguages(c, labels) == {<<c.langs[l[1]], l[2]>> : l \in ToSet(labels)}

\* man/ort-diff.1, "Exit status": with 0, "No differences were found".  Labels
\* are compared by the number of their language in each configuration.
LabelsSame ==
  Compared /\ ~Changed(q) => \A n \in DOMAIN from.enms :
    LET m == Named(into.enms, from.enms[n])
    IN InLanguages(from, from.enms[n].labels) = InLanguages(into, into.enms[m].labels)
==============================================================================
