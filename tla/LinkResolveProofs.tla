--------------------------- MODULE LinkResolveProofs ---------------------------
(***************************************************************************)
(* What the run of LinkResolve checks of some configurations, proved for   *)
(* all of them, with their statements in any order: what the linker        *)
(* follows was resolved before, and parser and linker accept exactly the   *)
(* good configurations and leave nothing open.                             *)
(***************************************************************************)
EXTENDS LinkResolve, SequenceTheorems, CountLemmas

\* The entries that the parser of a statement queues.
EntriesOf(st) ==
  IF st.stmt = "field" THEN FieldEntries(st)
  ELSE IF st.stmt = "search" THEN SearchEntries(st)
  ELSE IF st.stmt = "update" THEN UpdateEntries(st)
  ELSE Entries("unique", st, Len(st.fields))

\* What that parser asks of it, given the statements read before.
Acceptable(st) ==
  /\ st.stmt = "field" => NewField(st) /\ FieldInfo(st)
  /\ st.stmt = "search" => SearchParams(st)
  /\ st.stmt = "unique" => Len(st.fields) >= 2

\* A field at the end of a chain that rows can be grouped by.
GroupsBy(s, chain) == \E f \in ColumnsAt(s, chain) : f.type # "password" /\ ~Null(f)

ModGood(u, m) ==
  \E f \in Columns(u.strct) :
    /\ f.name = m.name
    /\ m.mod = "concat" => f.type = "text"
    /\ m.mod = "inc" => f.type \in {"int", "enum", "bits"}

WhereGood(u, w) ==
  \E f \in Columns(u.strct) :
    /\ f.name = w.name
    /\ w.op = "like" => f.type = "text"
    /\ f.type = "password" => w.op \in {"streq", "notnull"}

\* What a good configuration has at an entry, with no queue and no passes.
Fine(e) ==
  /\ e.type = "foreign" => RefGood(e.of)
  /\ e.type = "struct" => StructGood(e.of)
  /\ e.type = "enum" => e.of.names \in DOMAIN Item
  /\ e.type = "bits" => e.of.names \in Bitf
  /\ e.type = "default" => e.of.default \in Item[e.of.names]
  /\ e.type = "unique" => \E f \in Columns(e.of.strct) : f.name = e.of.fields[e.n]
  /\ e.type = "modifier" => ModGood(e.of, e.of.mods[e.n])
  /\ e.type = "constraint" => WhereGood(e.of, e.of.where[e.n])
  /\ e.type \in {"term", "order"} => ColumnsAt(e.of, Names(e)) # {}
  /\ e.type \in {"aggr", "grouprow"} => GroupsBy(e.of, Names(e))
  /\ e.type = "distinct" => Reach(e.of.strct, e.of.distinct) # {}
------------------------------------------------------------------------------
(* The invariant. *)

\* The queue holds the entries of what was read, each once.
Queue ==
  /\ IsInjective(rq)
  /\ Range(rq) = UNION {Range(EntriesOf(st)) : st \in Range(parsed)}

ReadFields == Fields \cap Range(parsed)
ReadSearches == Searches \cap Range(parsed)

\* What was read goes together; and what the parser itself fills in.
FieldsApart ==
  \A f, g \in ReadFields : f # g /\ f.strct = g.strct =>
    f.name # g.name /\ ~("rowid" \in f.opts /\ "rowid" \in g.opts)

SearchesApart ==
  \A s, t \in ReadSearches : s # t /\ s.strct = t.strct => s.name = NoName \/ t.name # s.name

Accepted ==
  phase # "fail" =>
    /\ FieldsApart /\ SearchesApart
    /\ \A f \in ReadFields : FieldOptions(f)
    /\ \A s \in ReadSearches : s.group = <<>> <=> s.aggr = <<>>
    /\ \A u \in Uniques \cap Range(parsed) : Len(u.fields) >= 2
    /\ \A st \in Range(parsed) :
         (\E v \in Unread : v.strct = st.strct) \/ \E f \in ReadFields : f.strct = st.strct
    /\ \A u \in Updates :
         (\A v \in Unread : v.strct # u.strct) /\ ~u.delete /\ u.mods = <<>> =>
           sets[u] = {f.name : f \in {g \in Columns(u.strct) : "rowid" \notin g.opts}}

Stages ==
  /\ phase = "parse" => pass = 1 /\ next = 1
  /\ phase \in {"link", "check", "done"} => Range(parsed) = config
  /\ phase \in {"check", "done"} => pass = 3 /\ next = Len(rq) + 1 /\ fails = 0
  /\ fails < next

\* Entries handled, and those handled without a failure.
Passed(i) ==
  PassOf(rq[i].type) < pass \/ (PassOf(rq[i].type) = pass /\ i < next)

Safe(i) == Passed(i) /\ (fails = 0 \/ PassOf(rq[i].type) < pass)

\* What was set for an entry.
Set(i) ==
  LET e == rq[i]
      st == e.of
  IN  /\ e.type = "foreign" => target[Id(st)] = st.ref
      /\ e.type = "struct" => source[Id(st)] = st.source /\ target[Id(st)] = Field(Source(st)).ref
      /\ e.type = "distinct" => Reach(st.strct, st.distinct) = {returns[st]}
      /\ e.type \notin {"foreign", "struct", "distinct"} => i \in found

Linked ==
  /\ \A i \in DOMAIN rq : Safe(i) => Fine(rq[i]) /\ Set(i)
  /\ \A i \in found : Passed(i)

\* No field twice in a clause, as far as the clauses are resolved.
UniqueApart ==
  \A i, j \in found :
    rq[i].type = "unique" /\ rq[j].type = "unique" /\ rq[i].of = rq[j].of /\ i # j =>
      rq[i].of.fields[rq[i].n] # rq[j].of.fields[rq[j].n]

\* Searches of which it is known what they return.
Known ==
  {s \in ReadSearches :
     s.distinct = <<>> \/ \E i \in DOMAIN rq : rq[i].type = "distinct" /\ rq[i].of = s /\ Passed(i)}

Marked ==
  /\ \A s \in ReadSearches : s.distinct = <<>> => returns[s] = s.strct
  /\ fails = 0 =>
       marks = {<<returns[s], s.kind>> : s \in {t \in Known : t.kind \in {"list", "iterate"}}}

FailuresBad == fails > 0 => ~Good

IInv ==
  /\ TypeOK /\ Queue /\ Accepted /\ Stages /\ Linked /\ UniqueApart /\ Marked
  /\ FailuresBad /\ OrderIrrelevant
------------------------------------------------------------------------------
(* Statements and what is said of them without queue and tables. *)

\* A statement is of one of four kinds.
LEMMA StmtKinds ==
  ASSUME config \in Configs, NEW st \in config
  PROVE  /\ st.stmt \in {"field", "search", "update", "unique"}
         /\ st.stmt = "field" => st \in FieldStmt
         /\ st.stmt = "search" => st \in SearchStmt
         /\ st.stmt = "update" => st \in UpdateStmt
         /\ st.stmt = "unique" => st \in UniqueStmt
<1>1. st \in Stmt
  BY ConfigsAssumption
<1>2. st \in FieldStmt => st.stmt = "field"
  BY DEF FieldStmt
<1>3. st \in SearchStmt => st.stmt = "search"
  BY DEF SearchStmt
<1>4. st \in UpdateStmt => st.stmt = "update"
  BY DEF UpdateStmt
<1>5. st \in UniqueStmt => st.stmt = "unique"
  BY DEF UniqueStmt
<1> QED
  BY <1>1, <1>2, <1>3, <1>4, <1>5 DEF Stmt

LEMMA FieldFacts ==
  ASSUME config \in Configs, NEW f \in Fields
  PROVE  /\ f \in config /\ f.stmt = "field"
         /\ f.strct \in Strct /\ f.name \in Name /\ Id(f) \in FieldId /\ Id(f) = <<f.strct, f.name>>
         /\ f.ref \in FieldId \cup {NoName} /\ f.source \in Name \cup {NoName}
         /\ f.type = "struct" <=> f.source # NoName
<1>1. f \in config /\ f.stmt = "field"
  BY DEF Fields
<1>2. f \in FieldStmt
  BY <1>1, StmtKinds
<1>3. /\ f.strct \in Strct /\ f.name \in Name
      /\ f.ref \in FieldId \cup {NoName} /\ f.source \in Name \cup {NoName}
  BY <1>2 DEF FieldStmt
<1>4. f.type = "struct" <=> f.source # NoName
  BY <1>1, ConfigsAssumption
<1> QED
  BY <1>1, <1>3, <1>4 DEF Id, FieldId

LEMMA SearchFacts ==
  ASSUME config \in Configs, NEW s \in Searches
  PROVE  /\ s \in config /\ s.stmt = "search" /\ s.strct \in Strct
         /\ s.terms \in Seq([chain : Chain, op : Op]) /\ s.order \in Seq(Chain)
         /\ s.aggr \in MayChain /\ s.group \in MayChain /\ s.distinct \in MayChain
<1>1. s \in config /\ s.stmt = "search"
  BY DEF Searches
<1>2. s \in SearchStmt
  BY <1>1, StmtKinds
<1> QED
  BY <1>1, <1>2 DEF SearchStmt

LEMMA UpdateFacts ==
  ASSUME config \in Configs, NEW u \in Updates
  PROVE  /\ u \in config /\ u.stmt = "update" /\ u.strct \in Strct
         /\ u.mods \in Seq([name : Name, mod : Mod]) /\ u.where \in Seq([name : Name, op : Op])
<1>1. u \in config /\ u.stmt = "update"
  BY DEF Updates
<1>2. u \in UpdateStmt
  BY <1>1, StmtKinds
<1> QED
  BY <1>1, <1>2 DEF UpdateStmt

LEMMA UniqueFacts ==
  ASSUME config \in Configs, NEW u \in Uniques
  PROVE  u \in config /\ u.stmt = "unique" /\ u.strct \in Strct /\ u.fields \in Seq(Name)
<1>1. u \in config /\ u.stmt = "unique"
  BY DEF Uniques
<1>2. u \in UniqueStmt
  BY <1>1, StmtKinds
<1> QED
  BY <1>1, <1>2 DEF UniqueStmt

\* The field of a name.
LEMMA FieldIs ==
  ASSUME NEW id, HasField(id)
  PROVE  Field(id) \in Fields /\ Id(Field(id)) = id
  BY DEF HasField, Field, FieldIn

\* No name twice.
OneField == \A f, g \in Fields : Id(f) = Id(g) => f = g

LEMMA FieldOfId ==
  ASSUME OneField, NEW f \in Fields
  PROVE  HasField(Id(f)) /\ Field(Id(f)) = f
  BY FieldIs DEF OneField, HasField

\* The file does not change, so neither does what is said of it alone.
LEMMA SameFields ==
  ASSUME config' = config
  PROVE  /\ Fields' = Fields /\ Searches' = Searches /\ Updates' = Updates /\ Uniques' = Uniques
         /\ \A id : HasField(id)' <=> HasField(id)
         /\ \A id : Field(id)' = Field(id)
         /\ \A f : RefGood(f)' <=> RefGood(f)
         /\ \A f : StructGood(f)' <=> StructGood(f)
         /\ \A s : Columns(s)' = Columns(s)
<1>1. /\ Fields' = Fields /\ Searches' = Searches /\ Updates' = Updates /\ Uniques' = Uniques
  BY DEF Fields, Searches, Updates, Uniques
<1>2. /\ \A id : HasField(id)' <=> HasField(id)
      /\ \A id : Field(id)' = Field(id)
      /\ \A s : Columns(s)' = Columns(s)
  BY <1>1 DEF HasField, Field, Columns
<1>3. \A f : RefGood(f)' <=> RefGood(f)
  BY <1>2 DEF RefGood
<1>4. \A f : StructGood(f)' <=> StructGood(f)
  BY <1>2, <1>3 DEF StructGood
<1> QED
  BY <1>1, <1>2, <1>3, <1>4

\* From structure a to structure b over the "struct" field x.
Hop(a, x, b) ==
  \E f \in Fields :
    /\ Id(f) = <<a, x>> /\ f.type = "struct"
    /\ StructGood(f) /\ ~Null(Field(Source(f))) /\ Field(Source(f)).ref[1] = b

LEMMA SameReach ==
  ASSUME config' = config
  PROVE  /\ \A s, names : Reach(s, names)' = Reach(s, names)
         /\ \A s, chain : ColumnsAt(s, chain)' = ColumnsAt(s, chain)
<1>1. \A a, x, b : Hop(a, x, b)' <=> Hop(a, x, b)
  BY SameFields DEF Hop, Null
<1>2. ASSUME NEW s, NEW names PROVE Reach(s, names)' = Reach(s, names)
  <2>1. Reach(s, names) =
          {end \in Strct : \E at \in [0..Len(names) -> Strct] :
             /\ at[0] = s /\ at[Len(names)] = end
             /\ \A i \in 1..Len(names) : Hop(at[i - 1], names[i], at[i])}
    BY DEF Reach, Hop
  <2>2. Reach(s, names)' =
          {end \in Strct : \E at \in [0..Len(names) -> Strct] :
             /\ at[0] = s /\ at[Len(names)] = end
             /\ \A i \in 1..Len(names) : Hop(at[i - 1], names[i], at[i])'}
    BY DEF Reach, Hop
  <2> QED
    BY <1>1, <2>1, <2>2
<1>3. ASSUME NEW s, NEW chain PROVE ColumnsAt(s, chain)' = ColumnsAt(s, chain)
  BY <1>2, SameFields DEF ColumnsAt
<1> QED
  BY <1>2, <1>3

LEMMA SameFine ==
  ASSUME config' = config
  PROVE  \A e : Fine(e)' <=> Fine(e)
<1>1. \A u, m : ModGood(u, m)' <=> ModGood(u, m)
  BY SameFields DEF ModGood
<1>2. \A u, w : WhereGood(u, w)' <=> WhereGood(u, w)
  BY SameFields DEF WhereGood
<1>3. \A s, chain : GroupsBy(s, chain)' <=> GroupsBy(s, chain)
  BY SameReach, SameFields DEF GroupsBy, Null
<1> QED
  BY <1>1, <1>2, <1>3, SameFields, SameReach DEF Fine

LEMMA SameGood ==
  ASSUME config' = config
  PROVE  Good' <=> Good
<1>1. \A f : FieldGood(f)' <=> FieldGood(f)
  BY SameFields DEF FieldGood
<1>2. \A u : UniqueGood(u)' <=> UniqueGood(u)
  BY SameFields DEF UniqueGood
<1>3. \A u : UpdateGood(u)' <=> UpdateGood(u)
  BY SameFields DEF UpdateGood
<1>4. \A s, t : TermGood(s, t)' <=> TermGood(s, t)
  BY SameReach DEF TermGood
<1>5. \A s : GroupGood(s)' <=> GroupGood(s)
  BY SameReach DEF GroupGood, Null
<1>6. \A s : SearchGood(s)' <=> SearchGood(s)
  BY <1>4, <1>5, SameReach, SameFields DEF SearchGood
<1> QED
  BY <1>1, <1>2, <1>3, <1>6, SameFields DEF Good
------------------------------------------------------------------------------
(* Entries. *)

\* The list of entries of one clause.
LEMMA EntriesAre ==
  ASSUME NEW type \in Type, NEW st, NEW count \in Nat
  PROVE  /\ Entries(type, st, count) \in Seq([type : Type, of : {st}, n : Nat])
         /\ Range(Entries(type, st, count)) = {[type |-> type, of |-> st, n |-> i] : i \in 1..count}
         /\ IsInjective(Entries(type, st, count))
<1> DEFINE e(i) == [type |-> type, of |-> st, n |-> i]
<1>1. Entries(type, st, count) = [i \in 1..count |-> e(i)]
  BY DEF Entries
<1>2. \A i \in 1..count : e(i) \in [type : Type, of : {st}, n : Nat] /\ e(i).n = i
  OBVIOUS
<1> HIDE DEF e
<1>3. Entries(type, st, count) \in Seq([type : Type, of : {st}, n : Nat])
  BY <1>1, <1>2
<1>4. Range(Entries(type, st, count)) = {e(i) : i \in 1..count}
  BY <1>1 DEF Range
<1>5. IsInjective(Entries(type, st, count))
  BY <1>1, <1>2 DEF IsInjective
<1> QED
  BY <1>3, <1>4, <1>5 DEF e

\* Lists that have no member in common make one list without repetition.
LEMMA ConcatInjective ==
  ASSUME NEW S, NEW s \in Seq(S), NEW t \in Seq(S), IsInjective(s), IsInjective(t),
         Range(s) \cap Range(t) = {}
  PROVE  s \o t \in Seq(S) /\ IsInjective(s \o t) /\ Range(s \o t) = Range(s) \cup Range(t)
<1>1. s \o t \in Seq(S) /\ Range(s \o t) = Range(s) \cup Range(t)
  BY RangeConcatenation, ConcatProperties
<1>2. ASSUME NEW i \in DOMAIN (s \o t), NEW j \in DOMAIN (s \o t), i < j, (s \o t)[i] = (s \o t)[j]
      PROVE  FALSE
  <2>1. PICK m \in Nat, k \in Nat : m = Len(s) /\ k = Len(t)
    OBVIOUS
  <2>2. /\ DOMAIN s = 1..m /\ DOMAIN t = 1..k /\ DOMAIN (s \o t) = 1..m + k
        /\ \A x \in 1..m : (s \o t)[x] = s[x]
        /\ \A x \in 1..m + k : x > m => (s \o t)[x] = t[x - m]
    BY <2>1
  <2>3. CASE j <= m
    <3>1. i \in 1..m /\ j \in 1..m /\ i # j
      BY <1>2, <2>2, <2>3
    <3> QED
      BY <1>2, <2>2, <3>1 DEF IsInjective
  <2>4. CASE i <= m /\ j > m
    <3>1. i \in DOMAIN s /\ j - m \in DOMAIN t
      BY <2>1, <2>2, <2>4
    <3>2. s[i] = t[j - m]
      BY <1>2, <2>1, <2>2, <2>4
    <3> QED
      BY <3>1, <3>2 DEF Range
  <2>5. CASE i > m
    <3>1. i - m \in 1..k /\ j - m \in 1..k /\ i - m # j - m
      BY <1>2, <2>1, <2>2, <2>5
    <3>2. t[i - m] = t[j - m]
      BY <1>2, <2>1, <2>2, <2>5
    <3> QED
      BY <2>2, <3>1, <3>2 DEF IsInjective
  <2> QED
    BY <1>2, <2>1, <2>2, <2>3, <2>4, <2>5
<1>3. DOMAIN (s \o t) \subseteq Nat
  BY <1>1
<1>4. \A i, j \in DOMAIN (s \o t) : (s \o t)[i] = (s \o t)[j] => i = j
  BY <1>2, <1>3
<1> QED
  BY <1>1, <1>4 DEF IsInjective

\* Entries of a statement.
EntryOf(st) == [type : Type, of : {st}, n : Nat]

\* A list of entries of st, none twice, and what is in it.
Lists(st, s, types, members) ==
  /\ s \in Seq(EntryOf(st)) /\ IsInjective(s) /\ Range(s) = members
  /\ \A e \in members : e.type \in types

Clause(st, type, count) == {e \in EntryOf(st) : e.type = type /\ e.n \in 1..count}

\* The entries of a first clause, and of one more clause.
LEMMA FirstEntries ==
  ASSUME NEW st, NEW type, NEW count, type \in Type, count \in Nat
  PROVE  Lists(st, Entries(type, st, count), {type}, Clause(st, type, count))
<1>1. PICK c \in Seq(EntryOf(st)) : c = Entries(type, st, count)
  BY EntriesAre DEF EntryOf
<1>2. IsInjective(c) /\ Range(c) = {[type |-> type, of |-> st, n |-> i] : i \in 1..count}
  BY <1>1, EntriesAre
<1>3. Range(c) = Clause(st, type, count)
  BY <1>2 DEF EntryOf, Clause
<1> QED
  BY <1>1, <1>2, <1>3 DEF Lists, Clause

Joined(s, type, st, count) == s \o Entries(type, st, count)

LEMMA JoinEntries ==
  ASSUME NEW st, NEW s, NEW types, NEW members, Lists(st, s, types, members),
         NEW type, NEW count, type \in Type, type \notin types, count \in Nat
  PROVE  Lists(st, Joined(s, type, st, count), types \cup {type},
               members \cup Clause(st, type, count))
<1>1. PICK c : c = Entries(type, st, count) /\ Lists(st, c, {type}, Clause(st, type, count))
  BY FirstEntries
<1>2. Range(s) \cap Range(c) = {}
  BY <1>1 DEF Lists
<1>3. s \o c \in Seq(EntryOf(st)) /\ IsInjective(s \o c) /\ Range(s \o c) = Range(s) \cup Range(c)
  BY <1>1, <1>2, ConcatInjective DEF Lists
<1> QED
  BY <1>1, <1>3 DEF Lists, Joined

\* The entries of five clauses.
LEMMA FiveClauses ==
  ASSUME NEW st, NEW t1, NEW t2, NEW t3, NEW t4, NEW t5,
         {t1, t2, t3, t4, t5} \subseteq Type,
         t2 \notin {t1}, t3 \notin {t1, t2}, t4 \notin {t1, t2, t3}, t5 \notin {t1, t2, t3, t4},
         NEW c1 \in Nat, NEW c2 \in Nat, NEW c3 \in Nat, NEW c4 \in Nat, NEW c5 \in Nat
  PROVE  \E types : Lists(st,
           Entries(t1, st, c1) \o Entries(t2, st, c2) \o Entries(t3, st, c3)
             \o Entries(t4, st, c4) \o Entries(t5, st, c5),
           types,
           Clause(st, t1, c1) \cup Clause(st, t2, c2) \cup Clause(st, t3, c3)
             \cup Clause(st, t4, c4) \cup Clause(st, t5, c5))
<1> DEFINE s1 == Entries(t1, st, c1)
           s2 == Joined(s1, t2, st, c2)
           s3 == Joined(s2, t3, st, c3)
           s4 == Joined(s3, t4, st, c4)
           s5 == Joined(s4, t5, st, c5)
           R1 == Clause(st, t1, c1)
           R2 == R1 \cup Clause(st, t2, c2)
           R3 == R2 \cup Clause(st, t3, c3)
           R4 == R3 \cup Clause(st, t4, c4)
           R5 == R4 \cup Clause(st, t5, c5)
           T1 == {t1}
           T2 == T1 \cup {t2}
           T3 == T2 \cup {t3}
           T4 == T3 \cup {t4}
           T5 == T4 \cup {t5}
<1>1. t1 \in Type /\ t2 \in Type /\ t3 \in Type /\ t4 \in Type /\ t5 \in Type
  OBVIOUS
<1>2. t2 \notin T1 /\ t3 \notin T2 /\ t4 \notin T3 /\ t5 \notin T4
  OBVIOUS
<1>3. Lists(st, s1, T1, R1)
  BY <1>1, FirstEntries
<1> HIDE DEF s1, T1, R1
<1>4. Lists(st, s2, T2, R2)
  BY <1>1, <1>2, <1>3, JoinEntries, Zenon
<1> HIDE DEF s2, T2, R2
<1>5. Lists(st, s3, T3, R3)
  BY <1>1, <1>2, <1>4, JoinEntries, Zenon
<1> HIDE DEF s3, T3, R3
<1>6. Lists(st, s4, T4, R4)
  BY <1>1, <1>2, <1>5, JoinEntries, Zenon
<1> HIDE DEF s4, T4, R4
<1>7. Lists(st, s5, T5, R5)
  BY <1>1, <1>2, <1>6, JoinEntries, Zenon
<1>8. s5 = Entries(t1, st, c1) \o Entries(t2, st, c2) \o Entries(t3, st, c3)
             \o Entries(t4, st, c4) \o Entries(t5, st, c5)
  BY DEF s1, s2, s3, s4, Joined
<1>9. R5 = Clause(st, t1, c1) \cup Clause(st, t2, c2) \cup Clause(st, t3, c3)
             \cup Clause(st, t4, c4) \cup Clause(st, t5, c5)
  BY DEF R1, R2, R3, R4
<1> HIDE DEF s5, R5, T5
<1> QED
  BY <1>7, <1>8, <1>9

\* For what and how often a statement has an entry.
Calls(type, st, i) ==
  \/ st \in Fields /\ i = 1 /\
       \/ type = "foreign" /\ st.ref # NoName
       \/ type \in {"bits", "enum", "struct"} /\ st.type = type
       \/ type = "default" /\ st.type = "enum" /\ st.default # NoName
  \/ st \in Searches /\
       \/ type = "term" /\ i \in 1..Len(st.terms)
       \/ type = "order" /\ i \in 1..Len(st.order)
       \/ type = "aggr" /\ i = 1 /\ st.aggr # <<>>
       \/ type = "grouprow" /\ i = 1 /\ st.group # <<>>
       \/ type = "distinct" /\ i = 1 /\ st.distinct # <<>>
  \/ st \in Updates /\
       \/ type = "modifier" /\ i \in 1..Len(st.mods)
       \/ type = "constraint" /\ i \in 1..Len(st.where)
  \/ st \in Uniques /\ type = "unique" /\ i \in 1..Len(st.fields)

Called(st) == {e \in EntryOf(st) : Calls(e.type, st, e.n)}

LEMMA FieldEntriesAre ==
  ASSUME NEW f \in Fields
  PROVE  \E types : Lists(f, FieldEntries(f), types, Called(f))
<1> DEFINE c1 == IF f.ref # NoName THEN 1 ELSE 0
           c2 == IF f.type = "bits" THEN 1 ELSE 0
           c3 == IF f.type = "enum" THEN 1 ELSE 0
           c4 == IF f.type = "struct" THEN 1 ELSE 0
           c5 == IF f.type = "enum" /\ f.default # NoName THEN 1 ELSE 0
           R == Clause(f, "foreign", c1) \cup Clause(f, "bits", c2) \cup Clause(f, "enum", c3)
                  \cup Clause(f, "struct", c4) \cup Clause(f, "default", c5)
<1>1. FieldEntries(f) = Entries("foreign", f, c1) \o Entries("bits", f, c2) \o Entries("enum", f, c3)
                          \o Entries("struct", f, c4) \o Entries("default", f, c5)
  BY DEF FieldEntries, ForeignEntry, BitsEntry, EnumEntry, StructEntry, DefaultEntry, EntryIf
<1>2. {"foreign", "bits", "enum", "struct", "default"} \subseteq Type
  BY DEF Type
<1>3. c1 \in Nat /\ c2 \in Nat /\ c3 \in Nat /\ c4 \in Nat /\ c5 \in Nat
  OBVIOUS
<1>4. R = Called(f)
  <2>1. f.stmt = "field"
    BY DEF Fields
  <2>2. \A i, type : Calls(type, f, i) <=>
          i = 1 /\ (\/ type = "foreign" /\ f.ref # NoName
                    \/ type \in {"bits", "enum", "struct"} /\ f.type = type
                    \/ type = "default" /\ f.type = "enum" /\ f.default # NoName)
    BY <2>1 DEF Calls, Searches, Updates, Uniques
  <2>3. /\ \A x : x \in 1..c1 <=> x = 1 /\ f.ref # NoName
        /\ \A x : x \in 1..c2 <=> x = 1 /\ f.type = "bits"
        /\ \A x : x \in 1..c3 <=> x = 1 /\ f.type = "enum"
        /\ \A x : x \in 1..c4 <=> x = 1 /\ f.type = "struct"
        /\ \A x : x \in 1..c5 <=> x = 1 /\ f.type = "enum" /\ f.default # NoName
    OBVIOUS
  <2> HIDE DEF c1, c2, c3, c4, c5
  <2> QED
    BY <2>2, <2>3 DEF Clause, Called
<1> HIDE DEF c1, c2, c3, c4, c5
<1>5. /\ "bits" \notin {"foreign"} /\ "enum" \notin {"foreign", "bits"}
      /\ "struct" \notin {"foreign", "bits", "enum"}
      /\ "default" \notin {"foreign", "bits", "enum", "struct"}
  OBVIOUS
<1>6. \E types : Lists(f, Entries("foreign", f, c1) \o Entries("bits", f, c2) \o Entries("enum", f, c3)
                            \o Entries("struct", f, c4) \o Entries("default", f, c5), types, R)
  BY <1>2, <1>3, <1>5, FiveClauses, Zenon
<1> QED
  BY <1>1, <1>4, <1>6

LEMMA SearchEntriesAre ==
  ASSUME config \in Configs, NEW s \in Searches
  PROVE  \E types : Lists(s, SearchEntries(s), types, Called(s))
<1> DEFINE c1 == Len(s.terms)
           c2 == Len(s.order)
           c3 == IF s.aggr # <<>> THEN 1 ELSE 0
           c4 == IF s.group # <<>> THEN 1 ELSE 0
           c5 == IF s.distinct # <<>> THEN 1 ELSE 0
           R == Clause(s, "term", c1) \cup Clause(s, "order", c2) \cup Clause(s, "aggr", c3)
                  \cup Clause(s, "grouprow", c4) \cup Clause(s, "distinct", c5)
<1>1. SearchEntries(s) = Entries("term", s, c1) \o Entries("order", s, c2) \o Entries("aggr", s, c3)
                           \o Entries("grouprow", s, c4) \o Entries("distinct", s, c5)
  BY DEF SearchEntries, TermEntries, OrderEntries, AggrEntry, GroupEntry, DistinctEntry, EntryIf
<1>2. {"term", "order", "aggr", "grouprow", "distinct"} \subseteq Type
  BY DEF Type
<1>3. c1 \in Nat /\ c2 \in Nat /\ c3 \in Nat /\ c4 \in Nat /\ c5 \in Nat
  <2>1. c1 \in Nat /\ c2 \in Nat
    BY SearchFacts, LenProperties
  <2> QED
    BY <2>1
<1>4. R = Called(s)
  <2>1. s.stmt = "search"
    BY DEF Searches
  <2>2. \A i, type : Calls(type, s, i) <=>
          \/ type = "term" /\ i \in 1..Len(s.terms)
          \/ type = "order" /\ i \in 1..Len(s.order)
          \/ type = "aggr" /\ i = 1 /\ s.aggr # <<>>
          \/ type = "grouprow" /\ i = 1 /\ s.group # <<>>
          \/ type = "distinct" /\ i = 1 /\ s.distinct # <<>>
    BY <2>1 DEF Calls, Fields, Searches, Updates, Uniques
  <2>3. /\ \A x : x \in 1..c3 <=> x = 1 /\ s.aggr # <<>>
        /\ \A x : x \in 1..c4 <=> x = 1 /\ s.group # <<>>
        /\ \A x : x \in 1..c5 <=> x = 1 /\ s.distinct # <<>>
    OBVIOUS
  <2> HIDE DEF c3, c4, c5
  <2> QED
    BY <2>2, <2>3 DEF Clause, Called
<1> HIDE DEF c1, c2, c3, c4, c5
<1>5. /\ "order" \notin {"term"} /\ "aggr" \notin {"term", "order"}
      /\ "grouprow" \notin {"term", "order", "aggr"}
      /\ "distinct" \notin {"term", "order", "aggr", "grouprow"}
  OBVIOUS
<1>6. \E types : Lists(s, Entries("term", s, c1) \o Entries("order", s, c2) \o Entries("aggr", s, c3)
                            \o Entries("grouprow", s, c4) \o Entries("distinct", s, c5), types, R)
  BY <1>2, <1>3, <1>5, FiveClauses, Zenon
<1> QED
  BY <1>1, <1>4, <1>6

LEMMA UpdateEntriesAre ==
  ASSUME config \in Configs, NEW u \in Updates
  PROVE  \E types : Lists(u, UpdateEntries(u), types, Called(u))
<1> DEFINE c1 == Len(u.mods)
           c2 == Len(u.where)
           s1 == Entries("modifier", u, c1)
           R == Clause(u, "modifier", c1) \cup Clause(u, "constraint", c2)
<1>1. UpdateEntries(u) = Joined(s1, "constraint", u, c2)
  BY DEF UpdateEntries, Joined
<1>2. /\ "modifier" \in Type /\ "constraint" \in Type /\ "constraint" \notin {"modifier"}
      /\ c1 \in Nat /\ c2 \in Nat
  BY UpdateFacts, LenProperties DEF Type
<1>3. R = Called(u)
  <2>1. u.stmt = "update"
    BY DEF Updates
  <2>2. \A i, type : Calls(type, u, i) <=>
          \/ type = "modifier" /\ i \in 1..Len(u.mods)
          \/ type = "constraint" /\ i \in 1..Len(u.where)
    BY <2>1 DEF Calls, Fields, Searches, Updates, Uniques
  <2> QED
    BY <2>2 DEF Clause, Called
<1> HIDE DEF c1, c2
<1>4. Lists(u, s1, {"modifier"}, Clause(u, "modifier", c1))
  BY <1>2, FirstEntries, Zenon
<1> HIDE DEF s1
<1>5. Lists(u, Joined(s1, "constraint", u, c2), {"modifier"} \cup {"constraint"}, R)
  BY <1>2, <1>4, JoinEntries, Zenon
<1> HIDE DEF R
<1> QED
  BY <1>1, <1>3, <1>5

\* What a statement queues.
LEMMA EntriesOfAre ==
  ASSUME config \in Configs, NEW st \in config
  PROVE  \E types : Lists(st, EntriesOf(st), types, Called(st))
<1>1. CASE st.stmt = "field"
  <2>1. st \in Fields /\ EntriesOf(st) = FieldEntries(st)
    BY <1>1 DEF Fields, EntriesOf
  <2> QED
    BY <2>1, FieldEntriesAre
<1>2. CASE st.stmt = "search"
  <2>1. st \in Searches /\ EntriesOf(st) = SearchEntries(st)
    BY <1>2 DEF Searches, EntriesOf
  <2> QED
    BY <2>1, SearchEntriesAre
<1>3. CASE st.stmt = "update"
  <2>1. st \in Updates /\ EntriesOf(st) = UpdateEntries(st)
    BY <1>3 DEF Updates, EntriesOf
  <2> QED
    BY <2>1, UpdateEntriesAre
<1>4. CASE st.stmt = "unique"
  <2>1. st \in Uniques /\ EntriesOf(st) = Entries("unique", st, Len(st.fields))
    BY <1>4 DEF Uniques, EntriesOf
  <2>2. "unique" \in Type /\ Len(st.fields) \in Nat
    BY <2>1, UniqueFacts, LenProperties DEF Type
  <2>3. Lists(st, EntriesOf(st), {"unique"}, Clause(st, "unique", Len(st.fields)))
    BY <2>1, <2>2, FirstEntries
  <2>4. \A i, type : Calls(type, st, i) <=> type = "unique" /\ i \in 1..Len(st.fields)
    BY <1>4, <2>1 DEF Calls, Fields, Searches, Updates
  <2>5. Clause(st, "unique", Len(st.fields)) = Called(st)
    BY <2>4 DEF Clause, Called
  <2> QED
    BY <2>3, <2>5
<1> QED
  BY <1>1, <1>2, <1>3, <1>4, StmtKinds
------------------------------------------------------------------------------
(* What a good configuration has at its entries. *)

LEMMA CalledIs ==
  ASSUME NEW st, NEW e \in Called(st)
  PROVE  e.of = st /\ e.type \in Type /\ e.n \in Nat /\ Calls(e.type, st, e.n)
  BY DEF Called, EntryOf

LEMMA GoodField ==
  ASSUME config \in Configs, Good, NEW f \in Fields, NEW e \in Called(f)
  PROVE  Fine(e)
<1>1. e.of = f /\ Calls(e.type, f, e.n) /\ f.stmt = "field"
  BY CalledIs, FieldFacts
<1>2. \/ e.type = "foreign" /\ f.ref # NoName
      \/ e.type \in {"bits", "enum", "struct"} /\ f.type = e.type
      \/ e.type = "default" /\ f.type = "enum" /\ f.default # NoName
  BY <1>1 DEF Calls, Searches, Updates, Uniques
<1>3. FieldGood(f)
  BY DEF Good
<1> QED
  BY <1>1, <1>2, <1>3 DEF Fine, FieldGood

LEMMA GoodUpdate ==
  ASSUME config \in Configs, Good, NEW u \in Updates, NEW e \in Called(u)
  PROVE  Fine(e)
<1>1. e.of = u /\ Calls(e.type, u, e.n) /\ u.stmt = "update"
  BY CalledIs, UpdateFacts
<1>2. \/ e.type = "modifier" /\ e.n \in 1..Len(u.mods)
      \/ e.type = "constraint" /\ e.n \in 1..Len(u.where)
  BY <1>1 DEF Calls, Fields, Searches, Uniques
<1>3. UpdateGood(u)
  BY DEF Good
<1>4. CASE e.type = "modifier"
  <2>1. u.mods[e.n] \in Range(u.mods)
    BY <1>2, <1>4, UpdateFacts DEF Range
  <2>2. ModGood(u, u.mods[e.n])
    BY <1>3, <2>1 DEF UpdateGood, ModGood
  <2> QED
    BY <1>1, <1>4, <2>2 DEF Fine
<1>5. CASE e.type = "constraint"
  <2>1. u.where[e.n] \in Range(u.where)
    BY <1>2, <1>5, UpdateFacts DEF Range
  <2>2. WhereGood(u, u.where[e.n])
    BY <1>3, <2>1 DEF UpdateGood, WhereGood
  <2> QED
    BY <1>1, <1>5, <2>2 DEF Fine
<1> QED
  BY <1>2, <1>4, <1>5

LEMMA GoodUnique ==
  ASSUME config \in Configs, Good, NEW u \in Uniques, NEW e \in Called(u)
  PROVE  Fine(e)
<1>1. e.of = u /\ Calls(e.type, u, e.n) /\ u.stmt = "unique"
  BY CalledIs, UniqueFacts
<1>2. e.type = "unique" /\ e.n \in 1..Len(u.fields)
  BY <1>1 DEF Calls, Fields, Searches, Updates
<1>3. UniqueGood(u)
  BY DEF Good
<1>4. u.fields[e.n] \in Range(u.fields)
  BY <1>2, UniqueFacts DEF Range
<1>5. \E f \in Columns(u.strct) : f.name = u.fields[e.n]
  BY <1>3, <1>4 DEF UniqueGood
<1> QED
  BY <1>1, <1>2, <1>5 DEF Fine

LEMMA GoodSearch ==
  ASSUME config \in Configs, Good, NEW s \in Searches, NEW e \in Called(s)
  PROVE  Fine(e)
<1>1. e.of = s /\ Calls(e.type, s, e.n) /\ s.stmt = "search"
  BY CalledIs, SearchFacts
<1>2. \/ e.type = "term" /\ e.n \in 1..Len(s.terms)
      \/ e.type = "order" /\ e.n \in 1..Len(s.order)
      \/ e.type = "aggr" /\ s.aggr # <<>>
      \/ e.type = "grouprow" /\ s.group # <<>>
      \/ e.type = "distinct" /\ s.distinct # <<>>
  BY <1>1 DEF Calls, Fields, Updates, Uniques
<1>3. SearchGood(s)
  BY DEF Good
<1>4. CASE e.type = "term"
  <2>1. s.terms[e.n] \in Range(s.terms)
    BY <1>2, <1>4, SearchFacts DEF Range
  <2>2. TermGood(s, s.terms[e.n])
    BY <1>3, <2>1 DEF SearchGood
  <2>3. Names(e) = s.terms[e.n].chain
    BY <1>1, <1>4 DEF Names
  <2>4. ColumnsAt(s, Names(e)) # {}
    BY <2>2, <2>3 DEF TermGood
  <2> QED
    BY <1>1, <1>4, <2>4 DEF Fine
<1>5. CASE e.type = "order"
  <2>1. s.order[e.n] \in Range(s.order)
    BY <1>2, <1>5, SearchFacts DEF Range
  <2>2. Names(e) = s.order[e.n]
    BY <1>1, <1>5 DEF Names
  <2>3. ColumnsAt(s, Names(e)) # {}
    BY <1>3, <2>1, <2>2 DEF SearchGood
  <2> QED
    BY <1>1, <1>5, <2>3 DEF Fine
<1>6. CASE e.type \in {"aggr", "grouprow"}
  <2>1. s.group # <<>>
    BY <1>2, <1>3, <1>6 DEF SearchGood
  <2>2. PICK f \in ColumnsAt(s, s.aggr), g \in ColumnsAt(s, s.group) :
               \A h \in {f, g} : h.type # "password" /\ ~Null(h)
    BY <1>3, <2>1 DEF SearchGood, GroupGood
  <2>3. GroupsBy(s, s.aggr) /\ GroupsBy(s, s.group)
    BY <2>2 DEF GroupsBy
  <2> QED
    BY <1>1, <1>6, <2>3 DEF Fine, Names
<1>7. CASE e.type = "distinct"
  BY <1>1, <1>2, <1>3, <1>7 DEF SearchGood, Fine
<1> QED
  BY <1>2, <1>4, <1>5, <1>6, <1>7

LEMMA GoodFine ==
  ASSUME config \in Configs, Good, NEW st \in config, NEW e \in Called(st)
  PROVE  Fine(e)
<1>1. st \in Fields \cup Searches \cup Updates \cup Uniques
  BY StmtKinds DEF Fields, Searches, Updates, Uniques
<1> QED
  BY <1>1, GoodField, GoodSearch, GoodUpdate, GoodUnique
------------------------------------------------------------------------------
(* Chains of names. *)

\* All "struct" fields have their source and their target.
Resolved ==
  /\ OneField
  /\ \A f \in Fields : f.type = "struct" =>
       StructGood(f) /\ source[Id(f)] = f.source /\ target[Id(f)] = Field(Source(f)).ref

MayStrct == Strct \cup {NoName}

\* One turn of resolve_field_chain().
Turn(a, x) == IF a # NoName /\ MayDescend(<<a, x>>) THEN target[<<a, x>>][1] ELSE NoName

LEMMA TurnHops ==
  ASSUME config \in Configs, Resolved, NEW a \in MayStrct, NEW x
  PROVE  /\ Turn(a, x) \in MayStrct
         /\ \A b \in Strct : a \in Strct /\ Hop(a, x, b) <=> Turn(a, x) = b
<1>1. CASE a # NoName /\ MayDescend(<<a, x>>)
  <2>1. PICK f \in Fields : f = Field(<<a, x>>)
    BY <1>1, FieldIs DEF MayDescend
  <2>2. Id(f) = <<a, x>> /\ f.type = "struct" /\ f.strct = a
    BY <1>1, <2>1, FieldIs, FieldFacts DEF MayDescend
  <2>3. StructGood(f) /\ source[<<a, x>>] = f.source /\ target[<<a, x>>] = Field(Source(f)).ref
    BY <2>2 DEF Resolved
  <2>4. ~Null(Field(Source(f)))
    <3>1. <<a, x>>[1] = a
      OBVIOUS
    <3>2. <<a, source[<<a, x>>]>> = Source(f)
      BY <2>2, <2>3 DEF Source
    <3> QED
      BY <1>1, <3>1, <3>2 DEF MayDescend
  <2>5. PICK g \in Fields : Id(g) = Field(Source(f)).ref
    BY <2>3 DEF StructGood, RefGood, HasField
  <2>6. Turn(a, x) = g.strct /\ g.strct \in Strct
    BY <1>1, <2>3, <2>5, FieldFacts DEF Turn
  <2>7. \A h \in Fields : Id(h) = <<a, x>> => h = f
    BY <2>2 DEF Resolved, OneField
  <2>8. \A b : Hop(a, x, b) <=> Field(Source(f)).ref[1] = b
    BY <2>2, <2>3, <2>4, <2>7 DEF Hop
  <2>9. Field(Source(f)).ref[1] = g.strct
    BY <2>5, FieldFacts
  <2> QED
    BY <1>1, <2>6, <2>8, <2>9 DEF MayStrct
<1>2. CASE ~(a # NoName /\ MayDescend(<<a, x>>))
  <2>1. Turn(a, x) = NoName
    BY <1>2 DEF Turn
  <2>2. ASSUME NEW b \in Strct, a \in Strct, Hop(a, x, b) PROVE FALSE
    <3>1. PICK f \in Fields : /\ Id(f) = <<a, x>> /\ f.type = "struct"
                              /\ ~Null(Field(Source(f)))
      BY <2>2 DEF Hop
    <3>2. HasField(<<a, x>>) /\ Field(<<a, x>>) = f /\ f.strct = a
      BY <3>1, FieldOfId, FieldFacts DEF Resolved
    <3>3. source[<<a, x>>] = f.source
      BY <3>1 DEF Resolved
    <3>4. <<a, x>>[1] = a
      OBVIOUS
    <3>5. Source(f) = <<a, source[<<a, x>>]>>
      BY <3>2, <3>3 DEF Source
    <3>6. MayDescend(<<a, x>>)
      BY <3>1, <3>2, <3>4, <3>5 DEF MayDescend
    <3> QED
      BY <1>2, <2>2, <3>6, NamesAssumption
  <2> QED
    BY <2>1, <2>2, NamesAssumption DEF MayStrct
<1> QED
  BY <1>1, <1>2

\* A walk over all of the names.
Walks(s, names) ==
  {w \in [0..Len(names) -> MayStrct] : w[0] = s /\ \A i \in 1..Len(names) : w[i] = Turn(w[i - 1], names[i])}

LEMMA ReachIs ==
  ASSUME config \in Configs, Resolved, NEW s \in Strct, NEW names, names \in Seq(Name),
         NEW w \in Walks(s, names)
  PROVE  Reach(s, names) = {w[Len(names)]} \ {NoName}
<1>1. PICK n \in Nat : n = Len(names)
  BY LenProperties
<1>2. w \in [0..n -> MayStrct] /\ w[0] = s /\ \A i \in 1..n : w[i] = Turn(w[i - 1], names[i])
  BY <1>1 DEF Walks
<1>3. Reach(s, names) =
        {end \in Strct : \E at \in [0..n -> Strct] :
           at[0] = s /\ at[n] = end /\ \A i \in 1..n : Hop(at[i - 1], names[i], at[i])}
  BY <1>1 DEF Reach, Hop
<1>4. ASSUME NEW at \in [0..n -> Strct], at[0] = s, \A i \in 1..n : Hop(at[i - 1], names[i], at[i])
      PROVE  at[n] = w[n]
  <2> DEFINE S == {i \in 0..n : at[i] # w[i]}
  <2>1. SUFFICES ASSUME S # {} PROVE FALSE
    BY n \in 0..n
  <2>2. PICK k \in S : \A j \in S : k <= j
    <3>1. S \in SUBSET Nat
      OBVIOUS
    <3> HIDE DEF S
    <3> QED
      BY <2>1, <3>1, LeastNatural
  <2>3. k \in 1..n /\ k - 1 \in 0..n /\ k - 1 < k
    BY <1>2, <1>4
  <2>4. at[k - 1] = w[k - 1]
    BY <2>2, <2>3
  <2>5. at[k - 1] \in Strct /\ w[k - 1] \in MayStrct /\ at[k] \in Strct
    BY <1>2, <2>3
  <2>6. Hop(w[k - 1], names[k], at[k])
    BY <1>4, <2>3, <2>4
  <2>7. w[k] = at[k]
    BY <1>2, <2>3, <2>4, <2>5, <2>6, TurnHops
  <2> QED
    BY <2>2, <2>7
<1>5. ASSUME w[n] # NoName
      PROVE  w \in [0..n -> Strct] /\ \A i \in 1..n : Hop(w[i - 1], names[i], w[i])
  <2>1. ASSUME NEW i \in 0..n, w[i] = NoName PROVE FALSE
    <3> DEFINE S == {j \in i..n : w[j] # NoName}
    <3>1. n \in S
      BY <1>5
    <3>2. PICK k \in S : \A j \in S : k <= j
      <4>1. S \in SUBSET Nat
        OBVIOUS
      <4> HIDE DEF S
      <4> QED
        BY <3>1, <4>1, LeastNatural
    <3>3. k # i /\ k \in 1..n /\ k - 1 \in i..n /\ ~(k <= k - 1)
      BY <2>1
    <3>4. w[k - 1] = NoName
      BY <3>2, <3>3
    <3>5. w[k] = NoName
      BY <1>2, <3>3, <3>4 DEF Turn
    <3> QED
      BY <3>5
  <2>2. w \in [0..n -> Strct]
    BY <1>2, <2>1 DEF MayStrct
  <2>3. ASSUME NEW i \in 1..n PROVE Hop(w[i - 1], names[i], w[i])
    <3>1. i - 1 \in 0..n /\ i \in 0..n
      OBVIOUS
    <3>2. w[i - 1] \in Strct /\ w[i - 1] \in MayStrct /\ w[i] \in Strct
      BY <1>2, <2>2, <3>1
    <3> QED
      BY <1>2, <2>3, <3>2, TurnHops
  <2> QED
    BY <2>2, <2>3
<1>6. w[n] \in MayStrct
  BY <1>2
<1>7. Reach(s, names) \subseteq {w[n]} \ {NoName}
  BY <1>3, <1>4, NamesAssumption
<1>8. w[n] # NoName => w[n] \in Reach(s, names)
  BY <1>2, <1>3, <1>5, <1>6 DEF MayStrct
<1> QED
  BY <1>1, <1>7, <1>8
\* The walk of resolve_field_chain(), in the linker's words.
WalkEq(at, s, names) ==
  at = [i \in 1..Len(names) |->
          IF i = 1 THEN s
          ELSE IF at[i - 1] # NoName /\ MayDescend(<<at[i - 1], names[i - 1]>>)
               THEN target[<<at[i - 1], names[i - 1]>>][1]
               ELSE NoName]

LEMMA WalkIs ==
  ASSUME config \in Configs, Resolved, NEW s \in Strct, NEW names, names \in Seq(Name)
  PROVE  /\ Walk(s, names) \in [1..Len(names) -> MayStrct]
         /\ names # <<>> => Walk(s, names)[1] = s
         /\ \A i \in 2..Len(names) : Walk(s, names)[i] = Turn(Walk(s, names)[i - 1], names[i - 1])
<1>1. PICK n \in Nat : n = Len(names)
  BY LenProperties
<1> DEFINE step == [i \in 1..n |-> [a \in MayStrct |-> Turn(a, names[i])]]
<1>2. step \in Steps(MayStrct, n)
  BY TurnHops DEF Steps
<1>3. s \in MayStrct
  BY DEF MayStrct
<1>4. PICK g : g \in Courses(MayStrct, s, n, step)
  <2> HIDE DEF step
  <2> QED
    BY <1>2, <1>3, LoopRuns
<1>5. g \in [0..n -> MayStrct] /\ g[0] = s /\ \A i \in 1..n : g[i] = step[i][g[i - 1]]
  <2> HIDE DEF step
  <2> QED
    BY <1>4 DEF Courses
<1>6. \A i \in 1..n : g[i] = Turn(g[i - 1], names[i])
  BY <1>5
<1> HIDE DEF step
<1> DEFINE h == [i \in 1..n |-> g[i - 1]]
<1>7. h \in [1..n -> MayStrct] /\ \A i \in 1..n : h[i] = g[i - 1]
  BY <1>5
<1>8. \A i \in 1..n : i # 1 => h[i] = Turn(h[i - 1], names[i - 1])
  BY <1>6, <1>7
<1>9. \A i \in 1..n : i = 1 => h[i] = s
  BY <1>5, <1>7
<1> HIDE DEF h
<1>10. WalkEq(h, s, names)
  <2> DEFINE e(i) == IF i = 1 THEN s
                     ELSE IF h[i - 1] # NoName /\ MayDescend(<<h[i - 1], names[i - 1]>>)
                          THEN target[<<h[i - 1], names[i - 1]>>][1]
                          ELSE NoName
  <2>1. \A i \in 1..n : h[i] = e(i)
    BY <1>8, <1>9 DEF Turn
  <2> HIDE DEF e
  <2>2. h = [i \in 1..n |-> e(i)]
    BY <1>7, <2>1
  <2> QED
    BY <1>1, <2>2 DEF WalkEq, e
<1>11. Walk(s, names) = CHOOSE at : WalkEq(at, s, names)
  BY DEF Walk, WalkEq
<1>12. PICK w : w = Walk(s, names) /\ WalkEq(w, s, names)
  BY <1>10, <1>11
<1>13. DOMAIN w = 1..n
  BY <1>1, <1>12 DEF WalkEq
<1>14. \A i \in 1..n : i = 1 => w[i] = s
  BY <1>1, <1>12 DEF WalkEq
<1>15. \A i \in 1..n : i # 1 => w[i] = Turn(w[i - 1], names[i - 1])
  BY <1>1, <1>12 DEF WalkEq, Turn
<1>16. ASSUME NEW i \in 1..n PROVE w[i] = h[i]
  <2> DEFINE S == {j \in 1..n : w[j] # h[j]}
  <2>1. SUFFICES ASSUME S # {} PROVE FALSE
    OBVIOUS
  <2>2. PICK k \in S : \A j \in S : k <= j
    <3>1. S \in SUBSET Nat
      OBVIOUS
    <3> HIDE DEF S
    <3> QED
      BY <2>1, <3>1, LeastNatural
  <2>3. k # 1
    BY <1>9, <1>14
  <2>4. k - 1 \in 1..n /\ ~(k <= k - 1)
    BY <2>3
  <2>5. w[k - 1] = h[k - 1]
    BY <2>2, <2>4
  <2> QED
    BY <1>8, <1>15, <2>3, <2>5
<1>17. w = [i \in 1..n |-> w[i]]
  BY <1>12, <1>13 DEF WalkEq
<1>18. w \in [1..n -> MayStrct]
  BY <1>7, <1>16, <1>17
<1>19. names # <<>> => 1 \in 1..n
  BY <1>1, EmptySeq
<1> QED
  BY <1>1, <1>12, <1>14, <1>15, <1>18, <1>19

\* The last structure that a chain is looked up in.
LEMMA LastStructure ==
  ASSUME config \in Configs, Resolved, NEW s \in Strct, NEW chain, chain \in Chain
  PROVE  /\ Walk(s, chain)[Len(chain)] \in MayStrct
         /\ Reach(s, Front(chain)) = {Walk(s, chain)[Len(chain)]} \ {NoName}
         /\ Reach(s, chain) = {Turn(Walk(s, chain)[Len(chain)], Last(chain))} \ {NoName}
<1>1. PICK n \in Nat : n = Len(chain) /\ n # 0
  BY LenProperties, EmptySeq DEF Chain
<1>2. chain \in Seq(Name) /\ chain # <<>>
  BY DEF Chain
<1>3. PICK w : /\ w = Walk(s, chain) /\ w \in [1..n -> MayStrct] /\ w[1] = s
               /\ \A i \in 2..n : w[i] = Turn(w[i - 1], chain[i - 1])
  BY <1>1, <1>2, WalkIs
<1>4. n \in 1..n
  BY <1>1
<1>5. w[n] \in MayStrct
  BY <1>3, <1>4
<1> DEFINE v == [i \in 0..n - 1 |-> w[i + 1]]
           u == [i \in 0..n |-> IF i = n THEN Turn(w[n], chain[n]) ELSE w[i + 1]]
<1>6. PICK f : /\ f = Front(chain) /\ f \in Seq(Name) /\ Len(f) = n - 1
               /\ \A i \in 1..n - 1 : f[i] = chain[i]
  <2>1. \A i \in 1..n - 1 : chain[i] \in Name
    BY <1>1, <1>2
  <2>2. /\ SubSeq(chain, 1, n - 1) \in Seq(Name)
        /\ Len(SubSeq(chain, 1, n - 1)) = n - 1
        /\ \A i \in 1..n - 1 : SubSeq(chain, 1, n - 1)[i] = chain[i]
    <3>1. \A i \in 1..(n - 1) - 1 + 1 : SubSeq(chain, 1, n - 1)[i] = chain[1 + i - 1]
      BY <2>1, SubSeqProperties
    <3>2. /\ SubSeq(chain, 1, n - 1) \in Seq(Name)
          /\ Len(SubSeq(chain, 1, n - 1)) = IF 1 <= n - 1 THEN (n - 1) - 1 + 1 ELSE 0
      BY <2>1, SubSeqProperties
    <3> QED
      BY <1>1, <3>1, <3>2
  <2>3. Front(chain) = SubSeq(chain, 1, n - 1)
    BY <1>1 DEF Front
  <2> QED
    BY <2>2, <2>3
<1>7. v \in Walks(s, f)
  <2>1. v \in [0..n - 1 -> MayStrct] /\ v[0] = s
    BY <1>1, <1>3
  <2>2. \A i \in 1..n - 1 : v[i] = Turn(v[i - 1], f[i])
    BY <1>3, <1>6
  <2> QED
    BY <1>6, <2>1, <2>2 DEF Walks
<1>8. v[Len(f)] = w[n]
  BY <1>1, <1>6
<1>9. Reach(s, f) = {w[n]} \ {NoName}
  <2> HIDE DEF v
  <2> QED
    BY <1>6, <1>7, <1>8, ReachIs
<1>10. u \in Walks(s, chain)
  <2>1. Turn(w[n], chain[n]) \in MayStrct
    BY <1>5, TurnHops
  <2>2. u \in [0..n -> MayStrct]
    BY <1>3, <2>1
  <2>3. u[0] = s
    BY <1>1, <1>3
  <2>4. ASSUME NEW i \in 1..n PROVE u[i] = Turn(u[i - 1], chain[i])
    <3>1. u[i - 1] = w[i]
      OBVIOUS
    <3>2. CASE i = n
      BY <3>1, <3>2
    <3>3. CASE i # n
      <4>1. i + 1 \in 2..n /\ i \in 0..n
        BY <3>3
      <4>2. w[i + 1] = Turn(w[i], chain[i])
        BY <1>3, <4>1
      <4> QED
        BY <3>1, <3>3, <4>1, <4>2
    <3> QED
      BY <3>2, <3>3
  <2> HIDE DEF u
  <2> QED
    BY <1>1, <2>2, <2>3, <2>4 DEF Walks
<1>11. u[n] = Turn(w[n], chain[n])
  OBVIOUS
<1>12. Reach(s, chain) = {u[n]} \ {NoName}
  <2> HIDE DEF u
  <2> QED
    BY <1>1, <1>2, <1>10, ReachIs
<1> QED
  BY <1>1, <1>3, <1>5, <1>6, <1>9, <1>11, <1>12 DEF Last

\* What the linker finds at the end of a chain.
LEMMA ChainFinds ==
  ASSUME config \in Configs, Resolved, NEW s \in Searches, NEW chain, chain \in Chain,
         NEW id, id = ChainEnd(s.strct, chain)
  PROVE  /\ ColumnsAt(s, chain) =
              {f \in Fields : HasField(id) /\ Field(id).type # "struct" /\ f = Field(id)}
         /\ MayDescend(id) => target[id][1] \in Strct /\ Reach(s.strct, chain) = {target[id][1]}
         /\ ~MayDescend(id) => Reach(s.strct, chain) = {}
<1>1. PICK a \in MayStrct : /\ a = Walk(s.strct, chain)[Len(chain)]
                            /\ Reach(s.strct, Front(chain)) = {a} \ {NoName}
                            /\ Reach(s.strct, chain) = {Turn(a, Last(chain))} \ {NoName}
  BY LastStructure, SearchFacts
<1>2. id = <<a, Last(chain)>> /\ id[1] = a
  BY <1>1 DEF ChainEnd
<1>3. ASSUME HasField(id) PROVE a \in Strct
  <2>1. PICK f \in Fields : Id(f) = id
    BY <1>3 DEF HasField
  <2>2. f.strct = a
    BY <1>2, <2>1, FieldFacts
  <2> QED
    BY <2>2, FieldFacts
<1>4. \A f : f \in ColumnsAt(s, chain) <=>
        f \in Fields /\ a # NoName /\ f.strct = a /\ f.type # "struct" /\ f.name = Last(chain)
  BY <1>1 DEF ColumnsAt, Columns
<1>5. \A f \in Fields : f.strct = a /\ f.name = Last(chain) <=> HasField(id) /\ f = Field(id)
  <2>1. \A f \in Fields : Id(f) = id <=> f.strct = a /\ f.name = Last(chain)
    BY <1>2, FieldFacts
  <2>2. \A f \in Fields : Id(f) = id <=> HasField(id) /\ f = Field(id)
    BY FieldIs, FieldOfId DEF Resolved
  <2> QED
    BY <2>1, <2>2
<1>6. ColumnsAt(s, chain) =
        {f \in Fields : HasField(id) /\ Field(id).type # "struct" /\ f = Field(id)}
  BY <1>3, <1>4, <1>5, NamesAssumption
<1>7. ASSUME MayDescend(id)
      PROVE  target[id][1] \in Strct /\ Reach(s.strct, chain) = {target[id][1]}
  <2>1. a \in Strct
    BY <1>3, <1>7 DEF MayDescend
  <2>2. Turn(a, Last(chain)) = target[id][1]
    BY <1>2, <1>7, <2>1, NamesAssumption DEF Turn
  <2>3. Turn(a, Last(chain)) # NoName /\ Turn(a, Last(chain)) \in MayStrct
    <3>1. PICK f \in Fields : f = Field(id) /\ Id(f) = id /\ f.type = "struct"
      BY <1>7, FieldIs DEF MayDescend
    <3>2. StructGood(f) /\ target[id] = Field(Source(f)).ref
      BY <3>1 DEF Resolved
    <3>3. PICK g \in Fields : Id(g) = target[id]
      BY <3>2 DEF StructGood, RefGood, HasField
    <3>4. target[id][1] \in Strct
      BY <3>3, FieldFacts
    <3> QED
      BY <2>2, <3>4, NamesAssumption DEF MayStrct
  <2> QED
    BY <1>1, <2>2, <2>3 DEF MayStrct
<1>8. ~MayDescend(id) => Reach(s.strct, chain) = {}
  BY <1>1, <1>2 DEF Turn
<1> QED
  BY <1>6, <1>7, <1>8

\* No names lead nowhere.
LEMMA ReachNothing ==
  ASSUME config \in Configs, Resolved, NEW s \in Strct
  PROVE  Reach(s, <<>>) = {s}
<1> DEFINE w == [i \in 0..0 |-> s]
<1>1. PICK none \in Seq(Name) : none = <<>>
  BY EmptySeq
<1>2. Len(none) = 0
  BY <1>1
<1>3. w \in Walks(s, none) /\ w[0] = s
  BY <1>2 DEF Walks, MayStrct
<1> HIDE DEF w
<1>4. Reach(s, none) = {w[Len(none)]} \ {NoName}
  BY <1>3, ReachIs
<1>5. Reach(s, none) = {s}
  BY <1>3, <1>4, <1>2, NamesAssumption
<1> QED
  BY <1>1, <1>5
------------------------------------------------------------------------------
(* What the invariant says of the queue. *)

\* An entry is one that its statement calls for, and every one is there.
LEMMA Queued ==
  ASSUME TypeOK, Queue
  PROVE  /\ Len(rq) \in Nat /\ DOMAIN rq = 1..Len(rq)
         /\ \A i \in DOMAIN rq : rq[i].of \in Range(parsed) /\ rq[i] \in Called(rq[i].of)
         /\ \A st \in Range(parsed) : \A e \in Called(st) : \E i \in DOMAIN rq : rq[i] = e
<1>1. Len(rq) \in Nat /\ DOMAIN rq = 1..Len(rq)
  BY LenProperties DEF TypeOK
<1>2. config \in Configs /\ Range(parsed) \subseteq config
  BY DEF TypeOK, Range
<1>3. ASSUME NEW st \in Range(parsed)
      PROVE  Range(EntriesOf(st)) = Called(st)
  BY <1>2, EntriesOfAre DEF Lists
<1>4. \A st : \A e \in Called(st) : e.of = st
  BY CalledIs
<1>5. ASSUME NEW i \in DOMAIN rq
      PROVE  rq[i].of \in Range(parsed) /\ rq[i] \in Called(rq[i].of)
  <2>1. rq[i] \in Range(rq)
    BY DEF Range
  <2>2. PICK st \in Range(parsed) : rq[i] \in Range(EntriesOf(st))
    BY <2>1 DEF Queue
  <2> QED
    BY <1>3, <1>4, <2>2
<1>6. ASSUME NEW st \in Range(parsed), NEW e \in Called(st)
      PROVE  \E i \in DOMAIN rq : rq[i] = e
  <2>1. e \in Range(rq)
    BY <1>3, <1>6 DEF Queue
  <2> QED
    BY <2>1 DEF Range
<1> QED
  BY <1>1, <1>5, <1>6

\* The first entry of a type that a statement calls for.
LEMMA EntryThere ==
  ASSUME TypeOK, Queue, NEW st \in Range(parsed), NEW type \in Type, Calls(type, st, 1)
  PROVE  \E i \in DOMAIN rq : rq[i].type = type /\ rq[i].of = st
<1>1. PICK e : e = [type |-> type, of |-> st, n |-> 1]
  OBVIOUS
<1>2. e \in Called(st)
  BY <1>1 DEF Called, EntryOf
<1> QED
  BY <1>1, <1>2, Queued

LEMMA ApartFields ==
  ASSUME TypeOK, FieldsApart, Range(parsed) = config
  PROVE  OneField
<1>1. config \in Configs /\ ReadFields = Fields
  BY DEF TypeOK, ReadFields, Fields
<1>2. \A f, g \in Fields : Id(f) = Id(g) => f.strct = g.strct /\ f.name = g.name
  BY DEF Id
<1> QED
  BY <1>1, <1>2 DEF FieldsApart, OneField

\* Once the first pass is over, references are good and have their targets.
LEMMA ReferencesKnown ==
  ASSUME TypeOK, Queue, Linked, Range(parsed) = config, pass > 1,
         NEW f \in Fields, f.ref # NoName
  PROVE  RefGood(f) /\ target[Id(f)] = f.ref
<1>1. PICK i \in DOMAIN rq : rq[i].type = "foreign" /\ rq[i].of = f
  <2>1. f \in Range(parsed) /\ "foreign" \in Type /\ Calls("foreign", f, 1)
    BY DEF Fields, Type, Calls
  <2> QED
    BY <2>1, EntryThere
<1>2. PassOf(rq[i].type) = 1
  BY <1>1 DEF PassOf, Chained
<1>3. Safe(i)
  BY <1>2 DEF Safe, Passed
<1> QED
  BY <1>1, <1>3 DEF Linked, Fine, Set

\* Once the second is, so have "struct" fields.
LEMMA StructsKnown ==
  ASSUME TypeOK, Queue, Linked, FieldsApart, Range(parsed) = config, pass = 3
  PROVE  Resolved
<1>1. ASSUME NEW f \in Fields, f.type = "struct"
      PROVE  StructGood(f) /\ source[Id(f)] = f.source /\ target[Id(f)] = Field(Source(f)).ref
  <2>1. PICK i \in DOMAIN rq : rq[i].type = "struct" /\ rq[i].of = f
    <3>1. f \in Range(parsed) /\ "struct" \in Type /\ Calls("struct", f, 1)
      BY <1>1 DEF Fields, Type, Calls
    <3> QED
      BY <3>1, EntryThere
  <2>2. PassOf(rq[i].type) = 2
    BY <2>1 DEF PassOf, Chained
  <2>3. Safe(i)
    BY <2>2 DEF Safe, Passed
  <2> QED
    BY <2>1, <2>3 DEF Linked, Fine, Set
<1> QED
  BY <1>1, ApartFields DEF Resolved
------------------------------------------------------------------------------
(* The handling of an entry. *)

Stays == UNCHANGED <<config, parsed, rq, phase, pass, sets>>

\* An entry is handled, with success or without.
Handled(ok) ==
  /\ Linking
  /\ PassOf(rq[next].type) = pass
  /\ next' = next + 1
  /\ Stays
  /\ Tally(ok)
  /\ found \subseteq found' /\ found' \subseteq found \cup {next}

TablesTyped ==
  /\ source \in [FieldId -> Name \cup {NoName}]
  /\ target \in [FieldId -> FieldId \cup {NoName}]
  /\ returns \in [Searches -> Strct \cup {NoName}]
  /\ marks \subseteq Strct \X {"list", "iterate"}

\* What was set for other entries is left alone.
Kept == \A j \in DOMAIN rq : j # next /\ Set(j) => Set(j)'

\* What does not change with an entry.
LEMMA StaysSame ==
  ASSUME Stays
  PROVE  /\ Fields' = Fields /\ Searches' = Searches /\ Updates' = Updates
         /\ ReadFields' = ReadFields /\ ReadSearches' = ReadSearches
         /\ Queue' <=> Queue
         /\ Accepted' <=> Accepted
         /\ Good' <=> Good
         /\ \A e : Fine(e)' <=> Fine(e)
<1>1. /\ config' = config /\ parsed' = parsed /\ rq' = rq /\ phase' = phase /\ sets' = sets
  BY DEF Stays
<1>2. /\ Fields' = Fields /\ Searches' = Searches /\ Updates' = Updates /\ Uniques' = Uniques
      /\ ReadFields' = ReadFields /\ ReadSearches' = ReadSearches
      /\ \A s : Columns(s)' = Columns(s)
  BY <1>1, SameFields DEF ReadFields, ReadSearches
<1>3. Queue' <=> Queue
  BY <1>1 DEF Queue
<1>4. (FieldsApart' <=> FieldsApart) /\ (SearchesApart' <=> SearchesApart)
  BY <1>2 DEF FieldsApart, SearchesApart
<1>5. Unread' = Unread
  BY <1>1 DEF Unread
<1>6. Accepted' <=> Accepted
  BY <1>1, <1>2, <1>4, <1>5 DEF Accepted
<1> QED
  BY <1>1, <1>2, <1>3, <1>6, SameGood, SameFine

LEMMA StaysTyped ==
  ASSUME TypeOK, Stays, TablesTyped', next' \in 1..Len(rq) + 1, fails' \in 0..Len(rq),
         found' \subseteq 1..Len(rq)
  PROVE  TypeOK'
<1>1. /\ config' = config /\ parsed' = parsed /\ rq' = rq /\ phase' = phase /\ pass' = pass
      /\ sets' = sets
  BY DEF Stays
<1>2. sets' \in [Updates' -> SUBSET Name]
  BY <1>1, StaysSame DEF TypeOK
<1> QED
  BY <1>1, <1>2 DEF TypeOK, TablesTyped

LEMMA HandledKeeps ==
  ASSUME IInv, NEW ok \in BOOLEAN, Handled(ok), TablesTyped', Kept, UniqueApart', Marked',
         NEW i, i = next, ok => Fine(rq[i]) /\ Set(i)', ~ok => ~Good
  PROVE  IInv'
<1> USE DEF IInv
<1>1. Stays /\ rq' = rq /\ phase' = phase /\ pass' = pass /\ next' = next + 1
  BY DEF Handled, Stays
<1>2. PICK n \in Nat : n = Len(rq) /\ DOMAIN rq = 1..n
  BY Queued
<1>3. next \in 1..n /\ phase = "link" /\ fails \in 0..n /\ fails < next
  BY <1>2 DEF Handled, Linking, TypeOK, Stages
<1>4. fails' = IF ok THEN fails ELSE fails + 1
  BY DEF Handled, Tally
<1>5. TypeOK'
  <2>1. next' \in 1..n + 1 /\ fails' \in 0..n
    BY <1>1, <1>3, <1>4
  <2>2. found' \subseteq 1..n
    BY <1>2, <1>3 DEF Handled, TypeOK
  <2> QED
    BY <1>1, <1>2, <2>1, <2>2, StaysTyped
<1>6. Queue' /\ Accepted'
  BY <1>1, StaysSame
<1>7. Stages'
  <2>1. config' = config /\ parsed' = parsed
    BY DEF Handled, Stays
  <2>2. fails' < next'
    BY <1>1, <1>3, <1>4
  <2> QED
    BY <1>1, <1>3, <2>1, <2>2 DEF Stages
<1>8. \A j \in 1..n : Passed(j)' <=> Passed(j) \/ j = next
  <2>1. pass \in 1..3 /\ PassOf(rq[next].type) = pass
    BY DEF Handled, TypeOK
  <2>2. \A j \in 1..n : j < next + 1 <=> j < next \/ j = next
    BY <1>3
  <2>3. \A j : PassOf(rq[j].type)' = PassOf(rq[j].type)
    BY <1>1 DEF PassOf
  <2>4. PassOf(rq[next].type) = pass => ~(PassOf(rq[next].type) < pass)
    BY <2>1
  <2> QED
    BY <1>1, <1>3, <2>1, <2>2, <2>3, <2>4 DEF Passed
<1>9. Linked'
  <2>1. ASSUME NEW j \in 1..n, Safe(j)' PROVE Fine(rq[j])' /\ Set(j)'
    <3>1. CASE j = next
      <4>1. ok
        <5>1. PassOf(rq[j].type) = pass /\ pass \in 1..3
          BY <3>1 DEF Handled, TypeOK
        <5>2. PassOf(rq[j].type)' = PassOf(rq[j].type)
          BY <1>1 DEF PassOf
        <5>3. ~(PassOf(rq[j].type)' < pass')
          BY <1>1, <5>1, <5>2
        <5>4. fails' = 0
          BY <2>1, <5>3 DEF Safe
        <5> QED
          BY <1>3, <1>4, <5>4
      <4>2. Fine(rq[j]) /\ Set(j)'
        BY <3>1, <4>1
      <4> QED
        BY <1>1, <4>2, StaysSame
    <3>2. CASE j # next
      <4>1. Passed(j)
        BY <1>8, <2>1, <3>2 DEF Safe
      <4>2. fails' = 0 => fails = 0
        BY <1>3, <1>4
      <4>3. PassOf(rq[j].type)' = PassOf(rq[j].type)
        BY <1>1 DEF PassOf
      <4>4. Safe(j)
        BY <1>1, <2>1, <4>1, <4>2, <4>3 DEF Safe
      <4>5. Fine(rq[j]) /\ Set(j)
        BY <1>2, <4>4 DEF Linked
      <4> QED
        BY <1>1, <1>2, <3>2, <4>5, StaysSame DEF Kept
    <3> QED
      BY <3>1, <3>2
  <2>2. ASSUME NEW j \in found' PROVE Passed(j)'
    <3>1. j \in 1..n
      BY <1>2, <1>5, <1>1 DEF TypeOK
    <3>2. j \in found \/ j = next
      BY DEF Handled
    <3> QED
      BY <1>8, <3>1, <3>2 DEF Linked
  <2> QED
    BY <1>1, <1>2, <2>1, <2>2 DEF Linked
<1>10. FailuresBad'
  BY <1>1, <1>3, <1>4, StaysSame DEF FailuresBad
<1>11. OrderIrrelevant'
  BY <1>1, <1>3 DEF OrderIrrelevant
<1> QED
  BY <1>5, <1>6, <1>7, <1>9, <1>10, <1>11
\* The entry that is handled.
LEMMA AtEntry ==
  ASSUME IInv, Linking, NEW e, e = rq[next]
  PROVE  /\ config \in Configs /\ Range(parsed) = config /\ phase = "link"
         /\ next \in DOMAIN rq /\ DOMAIN rq = 1..Len(rq) /\ Len(rq) \in Nat
         /\ e.of \in config /\ e \in Called(e.of) /\ e.type \in Type /\ Calls(e.type, e.of, e.n)
         /\ ~Fine(e) => ~Good
         /\ FieldsApart /\ OneField
         /\ \A f \in Fields : FieldOptions(f)
<1> USE DEF IInv
<1>1. config \in Configs /\ Range(parsed) = config /\ phase = "link"
  BY DEF Linking, Stages, TypeOK
<1>2. next \in DOMAIN rq /\ DOMAIN rq = 1..Len(rq) /\ Len(rq) \in Nat
  BY Queued DEF Linking, TypeOK
<1>3. e.of \in config /\ e \in Called(e.of)
  BY <1>1, <1>2, Queued
<1>4. e.type \in Type /\ Calls(e.type, e.of, e.n)
  BY <1>3, CalledIs
<1>5. FieldsApart /\ \A f \in Fields : FieldOptions(f)
  BY <1>1 DEF Accepted, ReadFields, Fields
<1> QED
  BY <1>1, <1>2, <1>3, <1>4, <1>5, GoodFine, ApartFields

LEMMA ApartStays ==
  ASSUME UniqueApart, rq' = rq, found' \subseteq found \cup {next}, rq[next].type # "unique"
  PROVE  UniqueApart'
<1>1. ASSUME NEW i \in found', NEW j \in found', rq[i].type = "unique", rq[j].type = "unique",
             rq[i].of = rq[j].of, i # j
      PROVE  rq[i].of.fields[rq[i].n] # rq[j].of.fields[rq[j].n]
  <2>1. i \in found /\ j \in found
    BY <1>1
  <2> QED
    BY <1>1, <2>1 DEF UniqueApart
<1> QED
  BY <1>1 DEF UniqueApart

\* Entries passed after one is handled.
LEMMA PassedNow ==
  ASSUME IInv, NEW ok, Handled(ok), NEW i, i = next
  PROVE  \A j \in DOMAIN rq : Passed(j)' <=> Passed(j) \/ j = i
<1>1. next' = next + 1 /\ rq' = rq /\ pass' = pass
  BY DEF Handled, Stays
<1>2. next \in DOMAIN rq /\ DOMAIN rq \subseteq Nat
  BY AtEntry DEF Handled
<1>3. \A j : PassOf(rq[j].type)' = PassOf(rq[j].type)
  BY <1>1 DEF PassOf
<1>4. \A j \in DOMAIN rq : j < next + 1 <=> j < next \/ j = next
  BY <1>2
<1>5. pass \in 1..3 /\ PassOf(rq[next].type) = pass
  BY DEF Handled, IInv, TypeOK
<1> QED
  BY <1>1, <1>3, <1>4, <1>5 DEF Passed

LEMMA MarkedStays ==
  ASSUME IInv, NEW ok \in BOOLEAN, Handled(ok), rq[next].type # "distinct",
         UNCHANGED <<returns, marks>>
  PROVE  Marked'
<1>1. ReadSearches' = ReadSearches /\ rq' = rq /\ returns' = returns /\ marks' = marks
  BY StaysSame DEF Handled, Stays
<1>2. Known' = Known
  <2>1. PICK i : i = next
    OBVIOUS
  <2>2. \A j \in DOMAIN rq : rq[j].type = "distinct" => (Passed(j)' <=> Passed(j))
    BY <2>1, PassedNow
  <2> QED
    BY <1>1, <2>2 DEF Known
<1>3. fails' = 0 => fails = 0
  <2>1. fails \in Nat
    BY AtEntry DEF IInv, TypeOK, Handled
  <2> QED
    BY <2>1 DEF Handled, Tally
<1> QED
  BY <1>1, <1>2, <1>3 DEF IInv, Marked

\* An entry that has one result, and sets nothing else.
LEMMA ResultKeeps ==
  ASSUME IInv, NEW type \in Type \ {"foreign", "struct", "distinct"}, Handling(type),
         NEW set \in BOOLEAN, NEW ok \in BOOLEAN, Result(set, ok),
         UniqueApart', ok => set /\ Fine(rq[next]), ~ok => ~Good
  PROVE  IInv'
<1>1. Handled(ok)
  BY DEF Handling, Handled, Result, Stays
<1>2. UNCHANGED <<source, target, returns, marks>> /\ rq' = rq /\ config' = config
  BY DEF Handling, Result
<1>3. TablesTyped'
  BY <1>2, SameFields DEF IInv, TypeOK, TablesTyped
<1>4. Kept
  BY <1>1, <1>2, SameFields, SameReach DEF Kept, Set, Handled
<1>5. rq[next].type = type
  BY DEF Handling
<1>6. Marked'
  BY <1>1, <1>2, <1>5, MarkedStays
<1>7. PICK i : i = next
  OBVIOUS
<1>8. ok => Set(i)'
  BY <1>2, <1>5, <1>7 DEF Set, Result
<1> QED
  BY <1>1, <1>3, <1>4, <1>6, <1>7, <1>8, HandledKeeps
------------------------------------------------------------------------------
(* The entries that have one result. *)

LEMMA EnumKeeps ==
  ASSUME IInv, ResolveEnum
  PROVE  IInv'
<1> DEFINE e == rq[next]
           ok == e.of.names \in DOMAIN Item
<1>1. Handling("enum") /\ Result(ok, ok)
  BY DEF ResolveEnum, Entry
<1>2. e.type = "enum" /\ Linking /\ "enum" \in Type \ {"foreign", "struct", "distinct"}
  BY <1>1 DEF Handling, Type
<1>3. ok <=> Fine(e)
  BY <1>2 DEF Fine
<1>4. UniqueApart'
  BY <1>1, <1>2, ApartStays DEF IInv, Handling, Result
<1>5. ok \in BOOLEAN
  OBVIOUS
<1> HIDE DEF ok
<1>6. ~ok => ~Good
  BY <1>2, <1>3, AtEntry
<1> QED
  BY <1>1, <1>2, <1>3, <1>4, <1>5, <1>6, ResultKeeps

LEMMA BitsKeeps ==
  ASSUME IInv, ResolveBits
  PROVE  IInv'
<1> DEFINE e == rq[next]
           ok == e.of.names \in Bitf
<1>1. Handling("bits") /\ Result(ok, ok)
  BY DEF ResolveBits, Entry
<1>2. e.type = "bits" /\ Linking /\ "bits" \in Type \ {"foreign", "struct", "distinct"}
  BY <1>1 DEF Handling, Type
<1>3. ok <=> Fine(e)
  BY <1>2 DEF Fine
<1>4. UniqueApart'
  BY <1>1, <1>2, ApartStays DEF IInv, Handling, Result
<1>5. ok \in BOOLEAN
  OBVIOUS
<1> HIDE DEF ok
<1>6. ~ok => ~Good
  BY <1>2, <1>3, AtEntry
<1> QED
  BY <1>1, <1>2, <1>3, <1>4, <1>5, <1>6, ResultKeeps

LEMMA DefaultKeeps ==
  ASSUME IInv, ResolveDefault
  PROVE  IInv'
<1> DEFINE e == rq[next]
           ok == e.of.default \in Item[e.of.names]
<1>1. Handling("default") /\ Result(ok, ok)
  BY DEF ResolveDefault, Entry
<1>2. e.type = "default" /\ Linking /\ "default" \in Type \ {"foreign", "struct", "distinct"}
  BY <1>1 DEF Handling, Type
<1>3. ok <=> Fine(e)
  BY <1>2 DEF Fine
<1>4. UniqueApart'
  BY <1>1, <1>2, ApartStays DEF IInv, Handling, Result
<1>5. ok \in BOOLEAN
  OBVIOUS
<1> HIDE DEF ok
<1>6. ~ok => ~Good
  BY <1>2, <1>3, AtEntry
<1> QED
  BY <1>1, <1>2, <1>3, <1>4, <1>5, <1>6, ResultKeeps

\* The column of a name.
LEMMA ColumnOf ==
  ASSUME config \in Configs, OneField, NEW s, NEW x, NEW id, id = <<s, x>>
  PROVE  \A f : f \in Columns(s) /\ f.name = x <=>
                  HasField(id) /\ Field(id).type # "struct" /\ f = Field(id)
<1>1. \A f \in Fields : f.strct = s /\ f.name = x <=> Id(f) = id
  BY FieldFacts
<1>2. \A f \in Fields : Id(f) = id <=> HasField(id) /\ f = Field(id)
  BY FieldIs, FieldOfId
<1>3. HasField(id) => Field(id) \in Fields
  BY FieldIs
<1> QED
  BY <1>1, <1>2, <1>3 DEF Columns

LEMMA ModifierKeeps ==
  ASSUME IInv, ResolveModifier
  PROVE  IInv'
<1> DEFINE e == rq[next]
           m == e.of.mods[e.n]
           id == <<e.of.strct, m.name>>
           set == HasField(id)
           ok == /\ HasField(id)
                 /\ Field(id).type # "struct"
                 /\ m.mod = "concat" => Field(id).type = "text"
                 /\ m.mod = "inc" => Field(id).type \in {"int", "enum", "bits"}
<1>1. Handling("modifier") /\ Result(set, ok)
  BY DEF ResolveModifier, Entry
<1>2. e.type = "modifier" /\ Linking /\ "modifier" \in Type \ {"foreign", "struct", "distinct"}
  BY <1>1 DEF Handling, Type
<1>3. \A f : f \in Columns(e.of.strct) /\ f.name = m.name <=>
               HasField(id) /\ Field(id).type # "struct" /\ f = Field(id)
  <2> HIDE DEF id
  <2>1. config \in Configs /\ OneField
    BY <1>2, AtEntry
  <2> QED
    BY <2>1, ColumnOf DEF id
<1>4. ok <=> ModGood(e.of, m)
  <2> HIDE DEF e, m, id
  <2> QED
    BY <1>3 DEF ModGood
<1>5. ok <=> Fine(e)
  <2> HIDE DEF ok, id
  <2> QED
    BY <1>2, <1>4 DEF Fine
<1>6. UniqueApart'
  BY <1>1, <1>2, ApartStays DEF IInv, Handling, Result
<1>7. ok \in BOOLEAN /\ set \in BOOLEAN /\ (ok => set)
  BY DEF HasField
<1> HIDE DEF ok, set
<1>8. ~ok => ~Good
  BY <1>2, <1>5, AtEntry
<1> QED
  BY <1>1, <1>2, <1>5, <1>6, <1>7, <1>8, ResultKeeps

LEMMA ConstraintKeeps ==
  ASSUME IInv, ResolveConstraint
  PROVE  IInv'
<1> DEFINE e == rq[next]
           w == e.of.where[e.n]
           id == <<e.of.strct, w.name>>
           set == HasField(id)
           ok == /\ HasField(id)
                 /\ Field(id).type # "struct"
                 /\ Field(id).type = "password" => w.op \in {"streq", "notnull"}
                 /\ w.op = "like" => Field(id).type = "text"
<1>1. Handling("constraint") /\ Result(set, ok)
  BY DEF ResolveConstraint, Entry
<1>2. e.type = "constraint" /\ Linking /\ "constraint" \in Type \ {"foreign", "struct", "distinct"}
  BY <1>1 DEF Handling, Type
<1>3. \A f : f \in Columns(e.of.strct) /\ f.name = w.name <=>
               HasField(id) /\ Field(id).type # "struct" /\ f = Field(id)
  <2> HIDE DEF id
  <2>1. config \in Configs /\ OneField
    BY <1>2, AtEntry
  <2> QED
    BY <2>1, ColumnOf DEF id
<1>4. ok <=> WhereGood(e.of, w)
  <2> HIDE DEF e, w, id
  <2> QED
    BY <1>3 DEF WhereGood
<1>5. ok <=> Fine(e)
  <2> HIDE DEF ok, id
  <2> QED
    BY <1>2, <1>4 DEF Fine
<1>6. UniqueApart'
  BY <1>1, <1>2, ApartStays DEF IInv, Handling, Result
<1>7. ok \in BOOLEAN /\ set \in BOOLEAN /\ (ok => set)
  BY DEF HasField
<1> HIDE DEF ok, set
<1>8. ~ok => ~Good
  BY <1>2, <1>5, AtEntry
<1> QED
  BY <1>1, <1>2, <1>5, <1>6, <1>7, <1>8, ResultKeeps

\* A field of a "unique" clause has to be new to it.
LEMMA UniqueKeeps ==
  ASSUME IInv, ResolveUnique
  PROVE  IInv'
<1> DEFINE e == rq[next]
           name == e.of.fields[e.n]
           id == <<e.of.strct, name>>
           new == \A i \in found : rq[i].type = "unique" /\ rq[i].of = e.of =>
                                     e.of.fields[rq[i].n] # name
           ok == HasField(id) /\ Field(id).type # "struct" /\ new
<1>1. Handling("unique") /\ Result(ok, ok)
  BY DEF ResolveUnique, Entry
<1>2. e.type = "unique" /\ Linking /\ "unique" \in Type \ {"foreign", "struct", "distinct"}
  BY <1>1 DEF Handling, Type
<1>3. \A f : f \in Columns(e.of.strct) /\ f.name = name <=>
               HasField(id) /\ Field(id).type # "struct" /\ f = Field(id)
  <2> HIDE DEF id
  <2>1. config \in Configs /\ OneField
    BY <1>2, AtEntry
  <2> QED
    BY <2>1, ColumnOf DEF id
<1>4. ok <=> Fine(e) /\ new
  <2> HIDE DEF id, new
  <2> QED
    BY <1>2, <1>3 DEF Fine
<1>5. ok \in BOOLEAN
  BY DEF HasField
<1>6. next \in DOMAIN rq /\ DOMAIN rq \subseteq Nat
  BY <1>2, AtEntry
<1>7. ASSUME NEW i \in found, rq[i].type = "unique", rq[i].of = e.of, e.of.fields[rq[i].n] = name
      PROVE  ~Good
  <2>1. i \in DOMAIN rq /\ i # next
    <3>1. i \in DOMAIN rq
      BY <1>2, AtEntry DEF IInv, TypeOK
    <3>2. Passed(i) /\ PassOf(e.type) = pass /\ pass \in Nat
      <4>1. Linked /\ pass \in Nat
        BY DEF IInv, TypeOK
      <4> QED
        BY <1>1, <4>1 DEF Linked, Handling
    <3>3. i = next => FALSE
      BY <1>6, <3>2 DEF Passed
    <3> QED
      BY <3>1, <3>3
  <2>2. rq[i] # rq[next]
    BY <1>6, <2>1 DEF IInv, Queue, IsInjective
  <2>3. rq[i] \in Called(e.of) /\ e \in Called(e.of) /\ e.of \in config /\ config \in Configs
    BY <1>2, <1>7, <2>1, Queued, AtEntry DEF IInv
  <2>4. rq[i].n # e.n
    BY <1>2, <1>7, <2>2, <2>3 DEF Called, EntryOf
  <2>5. e.of \in Uniques /\ rq[i].n \in 1..Len(e.of.fields) /\ e.n \in 1..Len(e.of.fields)
    BY <1>2, <1>7, <2>3, CalledIs DEF Calls
  <2>6. ~IsInjective(e.of.fields)
    <3>1. e.of.fields \in Seq(Name)
      BY <2>3, <2>5, UniqueFacts
    <3> QED
      BY <1>7, <2>4, <2>5, <3>1 DEF IsInjective
  <2> QED
    BY <2>5, <2>6 DEF Good, UniqueGood
<1>8. ~new => ~Good
  BY <1>7
<1>9. UniqueApart'
  <2>1. found' = IF ok THEN found \cup {next} ELSE found
    BY <1>1 DEF Result
  <2>2. rq' = rq
    BY <1>1 DEF Handling
  <2>3. ASSUME NEW i \in found', NEW j \in found', rq[i].type = "unique", rq[j].type = "unique",
               rq[i].of = rq[j].of, i # j
        PROVE  rq[i].of.fields[rq[i].n] # rq[j].of.fields[rq[j].n]
    <3> HIDE DEF ok
    <3>1. CASE i \in found /\ j \in found
      BY <2>3, <3>1 DEF IInv, UniqueApart
    <3>2. CASE ~(i \in found /\ j \in found)
      <4>1. ok
        BY <2>1, <3>2
      <4>2. (i = next /\ j \in found) \/ (j = next /\ i \in found)
        BY <2>1, <2>3, <3>2
      <4>3. new
        BY <4>1 DEF ok
      <4> QED
        BY <2>3, <4>2, <4>3
    <3> QED
      BY <3>1, <3>2
  <2> QED
    BY <2>2, <2>3 DEF UniqueApart
<1> HIDE DEF ok, new
<1>10. ~ok => ~Good
  BY <1>2, <1>4, <1>8, AtEntry
<1> QED
  BY <1>1, <1>2, <1>4, <1>5, <1>9, <1>10, ResultKeeps
------------------------------------------------------------------------------
(* The entries of references and of "struct" fields. *)

FieldType == {"foreign", "struct"}

\* They are of different fields.
LEMMA OtherField ==
  ASSUME IInv, Linking, rq[next].type \in FieldType,
         NEW j \in DOMAIN rq, j # next, rq[j].type \in FieldType
  PROVE  rq[next].of \in Fields /\ rq[j].of \in Fields /\ Id(rq[j].of) # Id(rq[next].of)
<1>1. /\ config \in Configs /\ OneField /\ next \in DOMAIN rq
      /\ \A f \in Fields : FieldOptions(f)
  BY AtEntry
<1>2. ASSUME NEW i \in DOMAIN rq, rq[i].type \in FieldType
      PROVE  /\ rq[i].of \in Fields /\ rq[i] \in Called(rq[i].of) /\ rq[i].n = 1
             /\ rq[i].type = "foreign" => rq[i].of.ref # NoName
             /\ rq[i].type = "struct" => rq[i].of.type = "struct"
  <2>1. rq[i] \in Called(rq[i].of)
    BY Queued DEF IInv
  <2> QED
    BY <1>2, <2>1, CalledIs DEF Calls, FieldType
<1>3. SUFFICES ASSUME Id(rq[j].of) = Id(rq[next].of) PROVE FALSE
  BY <1>1, <1>2
<1>4. rq[j].of = rq[next].of
  BY <1>1, <1>2, <1>3 DEF OneField
<1>5. rq[j].type = rq[next].type
  BY <1>1, <1>2, <1>4 DEF FieldOptions, FieldType
<1>6. rq[j] = rq[next]
  BY <1>1, <1>2, <1>4, <1>5 DEF Called, EntryOf
<1> QED
  BY <1>1, <1>6 DEF IInv, Queue, IsInjective

\* An entry that sets the tables of its field and nothing else.
LEMMA FieldKeeps ==
  ASSUME IInv, NEW type \in FieldType, Handling(type), NEW ok \in BOOLEAN, Tally(ok),
         UNCHANGED <<found, returns, marks>>,
         source' \in [FieldId -> Name \cup {NoName}],
         target' \in [FieldId -> FieldId \cup {NoName}],
         NEW i, i = next,
         \A id \in FieldId : id # Id(rq[i].of) => source'[id] = source[id] /\ target'[id] = target[id],
         ok => Fine(rq[i]) /\ Set(i)', ~ok => ~Good
  PROVE  IInv'
<1>1. Handled(ok)
  BY DEF Handling, Handled, Stays
<1>2. /\ rq' = rq /\ config' = config /\ found' = found /\ returns' = returns /\ marks' = marks
      /\ rq[next].type = type /\ Linking
  BY DEF Handling
<1>3. TablesTyped'
  BY <1>2, SameFields DEF IInv, TypeOK, TablesTyped
<1>4. Kept
  <2>1. SUFFICES ASSUME NEW j \in DOMAIN rq, j # next, Set(j) PROVE Set(j)'
    BY DEF Kept
  <2>2. ASSUME rq[j].type \in FieldType
        PROVE  /\ source'[Id(rq[j].of)] = source[Id(rq[j].of)]
               /\ target'[Id(rq[j].of)] = target[Id(rq[j].of)]
    <3>1. config \in Configs
      BY DEF IInv, TypeOK
    <3>2. rq[j].of \in Fields /\ Id(rq[j].of) # Id(rq[i].of)
      BY <1>2, <2>1, <2>2, OtherField
    <3> QED
      BY <3>1, <3>2, FieldFacts
  <2> QED
    BY <1>2, <2>1, <2>2, SameFields, SameReach DEF Set, FieldType
<1>5. UniqueApart' /\ Marked'
  BY <1>1, <1>2, ApartStays, MarkedStays DEF IInv, FieldType
<1> QED
  BY <1>1, <1>3, <1>4, <1>5, HandledKeeps

LEMMA ForeignKeeps ==
  ASSUME IInv, ResolveForeign
  PROVE  IInv'
<1> DEFINE e == rq[next]
           f == e.of
           has == HasField(f.ref)
           ok == /\ has
                 /\ Field(f.ref).opts \cap {"rowid", "unique"} # {}
                 /\ Field(f.ref).type = f.type
<1>1. /\ Handling("foreign") /\ Tally(ok)
      /\ target' = IF has THEN [target EXCEPT ![Id(f)] = f.ref] ELSE target
      /\ UNCHANGED <<found, source, returns, marks>>
  BY DEF ResolveForeign, Entry
<1>2. e.type = "foreign" /\ Linking /\ "foreign" \in FieldType
  BY <1>1 DEF Handling, FieldType
<1>3. ok <=> Fine(e)
  BY <1>2 DEF Fine, RefGood
<1>4. ok \in BOOLEAN /\ (ok => has)
  BY DEF HasField
<1>5. config \in Configs /\ f \in Fields /\ e \in Called(f) /\ (~Fine(e) => ~Good)
  BY <1>2, AtEntry DEF Calls
<1>6. /\ source \in [FieldId -> Name \cup {NoName}] /\ target \in [FieldId -> FieldId \cup {NoName}]
  BY DEF IInv, TypeOK
<1>7. has => f.ref \in FieldId
  BY <1>5, FieldFacts DEF HasField
<1>8. Id(f) \in FieldId
  BY <1>5, FieldFacts
<1> HIDE DEF ok, has
<1>9. target' \in [FieldId -> FieldId \cup {NoName}]
  BY <1>1, <1>6, <1>7
<1>10. \A id \in FieldId : id # Id(f) => source'[id] = source[id] /\ target'[id] = target[id]
  BY <1>1, <1>6
<1>11. PICK i : i = next
  OBVIOUS
<1>12. ok => Set(i)'
  <2>1. has => target'[Id(f)] = f.ref
    BY <1>1, <1>6, <1>8
  <2>2. rq' = rq
    BY <1>1 DEF Handling
  <2> QED
    BY <1>2, <1>4, <1>11, <2>1, <2>2 DEF Set
<1> QED
  BY <1>1, <1>2, <1>3, <1>4, <1>5, <1>6, <1>9, <1>10, <1>11, <1>12, FieldKeeps
LEMMA StructKeeps ==
  ASSUME IInv, ResolveStruct
  PROVE  IInv'
<1> DEFINE e == rq[next]
           f == e.of
           src == <<f.strct, f.source>>
           g == Field(src)
           has == HasField(src)
           isRef == has /\ g.type # "struct" /\ g.ref # NoName
           ok == isRef /\ target[src] # NoName
<1>1. /\ Handling("struct") /\ Tally(ok)
      /\ source' = IF has THEN [source EXCEPT ![Id(f)] = f.source] ELSE source
      /\ target' = IF isRef THEN [target EXCEPT ![Id(f)] = target[src]] ELSE target
      /\ UNCHANGED <<found, returns, marks>>
  BY DEF ResolveStruct, Entry
<1>2. e.type = "struct" /\ Linking /\ "struct" \in FieldType /\ pass = 2
  BY <1>1 DEF Handling, FieldType, PassOf, Chained
<1>3. /\ config \in Configs /\ f \in Fields /\ (~Fine(e) => ~Good) /\ f.type = "struct"
      /\ Range(parsed) = config /\ \A h \in Fields : FieldOptions(h)
  BY <1>2, AtEntry DEF Calls
<1>4. src = Source(f) /\ g = Field(Source(f))
  BY DEF Source
<1>5. has => g \in Fields /\ Id(g) = src /\ src \in FieldId
  BY <1>3, FieldIs, FieldFacts
<1>6. has /\ g.ref # NoName => RefGood(g) /\ target[src] = g.ref /\ g.type # "struct"
  <2>1. pass > 1 /\ TypeOK /\ Queue /\ Linked
    BY <1>2 DEF IInv
  <2>2. has /\ g.ref # NoName => RefGood(g) /\ target[Id(g)] = g.ref
    BY <1>3, <1>5, <2>1, ReferencesKnown
  <2>3. has /\ g.ref # NoName => g.type # "struct"
    BY <1>3, <1>5 DEF FieldOptions
  <2> HIDE DEF g
  <2> QED
    BY <1>5, <2>2, <2>3
<1>7. ok <=> Fine(e)
  <2>1. ok <=> StructGood(f)
    BY <1>4, <1>6 DEF StructGood
  <2> QED
    BY <1>2, <2>1 DEF Fine
<1>8. ok \in BOOLEAN /\ isRef \in BOOLEAN /\ (ok => isRef) /\ (isRef => has /\ g.ref # NoName)
  BY DEF HasField
<1>9. f.source \in Name /\ Id(f) \in FieldId
  BY <1>3, FieldFacts
<1>10. /\ source \in [FieldId -> Name \cup {NoName}] /\ target \in [FieldId -> FieldId \cup {NoName}]
  BY DEF IInv, TypeOK
<1> HIDE DEF ok, isRef, has, g, src
<1>11. /\ source' \in [FieldId -> Name \cup {NoName}]
       /\ target' \in [FieldId -> FieldId \cup {NoName}]
  BY <1>1, <1>5, <1>8, <1>9, <1>10
<1>12. \A id \in FieldId : id # Id(f) => source'[id] = source[id] /\ target'[id] = target[id]
  BY <1>1, <1>10
<1>13. PICK i : i = next
  OBVIOUS
<1>14. ok => Set(i)'
  <2>1. ok => source'[Id(f)] = f.source /\ target'[Id(f)] = g.ref
    BY <1>1, <1>6, <1>8, <1>9, <1>10
  <2>2. rq' = rq /\ config' = config
    BY <1>1 DEF Handling
  <2> QED
    BY <1>2, <1>4, <1>13, <2>1, <2>2, SameFields DEF Set, Source
<1> QED
  BY <1>1, <1>2, <1>3, <1>7, <1>8, <1>11, <1>12, <1>13, <1>14, FieldKeeps
------------------------------------------------------------------------------
(* The entries that follow "struct" fields. *)

\* Where the chain of an entry ends.
LEMMA EntryChain ==
  ASSUME IInv, Linking, NEW e, e = rq[next], e.type \in Chained, PassOf(e.type) = pass
  PROVE  /\ Resolved /\ e.of \in Searches /\ Names(e) \in Chain
         /\ Terminal = ChainEnd(e.of.strct, Names(e))
<1>1. pass = 3
  BY DEF PassOf, Chained
<1>2. Resolved
  BY <1>1, AtEntry, StructsKnown DEF IInv
<1>3. e.of \in Searches
  BY AtEntry DEF Calls, Chained
<1>4. Names(e) \in Chain
  <2>1. Calls(e.type, e.of, e.n) /\ e.of.stmt = "search" /\ config \in Configs
    BY <1>3, AtEntry DEF Searches
  <2>2. /\ e.of.terms \in Seq([chain : Chain, op : Op]) /\ e.of.order \in Seq(Chain)
        /\ e.of.aggr \in MayChain /\ e.of.group \in MayChain /\ e.of.distinct \in MayChain
    BY <1>3, <2>1, SearchFacts
  <2>3. \/ e.type = "term" /\ e.n \in 1..Len(e.of.terms)
        \/ e.type = "order" /\ e.n \in 1..Len(e.of.order)
        \/ e.type = "aggr" /\ e.of.aggr # <<>>
        \/ e.type = "grouprow" /\ e.of.group # <<>>
        \/ e.type = "distinct" /\ e.of.distinct # <<>>
    BY <2>1 DEF Calls, Fields, Updates, Uniques, Chained
  <2>4. CASE e.type = "term"
    <3>1. e.n \in 1..Len(e.of.terms)
      BY <2>3, <2>4
    <3>2. e.of.terms[e.n] \in [chain : Chain, op : Op]
      BY <2>2, <3>1, ElementOfSeq
    <3> QED
      BY <2>4, <3>2 DEF Names
  <2>5. CASE e.type = "order"
    <3>1. e.of.order[e.n] \in Chain
      BY <2>2, <2>3, <2>5
    <3> QED
      BY <2>5, <3>1 DEF Names
  <2>6. CASE e.type \in {"aggr", "grouprow", "distinct"}
    BY <2>2, <2>3, <2>6 DEF Names, Chain, MayChain
  <2> QED
    BY <2>3, <2>4, <2>5, <2>6
<1>5. Terminal = ChainEnd(e.of.strct, Names(e))
  BY DEF Terminal, Entry
<1> QED
  BY <1>2, <1>3, <1>4, <1>5

\* What is at the end of the chain.
LEMMA EntryEnds ==
  ASSUME IInv, Linking, NEW e, e = rq[next], e.type \in Chained, PassOf(e.type) = pass
  PROVE  /\ IsColumn <=> ColumnsAt(e.of, Names(e)) # {}
         /\ IsGroupable <=> GroupsBy(e.of, Names(e))
<1>1. config \in Configs /\ Resolved
  BY EntryChain, AtEntry
<1>2. ColumnsAt(e.of, Names(e)) =
        {f \in Fields : HasField(Terminal) /\ Field(Terminal).type # "struct" /\ f = Field(Terminal)}
  BY <1>1, EntryChain, ChainFinds
<1>3. HasField(Terminal) => Field(Terminal) \in Fields
  BY FieldIs
<1>4. IsColumn <=> ColumnsAt(e.of, Names(e)) # {}
  BY <1>2, <1>3 DEF IsColumn
<1>5. IsGroupable <=> GroupsBy(e.of, Names(e))
  BY <1>2, <1>3 DEF IsColumn, IsGroupable, GroupsBy
<1> QED
  BY <1>4, <1>5

LEMMA ColumnKeeps ==
  ASSUME IInv, ResolveTerm \/ ResolveOrder
  PROVE  IInv'
<1>1. PICK type \in {"term", "order"} : Handling(type) /\ Result(IsColumn, IsColumn)
  BY DEF ResolveTerm, ResolveOrder
<1> DEFINE e == rq[next]
<1>2. /\ e.type \in {"term", "order"} /\ e.type \in Chained /\ PassOf(e.type) = pass /\ Linking
      /\ type \in Type \ {"foreign", "struct", "distinct"}
  BY <1>1 DEF Handling, Type, Chained
<1>3. IsColumn <=> ColumnsAt(e.of, Names(e)) # {}
  BY <1>2, EntryEnds
<1>4. IsColumn <=> Fine(e)
  BY <1>2, <1>3 DEF Fine
<1>5. UniqueApart'
  BY <1>1, <1>2, ApartStays DEF IInv, Handling, Result
<1>6. IsColumn \in BOOLEAN
  BY DEF IsColumn
<1>7. ~IsColumn => ~Good
  BY <1>2, <1>4, AtEntry
<1> QED
  BY <1>1, <1>2, <1>4, <1>5, <1>6, <1>7, ResultKeeps

LEMMA GroupKeeps ==
  ASSUME IInv, ResolveAggr \/ ResolveGrouprow
  PROVE  IInv'
<1>1. PICK type \in {"aggr", "grouprow"} : Handling(type) /\ Result(IsGroupable, IsGroupable)
  BY DEF ResolveAggr, ResolveGrouprow
<1> DEFINE e == rq[next]
<1>2. /\ e.type \in {"aggr", "grouprow"} /\ e.type \in Chained /\ PassOf(e.type) = pass /\ Linking
      /\ type \in Type \ {"foreign", "struct", "distinct"}
  BY <1>1 DEF Handling, Type, Chained
<1>3. IsGroupable <=> GroupsBy(e.of, Names(e))
  BY <1>2, EntryEnds
<1>4. IsGroupable <=> Fine(e)
  BY <1>2, <1>3 DEF Fine
<1>5. UniqueApart'
  BY <1>1, <1>2, ApartStays DEF IInv, Handling, Result
<1>6. IsGroupable \in BOOLEAN
  BY DEF IsGroupable
<1>7. ~IsGroupable => ~Good
  BY <1>2, <1>4, AtEntry
<1> QED
  BY <1>1, <1>2, <1>4, <1>5, <1>6, <1>7, ResultKeeps
\* A search has one entry for what it returns.
LEMMA OtherSearch ==
  ASSUME IInv, Linking, rq[next].type = "distinct",
         NEW j \in DOMAIN rq, j # next, rq[j].type = "distinct"
  PROVE  rq[j].of # rq[next].of
<1>1. next \in DOMAIN rq
  BY AtEntry
<1>2. ASSUME NEW i \in DOMAIN rq, rq[i].type = "distinct"
      PROVE  rq[i] \in Called(rq[i].of) /\ rq[i].n = 1
  <2>1. rq[i] \in Called(rq[i].of)
    BY Queued DEF IInv
  <2> QED
    BY <1>2, <2>1, CalledIs DEF Calls
<1>3. SUFFICES ASSUME rq[j].of = rq[next].of PROVE FALSE
  OBVIOUS
<1>4. rq[j] = rq[next]
  BY <1>1, <1>2, <1>3 DEF Called, EntryOf
<1> QED
  BY <1>1, <1>4 DEF IInv, Queue, IsInjective

LEMMA DistinctKeeps ==
  ASSUME IInv, ResolveDistinct
  PROVE  IInv'
<1> DEFINE e == rq[next]
           s == e.of
           id == Terminal
           ok == MayDescend(id)
           ret == target[id][1]
           mark == ok /\ s.kind \in {"list", "iterate"}
<1>1. /\ Handling("distinct") /\ Tally(ok)
      /\ returns' = IF ok THEN [returns EXCEPT ![s] = ret] ELSE returns
      /\ marks' = IF mark THEN marks \cup {<<ret, s.kind>>} ELSE marks
      /\ UNCHANGED <<found, source, target>>
  BY DEF ResolveDistinct, Entry
<1>2. e.type = "distinct" /\ Linking /\ e.type \in Chained /\ PassOf(e.type) = pass
  BY <1>1 DEF Handling, Chained
<1>3. config \in Configs /\ next \in DOMAIN rq /\ Resolved /\ s \in Searches /\ (~Fine(e) => ~Good)
  BY <1>2, AtEntry, EntryChain
<1>4. s.distinct # <<>> /\ s.distinct \in Chain /\ id = ChainEnd(s.strct, s.distinct)
  <2>1. Names(e) = s.distinct
    BY <1>2 DEF Names
  <2> QED
    BY <1>2, <2>1, EntryChain DEF Chain
<1>5. /\ ok => ret \in Strct /\ Reach(s.strct, s.distinct) = {ret}
      /\ ~ok => Reach(s.strct, s.distinct) = {}
  BY <1>3, <1>4, ChainFinds
<1>6. ok <=> Fine(e)
  BY <1>2, <1>5 DEF Fine
<1>7. ok \in BOOLEAN
  BY DEF MayDescend, HasField
<1>8. Handled(ok) /\ rq' = rq /\ config' = config
  <2> HIDE DEF ok
  <2> QED
    BY <1>1 DEF Handling, Handled, Stays
<1>9. returns \in [Searches -> Strct \cup {NoName}] /\ marks \subseteq Strct \X {"list", "iterate"}
  BY DEF IInv, TypeOK
<1> HIDE DEF ok, ret
<1>10. TablesTyped'
  <2> HIDE DEF e, s, id
  <2>1. returns' \in [Searches -> Strct \cup {NoName}]
    BY <1>1, <1>5, <1>9
  <2>2. mark => <<ret, s.kind>> \in Strct \X {"list", "iterate"}
    BY <1>5
  <2>3. marks' \subseteq Strct \X {"list", "iterate"}
    BY <1>1, <1>9, <2>2
  <2> QED
    BY <1>1, <1>8, <2>1, <2>3, SameFields DEF IInv, TypeOK, TablesTyped
<1>11. \A t \in Searches : t # s => returns'[t] = returns[t]
  BY <1>1, <1>9
<1>12. ok => returns'[s] = ret
  BY <1>1, <1>3, <1>9
<1>13. Kept
  <2>1. SUFFICES ASSUME NEW j \in DOMAIN rq, j # next, Set(j) PROVE Set(j)'
    BY DEF Kept
  <2>2. ASSUME rq[j].type = "distinct" PROVE returns'[rq[j].of] = returns[rq[j].of]
    <3>1. rq[j].of # s
      BY <1>2, <2>1, <2>2, OtherSearch
    <3>2. rq[j].of \in Searches
      <4>1. rq[j] \in Called(rq[j].of)
        BY Queued DEF IInv
      <4> QED
        BY <2>2, <4>1, CalledIs DEF Calls
    <3> QED
      BY <1>11, <3>1, <3>2
  <2> QED
    BY <1>1, <1>8, <2>1, <2>2, SameFields, SameReach DEF Set
<1>14. UniqueApart'
  BY <1>1, <1>2, <1>8, ApartStays DEF IInv
<1>15. PICK i : i = next
  OBVIOUS
<1>16. ok => Set(i)'
  BY <1>2, <1>5, <1>8, <1>12, <1>15, SameReach DEF Set
<1>17. Marked'
  <2>1. ReadSearches' = ReadSearches /\ ReadSearches = Searches
    BY <1>2, <1>8, StaysSame, AtEntry DEF Handled, ReadSearches, Searches
  <2>2. s \notin Known
    <3>1. ASSUME NEW j \in DOMAIN rq, rq[j].type = "distinct", rq[j].of = s, Passed(j) PROVE FALSE
      <4>1. j = next
        BY <1>2, <3>1, OtherSearch
      <4>2. pass \in Nat /\ next \in Nat
        BY DEF IInv, TypeOK
      <4> QED
        BY <1>2, <3>1, <4>1, <4>2 DEF Passed
    <3> QED
      BY <1>4, <3>1 DEF Known
  <2>3. Known' = Known \cup {s}
    <3>1. \A j \in DOMAIN rq : Passed(j)' <=> Passed(j) \/ j = i
      BY <1>8, <1>15, PassedNow
    <3> QED
      BY <1>2, <1>3, <1>8, <1>15, <2>1, <3>1 DEF Known
  <2>4. \A t \in Known : t # s /\ returns'[t] = returns[t]
    BY <1>11, <2>1, <2>2 DEF Known
  <2>5. \A t \in ReadSearches : t.distinct = <<>> => returns'[t] = t.strct
    <3>1. \A t \in ReadSearches : t.distinct = <<>> => returns[t] = t.strct
      BY DEF IInv, Marked
    <3> QED
      BY <1>4, <1>11, <2>1, <3>1
  <2>6. ASSUME fails' = 0
        PROVE  marks' = {<<returns'[t], t.kind>> : t \in {t \in Known \cup {s} : t.kind \in {"list", "iterate"}}}
    <3>1. ok /\ fails = 0
      <4>1. fails \in Nat
        BY DEF IInv, TypeOK
      <4> QED
        BY <1>1, <2>6, <4>1 DEF Tally
    <3>2. marks = {<<returns[t], t.kind>> : t \in {t \in Known : t.kind \in {"list", "iterate"}}}
      BY <3>1 DEF IInv, Marked
    <3>3. marks = {<<returns'[t], t.kind>> : t \in {t \in Known : t.kind \in {"list", "iterate"}}}
      BY <2>4, <3>2
    <3> QED
      BY <1>1, <1>12, <3>1, <3>3
  <2> QED
    BY <2>1, <2>3, <2>5, <2>6 DEF Marked
<1> QED
  BY <1>6, <1>3, <1>7, <1>8, <1>10, <1>13, <1>14, <1>15, <1>16, <1>17, HandledKeeps
------------------------------------------------------------------------------
(* The steps between entries and passes. *)

LEMMA QuietKeeps ==
  ASSUME IInv, UNCHANGED <<config, parsed, rq, fails, found, tables>>,
         TypeOK', Accepted', Stages', OrderIrrelevant',
         \A j \in DOMAIN rq : (Passed(j)' <=> Passed(j)) /\ (Safe(j)' => Safe(j))
  PROVE  IInv'
<1> USE DEF IInv
<1>1. /\ config' = config /\ parsed' = parsed /\ rq' = rq /\ fails' = fails /\ found' = found
      /\ source' = source /\ target' = target /\ returns' = returns /\ marks' = marks
  BY DEF tables
<1>2. Queue' /\ UniqueApart'
  BY <1>1 DEF Queue, UniqueApart
<1>3. Linked'
  <2>1. \A j \in DOMAIN rq : Set(j)' <=> Set(j)
    BY <1>1, SameFields, SameReach DEF Set
  <2>2. found \subseteq DOMAIN rq
    BY Queued DEF TypeOK
  <2> QED
    BY <1>1, <2>1, <2>2, SameFine DEF Linked
<1>4. Marked'
  <2>1. ReadSearches' = ReadSearches
    BY <1>1, SameFields DEF ReadSearches
  <2>2. Known' = Known
    BY <1>1, <2>1 DEF Known
  <2> QED
    BY <1>1, <2>1, <2>2 DEF Marked
<1>5. FailuresBad'
  BY <1>1, SameGood DEF FailuresBad
<1> QED
  BY <1>2, <1>3, <1>4, <1>5

\* What holds of the statements read is not changed by what comes after.
LEMMA AcceptedStays ==
  ASSUME Accepted, phase # "fail", UNCHANGED <<config, parsed, sets>>
  PROVE  Accepted'
<1>1. config' = config /\ parsed' = parsed /\ sets' = sets
  OBVIOUS
<1>2. /\ Fields' = Fields /\ Searches' = Searches /\ Updates' = Updates /\ Uniques' = Uniques
      /\ ReadFields' = ReadFields /\ ReadSearches' = ReadSearches
      /\ \A s : Columns(s)' = Columns(s)
  BY <1>1, SameFields DEF ReadFields, ReadSearches
<1>3. (FieldsApart' <=> FieldsApart) /\ (SearchesApart' <=> SearchesApart)
  BY <1>2 DEF FieldsApart, SearchesApart
<1>4. Unread' = Unread
  BY <1>1 DEF Unread
<1> QED
  BY <1>1, <1>2, <1>3, <1>4 DEF Accepted

LEMMA TypedStays ==
  ASSUME TypeOK, UNCHANGED <<config, parsed, rq, fails, found, tables>>,
         phase' \in {"parse", "link", "check", "done", "fail"},
         pass' \in 1..3, next' \in 1..Len(rq) + 1
  PROVE  TypeOK'
<1>1. /\ config' = config /\ parsed' = parsed /\ rq' = rq /\ fails' = fails /\ found' = found
      /\ source' = source /\ target' = target /\ returns' = returns /\ marks' = marks
      /\ sets' = sets
  BY DEF tables
<1> QED
  BY <1>1, SameFields DEF TypeOK

\* Nothing of the passes moves.
LEMMA PassesStay ==
  ASSUME rq' = rq, pass' = pass, next' = next, fails' = fails
  PROVE  \A j \in DOMAIN rq : (Passed(j)' <=> Passed(j)) /\ (Safe(j)' <=> Safe(j))
<1>1. \A j \in DOMAIN rq : PassOf(rq[j].type)' = PassOf(rq[j].type)
  BY DEF PassOf
<1> QED
  BY <1>1 DEF Passed, Safe

LEMMA EndParseKeeps ==
  ASSUME IInv, EndParse
  PROVE  IInv'
<1> USE DEF IInv
<1>1. /\ phase = "parse" /\ phase' = "link" /\ Unread = {}
      /\ UNCHANGED <<config, parsed, rq, pass, next, fails, found, tables>>
  BY DEF EndParse
<1>2. TypeOK'
  BY <1>1, TypedStays DEF TypeOK
<1>3. Accepted'
  BY <1>1, AcceptedStays DEF tables
<1>4. Range(parsed) = config
  BY <1>1 DEF Unread, TypeOK, Range
<1>5. Stages'
  BY <1>1, <1>4 DEF Stages
<1>6. OrderIrrelevant'
  BY <1>1 DEF OrderIrrelevant
<1> QED
  BY <1>1, <1>2, <1>3, <1>5, <1>6, PassesStay, QuietKeeps

LEMMA SkipKeeps ==
  ASSUME IInv, Skip
  PROVE  IInv'
<1> USE DEF IInv
<1>1. /\ phase = "link" /\ next <= Len(rq) /\ PassOf(rq[next].type) # pass /\ next' = next + 1
      /\ UNCHANGED <<config, parsed, rq, phase, pass, fails, found, tables>>
  BY DEF Skip, Linking
<1>2. PICK n \in Nat : n = Len(rq) /\ DOMAIN rq = 1..n
  BY Queued
<1>3. next \in 1..n /\ next' \in 1..n + 1 /\ pass \in 1..3 /\ fails \in Nat
  BY <1>1, <1>2 DEF TypeOK
<1>4. TypeOK'
  BY <1>1, <1>2, <1>3, TypedStays DEF TypeOK
<1>5. Accepted'
  BY <1>1, AcceptedStays DEF tables
<1>6. Stages'
  <2>1. fails < next /\ fails < next + 1
    BY <1>3 DEF Stages
  <2> QED
    BY <1>1, <2>1 DEF Stages
<1>7. OrderIrrelevant'
  BY <1>1 DEF OrderIrrelevant
<1>8. \A j \in DOMAIN rq : (Passed(j)' <=> Passed(j)) /\ (Safe(j)' => Safe(j))
  <2>1. \A j \in DOMAIN rq : PassOf(rq[j].type)' = PassOf(rq[j].type)
    BY <1>1 DEF PassOf
  <2>2. \A j \in DOMAIN rq : j < next + 1 <=> j < next \/ j = next
    BY <1>2, <1>3
  <2> QED
    BY <1>1, <2>1, <2>2 DEF Passed, Safe
<1> QED
  BY <1>1, <1>4, <1>5, <1>6, <1>7, <1>8, QuietKeeps

LEMMA EndPassKeeps ==
  ASSUME IInv, EndPass
  PROVE  IInv'
<1> USE DEF IInv
<1>1. phase = "link" /\ next > Len(rq) /\ UNCHANGED <<config, parsed, rq, fails, found, tables>>
  BY DEF EndPass
<1>2. PICK n \in Nat : n = Len(rq) /\ DOMAIN rq = 1..n
  BY Queued
<1>3. next = n + 1 /\ pass \in 1..3 /\ fails \in Nat
  BY <1>1, <1>2 DEF TypeOK
<1>4. Range(parsed) = config
  BY <1>1 DEF Stages
<1>5. CASE fails > 0 /\ phase' = "fail" /\ UNCHANGED <<pass, next>>
  <2>1. TypeOK'
    BY <1>1, <1>5, TypedStays DEF TypeOK
  <2>2. Accepted'
    BY <1>5 DEF Accepted
  <2>3. Stages'
    BY <1>1, <1>5 DEF Stages
  <2>4. OrderIrrelevant'
    BY <1>1, <1>5, SameGood DEF OrderIrrelevant, FailuresBad
  <2> QED
    BY <1>1, <1>5, <2>1, <2>2, <2>3, <2>4, PassesStay, QuietKeeps
<1>6. CASE fails = 0 /\ pass < 3 /\ pass' = pass + 1 /\ next' = 1 /\ UNCHANGED phase
  <2>1. TypeOK'
    <3>1. pass' \in 1..3 /\ next' \in 1..n + 1
      BY <1>2, <1>3, <1>6
    <3> QED
      BY <1>1, <1>2, <1>6, <3>1, TypedStays DEF TypeOK
  <2>2. Accepted'
    BY <1>1, <1>6, AcceptedStays DEF tables
  <2>3. Stages'
    BY <1>1, <1>4, <1>6 DEF Stages
  <2>4. OrderIrrelevant'
    BY <1>1, <1>6 DEF OrderIrrelevant
  <2>5. \A j \in DOMAIN rq : (Passed(j)' <=> Passed(j)) /\ (Safe(j)' => Safe(j))
    <3>1. \A j \in DOMAIN rq : PassOf(rq[j].type)' = PassOf(rq[j].type) /\ PassOf(rq[j].type) \in 1..3
      BY <1>1 DEF PassOf
    <3>2. \A j \in DOMAIN rq : j < next /\ ~(j < 1)
      BY <1>2, <1>3
    <3>3. \A j \in DOMAIN rq : PassOf(rq[j].type) < pass + 1 <=>
                                 PassOf(rq[j].type) < pass \/ PassOf(rq[j].type) = pass
      BY <1>3, <3>1
    <3>4. \A j \in DOMAIN rq : Passed(j)' <=> Passed(j)
      BY <1>1, <1>6, <3>1, <3>2, <3>3 DEF Passed
    <3>5. \A j \in DOMAIN rq : Safe(j)' => Safe(j)
      BY <1>1, <1>6, <3>4 DEF Safe
    <3> QED
      BY <3>4, <3>5
  <2> QED
    BY <1>1, <2>1, <2>2, <2>3, <2>4, <2>5, QuietKeeps
<1>7. CASE fails = 0 /\ pass = 3 /\ phase' = "check" /\ UNCHANGED <<pass, next>>
  <2>1. TypeOK'
    BY <1>1, <1>7, TypedStays DEF TypeOK
  <2>2. Accepted'
    BY <1>1, AcceptedStays DEF tables
  <2>3. Stages'
    BY <1>1, <1>2, <1>3, <1>4, <1>7 DEF Stages
  <2>4. OrderIrrelevant'
    BY <1>7 DEF OrderIrrelevant
  <2> QED
    BY <1>1, <1>7, <2>1, <2>2, <2>3, <2>4, PassesStay, QuietKeeps
<1> QED
  BY <1>5, <1>6, <1>7 DEF EndPass

LEMMA StutterKeeps ==
  ASSUME IInv, UNCHANGED vars
  PROVE  IInv'
<1> USE DEF IInv
<1>1. /\ UNCHANGED <<config, parsed, rq, fails, found, tables>>
      /\ phase' = phase /\ pass' = pass /\ next' = next
  BY DEF vars
<1>2. TypeOK'
  BY <1>1, TypedStays DEF TypeOK
<1>3. Accepted'
  <2>1. CASE phase = "fail"
    BY <1>1, <2>1 DEF Accepted
  <2>2. CASE phase # "fail"
    BY <1>1, <2>2, AcceptedStays DEF tables
  <2> QED
    BY <2>1, <2>2
<1>4. Stages' /\ OrderIrrelevant'
  BY <1>1, SameGood DEF Stages, OrderIrrelevant
<1> QED
  BY <1>1, <1>2, <1>3, <1>4, PassesStay, QuietKeeps
------------------------------------------------------------------------------
(* The checks of the linked queries. *)

\* When all passes are over, every entry is as it should be.
LEMMA AllFine ==
  ASSUME IInv, phase \in {"check", "done"}
  PROVE  /\ config \in Configs /\ Range(parsed) = config /\ Resolved
         /\ \A j \in DOMAIN rq : Set(j)
         /\ \A st \in config : \A e \in Called(st) : Fine(e)
<1> USE DEF IInv
<1>1. config \in Configs /\ Range(parsed) = config /\ pass = 3 /\ next = Len(rq) + 1 /\ fails = 0
  BY DEF Stages, TypeOK
<1>2. FieldsApart
  BY DEF Accepted
<1>3. Resolved
  BY <1>1, <1>2, StructsKnown
<1>4. PICK n \in Nat : n = Len(rq) /\ DOMAIN rq = 1..n
  BY Queued
<1>5. ASSUME NEW j \in DOMAIN rq PROVE Safe(j)
  <2>1. PassOf(rq[j].type) \in 1..3
    BY DEF PassOf
  <2>2. j < next
    BY <1>1, <1>4
  <2>3. PassOf(rq[j].type) < 3 \/ PassOf(rq[j].type) = 3
    BY <2>1
  <2> QED
    BY <1>1, <2>2, <2>3 DEF Safe, Passed
<1>6. \A j \in DOMAIN rq : Fine(rq[j]) /\ Set(j)
  BY <1>5 DEF Linked
<1>7. ASSUME NEW st \in config, NEW e \in Called(st) PROVE Fine(e)
  <2>1. PICK j \in DOMAIN rq : rq[j] = e
    BY <1>1, Queued
  <2> QED
    BY <1>6, <2>1
<1> QED
  BY <1>1, <1>3, <1>6, <1>7

\* An entry that a statement calls for.
LEMMA FineAt ==
  ASSUME IInv, phase \in {"check", "done"}, NEW st \in config, NEW type \in Type, NEW n \in Nat,
         Calls(type, st, n)
  PROVE  \E e : e.type = type /\ e.of = st /\ e.n = n /\ e \in Called(st) /\ Fine(e)
<1>1. PICK e : e = [type |-> type, of |-> st, n |-> n]
  OBVIOUS
<1>2. e \in Called(st)
  BY <1>1 DEF Called, EntryOf
<1>3. Fine(e)
  BY <1>2, AllFine
<1> QED
  BY <1>1, <1>2, <1>3

LEMMA FieldsGood ==
  ASSUME IInv, phase \in {"check", "done"}, NEW f \in Fields
  PROVE  FieldGood(f)
<1>1. Range(parsed) = config /\ f \in config
  BY AllFine DEF Fields
<1>2. ReadFields = Fields
  BY <1>1 DEF ReadFields, Fields
<1>3. /\ FieldOptions(f)
      /\ \A g \in Fields \ {f} : g.strct = f.strct =>
           g.name # f.name /\ ~("rowid" \in f.opts /\ "rowid" \in g.opts)
  BY <1>2 DEF IInv, Accepted, FieldsApart
<1>4. ASSUME f.ref # NoName PROVE RefGood(f)
  <2>1. Calls("foreign", f, 1) /\ "foreign" \in Type
    BY <1>4 DEF Calls, Type
  <2>2. PICK e : e.type = "foreign" /\ e.of = f /\ Fine(e)
    BY <1>1, <2>1, FineAt
  <2> QED
    BY <2>2 DEF Fine
<1>5. ASSUME f.type = "struct" PROVE StructGood(f)
  BY <1>5, AllFine DEF Resolved
<1>6. ASSUME f.type = "enum" PROVE f.names \in DOMAIN Item
  <2>1. Calls("enum", f, 1) /\ "enum" \in Type
    BY <1>6 DEF Calls, Type
  <2>2. PICK e : e.type = "enum" /\ e.of = f /\ Fine(e)
    BY <1>1, <2>1, FineAt
  <2> QED
    BY <2>2 DEF Fine
<1>7. ASSUME f.type = "bits" PROVE f.names \in Bitf
  <2>1. Calls("bits", f, 1) /\ "bits" \in Type
    BY <1>7 DEF Calls, Type
  <2>2. PICK e : e.type = "bits" /\ e.of = f /\ Fine(e)
    BY <1>1, <2>1, FineAt
  <2> QED
    BY <2>2 DEF Fine
<1>8. ASSUME f.type = "enum", f.default # NoName PROVE f.default \in Item[f.names]
  <2>1. Calls("default", f, 1) /\ "default" \in Type
    BY <1>8 DEF Calls, Type
  <2>2. PICK e : e.type = "default" /\ e.of = f /\ Fine(e)
    BY <1>1, <2>1, FineAt
  <2> QED
    BY <2>2 DEF Fine
<1> QED
  BY <1>3, <1>4, <1>5, <1>6, <1>7, <1>8 DEF FieldGood

LEMMA UpdatesGood ==
  ASSUME IInv, phase \in {"check", "done"}, NEW u \in Updates
  PROVE  UpdateGood(u)
<1>1. u \in config /\ config \in Configs
  BY AllFine DEF Updates
<1>2. u.mods \in Seq([name : Name, mod : Mod]) /\ u.where \in Seq([name : Name, op : Op])
  BY <1>1, UpdateFacts
<1>3. ASSUME NEW m \in Range(u.mods) PROVE ModGood(u, m)
  <2>1. PICK n \in 1..Len(u.mods) : m = u.mods[n]
    BY <1>2 DEF Range
  <2>2. Calls("modifier", u, n) /\ "modifier" \in Type /\ n \in Nat
    BY <2>1 DEF Calls, Type
  <2>3. PICK e : e.type = "modifier" /\ e.of = u /\ e.n = n /\ Fine(e)
    BY <1>1, <2>2, FineAt
  <2> QED
    BY <2>1, <2>3 DEF Fine
<1>4. ASSUME NEW w \in Range(u.where) PROVE WhereGood(u, w)
  <2>1. PICK n \in 1..Len(u.where) : w = u.where[n]
    BY <1>2 DEF Range
  <2>2. Calls("constraint", u, n) /\ "constraint" \in Type /\ n \in Nat
    BY <2>1 DEF Calls, Type
  <2>3. PICK e : e.type = "constraint" /\ e.of = u /\ e.n = n /\ Fine(e)
    BY <1>1, <2>2, FineAt
  <2> QED
    BY <2>1, <2>3 DEF Fine
<1> QED
  BY <1>3, <1>4 DEF UpdateGood, ModGood, WhereGood

LEMMA UniquesGood ==
  ASSUME IInv, phase \in {"check", "done"}, NEW u \in Uniques
  PROVE  UniqueGood(u)
<1>1. u \in config /\ config \in Configs /\ Range(parsed) = config
  BY AllFine DEF Uniques
<1>2. u.fields \in Seq(Name)
  BY <1>1, UniqueFacts
<1>3. Len(u.fields) >= 2
  BY <1>1 DEF IInv, Accepted
<1>4. ASSUME NEW x \in Range(u.fields) PROVE \E f \in Columns(u.strct) : f.name = x
  <2>1. PICK n \in 1..Len(u.fields) : x = u.fields[n]
    BY <1>2 DEF Range
  <2>2. Calls("unique", u, n) /\ "unique" \in Type /\ n \in Nat
    BY <2>1 DEF Calls, Type
  <2>3. PICK e : e.type = "unique" /\ e.of = u /\ e.n = n /\ Fine(e)
    BY <1>1, <2>2, FineAt
  <2> QED
    BY <2>1, <2>3 DEF Fine
<1>5. ASSUME NEW n \in 1..Len(u.fields)
      PROVE  \E i \in found : rq[i].type = "unique" /\ rq[i].of = u /\ rq[i].n = n
  <2>1. Calls("unique", u, n) /\ "unique" \in Type /\ n \in Nat
    BY DEF Calls, Type
  <2>2. PICK e : e.type = "unique" /\ e.of = u /\ e.n = n /\ e \in Called(u)
    BY <1>1, <2>1, FineAt
  <2>3. PICK i \in DOMAIN rq : rq[i] = e
    BY <1>1, <2>2, Queued DEF IInv
  <2>4. Set(i)
    BY AllFine
  <2> QED
    BY <2>2, <2>3, <2>4 DEF Set
<1>6. ASSUME NEW a \in 1..Len(u.fields), NEW b \in 1..Len(u.fields), a # b
      PROVE  u.fields[a] # u.fields[b]
  <2>1. PICK i \in found : rq[i].type = "unique" /\ rq[i].of = u /\ rq[i].n = a
    BY <1>5
  <2>2. PICK j \in found : rq[j].type = "unique" /\ rq[j].of = u /\ rq[j].n = b
    BY <1>5
  <2> QED
    BY <1>6, <2>1, <2>2 DEF IInv, UniqueApart
<1>7. IsInjective(u.fields)
  BY <1>2, <1>6 DEF IsInjective
<1> QED
  BY <1>3, <1>4, <1>7 DEF UniqueGood
LEMMA ColumnAt ==
  ASSUME IInv, phase \in {"check", "done"}, NEW s \in Searches, NEW chain, chain \in Chain,
         ColumnsAt(s, chain) # {}
  PROVE  ColumnsAt(s, chain) = {FieldAt(s, chain)}
<1>1. PICK id : id = ChainEnd(s.strct, chain)
  OBVIOUS
<1>2. ColumnsAt(s, chain) = {f \in Fields : HasField(id) /\ Field(id).type # "struct" /\ f = Field(id)}
  BY <1>1, AllFine, ChainFinds
<1>3. FieldAt(s, chain) = Field(id)
  BY <1>1 DEF FieldAt
<1> QED
  BY <1>2, <1>3

\* The terms of a search are good as far as they pass the last check.
LEMMA TermsGood ==
  ASSUME IInv, phase \in {"check", "done"}, NEW s \in Searches
  PROVE  SearchOk(s) <=> \A t \in Range(s.terms) : TermGood(s, t)
<1>1. s \in config /\ s.terms \in Seq([chain : Chain, op : Op])
  BY AllFine, SearchFacts
<1> DEFINE Checked(t) ==
             LET f == FieldAt(s, t.chain)
                 op == t.op
             IN  /\ op = "and" => f.type \in {"int", "bits"}
                 /\ op = "like" => f.type = "text"
                 /\ f.type = "password" =>
                      op \in IF s.kind = "count" \/ s.distinct # <<>> THEN {"streq", "notnull"}
                             ELSE {"streq", "notnull", "eq"}
<1>2. ASSUME NEW n \in 1..Len(s.terms) PROVE Checked(s.terms[n]) <=> TermGood(s, s.terms[n])
  <2>1. PICK t : t = s.terms[n] /\ t \in [chain : Chain, op : Op]
    BY <1>1, ElementOfSeq
  <2>2. Calls("term", s, n) /\ "term" \in Type /\ n \in Nat
    BY DEF Calls, Type
  <2>3. PICK e : e.type = "term" /\ e.of = s /\ e.n = n /\ Fine(e)
    BY <1>1, <2>2, FineAt
  <2>4. ColumnsAt(s, t.chain) # {}
    BY <2>1, <2>3 DEF Fine, Names
  <2>5. PICK f : f = FieldAt(s, t.chain) /\ ColumnsAt(s, t.chain) = {f}
    BY <2>1, <2>4, ColumnAt
  <2>6. PICK op \in Op : op = t.op
    BY <2>1
  <2>7. TermGood(s, t) <=>
          /\ op = "and" => f.type \in {"int", "bits"}
          /\ op = "like" => f.type = "text"
          /\ f.type = "password" => op # "gt" /\ (op = "eq" => s.kind # "count" /\ s.distinct = <<>>)
    BY <2>5, <2>6 DEF TermGood
  <2>8. Checked(t) <=>
          /\ op = "and" => f.type \in {"int", "bits"}
          /\ op = "like" => f.type = "text"
          /\ f.type = "password" =>
               op \in IF s.kind = "count" \/ s.distinct # <<>> THEN {"streq", "notnull"}
                      ELSE {"streq", "notnull", "eq"}
    BY <2>5, <2>6
  <2> HIDE DEF Checked
  <2>9. TermGood(s, t) <=> Checked(t)
    BY <2>7, <2>8 DEF Op
  <2> QED
    BY <2>1, <2>9
<1>3. SearchOk(s) <=> \A n \in 1..Len(s.terms) : Checked(s.terms[n])
  BY DEF SearchOk
<1> HIDE DEF Checked
<1>4. (\A t \in Range(s.terms) : TermGood(s, t)) <=> \A n \in 1..Len(s.terms) : TermGood(s, s.terms[n])
  BY <1>1 DEF Range
<1> QED
  BY <1>2, <1>3, <1>4

\* So is its grouping.
LEMMA GroupsGood ==
  ASSUME IInv, phase \in {"check", "done"}, NEW s \in Searches
  PROVE  /\ s.group = <<>> <=> s.aggr = <<>>
         /\ AggrOk(s) <=> GroupGood(s)
<1>1. s \in config /\ Range(parsed) = config /\ s.aggr \in MayChain /\ s.group \in MayChain
  BY AllFine, SearchFacts
<1>2. s.group = <<>> <=> s.aggr = <<>>
  BY <1>1 DEF IInv, Accepted, ReadSearches
<1>3. ASSUME s.group # <<>> PROVE AggrOk(s) <=> GroupGood(s)
  <2>1. s.aggr \in Chain /\ s.group \in Chain /\ s.aggr # <<>>
    BY <1>1, <1>2, <1>3 DEF Chain, MayChain
  <2>2. /\ Calls("aggr", s, 1) /\ "aggr" \in Type
        /\ Calls("grouprow", s, 1) /\ "grouprow" \in Type
    BY <1>3, <2>1 DEF Calls, Type
  <2>3. PICK e : e.type = "aggr" /\ e.of = s /\ Fine(e)
    BY <1>1, <2>2, FineAt
  <2>4. PICK d : d.type = "grouprow" /\ d.of = s /\ Fine(d)
    BY <1>1, <2>2, FineAt
  <2>5. GroupsBy(s, s.aggr) /\ GroupsBy(s, s.group)
    BY <2>3, <2>4 DEF Fine, Names
  <2>6. PICK f : f = FieldAt(s, s.aggr) /\ ColumnsAt(s, s.aggr) = {f}
    BY <2>1, <2>5, ColumnAt DEF GroupsBy
  <2>7. PICK g : g = FieldAt(s, s.group) /\ ColumnsAt(s, s.group) = {g}
    BY <2>1, <2>5, ColumnAt DEF GroupsBy
  <2>8. AggrOk(s) <=> f # g /\ f.strct = g.strct
    BY <1>3, <2>6, <2>7 DEF AggrOk
  <2>9. GroupGood(s) <=> f # g /\ f.strct = g.strct
    BY <1>3, <2>5, <2>6, <2>7 DEF GroupGood, GroupsBy
  <2> QED
    BY <2>8, <2>9
<1> QED
  BY <1>2, <1>3 DEF AggrOk, GroupGood

LEMMA SearchesGood ==
  ASSUME IInv, phase \in {"check", "done"}, NEW s \in Searches
  PROVE  AggrOk(s) /\ SearchOk(s) <=> SearchGood(s)
<1>1. /\ s \in config /\ Range(parsed) = config /\ s.order \in Seq(Chain)
  BY AllFine, SearchFacts
<1>2. ASSUME NEW o \in Range(s.order) PROVE ColumnsAt(s, o) # {}
  <2>1. PICK n \in 1..Len(s.order) : o = s.order[n]
    BY <1>1 DEF Range
  <2>2. Calls("order", s, n) /\ "order" \in Type /\ n \in Nat
    BY <2>1 DEF Calls, Type
  <2>3. PICK e : e.type = "order" /\ e.of = s /\ e.n = n /\ Fine(e)
    BY <1>1, <2>2, FineAt
  <2> QED
    BY <2>1, <2>3 DEF Fine, Names
<1>3. ASSUME s.distinct # <<>> PROVE Reach(s.strct, s.distinct) # {}
  <2>1. Calls("distinct", s, 1) /\ "distinct" \in Type
    BY <1>3 DEF Calls, Type
  <2>2. PICK e : e.type = "distinct" /\ e.of = s /\ Fine(e)
    BY <1>1, <2>1, FineAt
  <2> QED
    BY <2>2 DEF Fine
<1>4. \A t \in Searches \ {s} : t.strct = s.strct => s.name = NoName \/ t.name # s.name
  <2>1. ReadSearches = Searches
    BY <1>1 DEF ReadSearches, Searches
  <2> QED
    BY <2>1 DEF IInv, Accepted, SearchesApart
<1> QED
  BY <1>2, <1>3, <1>4, TermsGood, GroupsGood DEF SearchGood

\* What the linker has found good is good, but for the last checks.
LEMMA CheckedIsGood ==
  ASSUME IInv, phase \in {"check", "done"}
  PROVE  (\A s \in Searches : AggrOk(s) /\ SearchOk(s)) <=> Good
<1>1. \A st \in config : \E f \in Fields : f.strct = st.strct
  <2>1. Range(parsed) = config
    BY AllFine
  <2>2. Unread = {} /\ ReadFields = Fields
    BY <2>1 DEF Unread, ReadFields, Fields
  <2> QED
    BY <2>1, <2>2 DEF IInv, Accepted
<1> QED
  BY <1>1, FieldsGood, UpdatesGood, UniquesGood, SearchesGood DEF Good

LEMMA CheckKeeps ==
  ASSUME IInv, CheckQueries
  PROVE  IInv'
<1> USE DEF IInv
<1>1. /\ phase = "check" /\ UNCHANGED <<config, parsed, rq, pass, next, fails, found, tables>>
      /\ phase' = IF \A s \in Searches : AggrOk(s) /\ SearchOk(s) THEN "done" ELSE "fail"
  BY DEF CheckQueries
<1>2. phase' = IF Good THEN "done" ELSE "fail"
  BY <1>1, CheckedIsGood
<1>3. TypeOK'
  BY <1>1, <1>2, TypedStays DEF TypeOK
<1>4. Accepted'
  BY <1>1, AcceptedStays DEF tables
<1>5. Stages'
  BY <1>1, <1>2 DEF Stages
<1>6. OrderIrrelevant'
  BY <1>1, <1>2, SameGood DEF OrderIrrelevant
<1> QED
  BY <1>1, <1>3, <1>4, <1>5, <1>6, PassesStay, QuietKeeps
------------------------------------------------------------------------------
(* The parser's steps. *)

\* A statement is read, of whatever kind.
ParseStmt(st) ==
  /\ phase = "parse" /\ st \in Unread
  /\ parsed' = Append(parsed, st)
  /\ rq' = rq \o EntriesOf(st)
  /\ phase' = IF /\ Acceptable(st)
                 /\ \/ \E v \in Unread \ {st} : v.strct = st.strct
                    \/ st.stmt = "field" \/ ReadOf("field", st.strct) # {}
              THEN phase ELSE "fail"
  /\ sets' = IF phase' = "parse" THEN UpdateAll(st) ELSE sets
  /\ UNCHANGED <<config, pass, next, fails, found, source, target>>
  /\ returns' = IF st.stmt = "search" /\ st.distinct = <<>>
                THEN [returns EXCEPT ![st] = st.strct] ELSE returns
  /\ marks' = IF st.stmt = "search" /\ st.distinct = <<>> /\ st.kind \in {"list", "iterate"}
              THEN marks \cup {<<st.strct, st.kind>>} ELSE marks

LEMMA ParseIs ==
  ASSUME NEW st \in config,
         ParseField(st) \/ ParseSearch(st) \/ ParseUpdate(st) \/ ParseUnique(st)
  PROVE  ParseStmt(st)
<1>1. CASE ParseField(st)
  BY <1>1 DEF ParseField, Read, ParseStmt, EntriesOf, Acceptable
<1>2. CASE ParseSearch(st)
  <2>1. /\ st.stmt = "search"
        /\ Read(st, SearchEntries(st), SearchParams(st))
    BY <1>2 DEF ParseSearch
  <2>2. /\ returns' = IF st.distinct = <<>> THEN [returns EXCEPT ![st] = st.strct] ELSE returns
        /\ marks' = IF st.distinct = <<>> /\ st.kind \in {"list", "iterate"}
                    THEN marks \cup {<<st.strct, st.kind>>} ELSE marks
    BY <1>2 DEF ParseSearch
  <2> QED
    BY <2>1, <2>2 DEF Read, ParseStmt, EntriesOf, Acceptable
<1>3. CASE ParseUpdate(st)
  BY <1>3 DEF ParseUpdate, Read, ParseStmt, EntriesOf, Acceptable
<1>4. CASE ParseUnique(st)
  BY <1>4 DEF ParseUnique, Read, ParseStmt, EntriesOf, Acceptable
<1> QED
  BY <1>1, <1>2, <1>3, <1>4

\* The parser has not passed any entry.
LEMMA NothingPassed ==
  ASSUME IInv, phase = "parse"
  PROVE  pass = 1 /\ next = 1 /\ fails = 0 /\ found = {}
<1> USE DEF IInv
<1>1. pass = 1 /\ next = 1 /\ fails \in Nat /\ fails < next
  BY DEF Stages, TypeOK
<1>2. fails = 0
  BY <1>1
<1>3. ASSUME NEW i \in found PROVE FALSE
  <2>1. i \in Nat /\ i >= 1 /\ Passed(i)
    BY Queued DEF TypeOK, Linked
  <2>2. PassOf(rq[i].type) \in 1..3
    BY DEF PassOf
  <2> QED
    BY <1>1, <2>1, <2>2 DEF Passed
<1> QED
  BY <1>1, <1>2, <1>3

LEMMA ReadNow ==
  ASSUME IInv, NEW st \in config, ParseStmt(st)
  PROVE  /\ config \in Configs /\ config' = config /\ parsed' \in Seq(config)
         /\ Range(parsed) \subseteq config /\ st \notin Range(parsed)
         /\ Range(parsed') = Range(parsed) \cup {st}
         /\ Unread' = Unread \ {st}
         /\ ReadFields' = ReadFields \cup ({st} \cap Fields)
         /\ ReadSearches' = ReadSearches \cup ({st} \cap Searches)
<1>1. config \in Configs /\ parsed \in Seq(config) /\ config' = config /\ st \in Unread
      /\ parsed' = Append(parsed, st)
  BY DEF IInv, TypeOK, ParseStmt
<1>2. parsed' \in Seq(config) /\ Range(parsed') = Range(parsed) \cup {st}
  <2>1. Len(parsed) \in Nat /\ DOMAIN parsed = 1..Len(parsed)
    BY <1>1
  <2>2. /\ Append(parsed, st) \in Seq(config) /\ Len(Append(parsed, st)) = Len(parsed) + 1
        /\ \A i \in 1..Len(parsed) : Append(parsed, st)[i] = parsed[i]
        /\ Append(parsed, st)[Len(parsed) + 1] = st
    BY <1>1, AppendProperties
  <2>3. DOMAIN Append(parsed, st) = 1..Len(parsed) + 1
    BY <2>2
  <2>4. \A i : i \in 1..Len(parsed) + 1 <=> i \in 1..Len(parsed) \/ i = Len(parsed) + 1
    BY <2>1
  <2>5. Range(Append(parsed, st)) = Range(parsed) \cup {st}
    BY <2>1, <2>2, <2>3, <2>4 DEF Range
  <2> QED
    BY <1>1, <2>2, <2>5
<1>3. Range(parsed) \subseteq config
  BY <1>1 DEF Range
<1>4. st \notin Range(parsed)
  BY <1>1 DEF Unread
<1>5. Unread' = Unread \ {st}
  BY <1>1, <1>2 DEF Unread
<1>6. /\ ReadFields' = ReadFields \cup ({st} \cap Fields)
      /\ ReadSearches' = ReadSearches \cup ({st} \cap Searches)
  BY <1>1, <1>2, SameFields DEF ReadFields, ReadSearches
<1> QED
  BY <1>1, <1>2, <1>3, <1>4, <1>5, <1>6
LEMMA ParseQueue ==
  ASSUME IInv, NEW st \in config, ParseStmt(st)
  PROVE  /\ Queue'
         /\ rq' \in Seq([type : Type, of : config, n : Nat])
         /\ Len(rq') \in Nat /\ Len(rq) \in Nat /\ Len(rq) <= Len(rq')
<1> USE DEF IInv
<1>1. PICK types, new : new = EntriesOf(st) /\ Lists(st, new, types, Called(st))
  BY ReadNow, EntriesOfAre
<1> DEFINE R == [type : Type, of : config, n : Nat]
<1>2. new \in Seq(R) /\ rq \in Seq(R)
  <2>1. EntryOf(st) \subseteq R
    BY DEF EntryOf
  <2>2. new \in Seq(EntryOf(st))
    BY <1>1 DEF Lists
  <2> HIDE DEF R
  <2>3. new \in Seq(R)
    BY <2>1, <2>2
  <2> QED
    BY <2>3 DEF TypeOK, R
<1>3. IsInjective(new) /\ Range(new) = Called(st) /\ IsInjective(rq)
  BY <1>1 DEF Lists, Queue
<1>4. Range(rq) \cap Range(new) = {}
  <2>1. \A e \in Range(rq) : e.of \in Range(parsed)
    <3>1. \A i \in DOMAIN rq : rq[i].of \in Range(parsed)
      BY Queued
    <3> QED
      BY <3>1 DEF Range
  <2>2. \A e \in Range(new) : e.of = st
    BY <1>3, CalledIs
  <2> QED
    BY <2>1, <2>2, ReadNow
<1>5. rq' = rq \o new
  BY <1>1 DEF ParseStmt
<1> HIDE DEF R
<1>6. rq' \in Seq(R) /\ IsInjective(rq') /\ Range(rq') = Range(rq) \cup Range(new)
  BY <1>2, <1>3, <1>4, <1>5, ConcatInjective
<1>7. Queue'
  <2>1. Range(rq') = UNION {Range(EntriesOf(t)) : t \in Range(parsed) \cup {st}}
    BY <1>1, <1>6 DEF Queue
  <2>2. Range(parsed') = Range(parsed) \cup {st}
    BY ReadNow
  <2>3. Range(rq') = UNION {Range(EntriesOf(t)) : t \in Range(parsed')}
    BY <2>1, <2>2
  <2> QED
    BY <1>6, <2>3 DEF Queue
<1>8. Len(rq') = Len(rq) + Len(new) /\ Len(rq) \in Nat /\ Len(new) \in Nat
  BY <1>2, <1>5, ConcatProperties, LenProperties
<1> QED
  BY <1>6, <1>7, <1>8 DEF R

LEMMA ParseTyped ==
  ASSUME IInv, NEW st \in config, ParseStmt(st)
  PROVE  TypeOK'
<1> USE DEF IInv
<1>1. /\ phase = "parse" /\ phase' \in {"parse", "fail"}
      /\ UNCHANGED <<config, pass, next, fails, found, source, target>>
  BY DEF ParseStmt
<1>2. /\ next' \in 1..Len(rq') + 1 /\ fails' \in 0..Len(rq') /\ found' \subseteq 1..Len(rq')
      /\ pass' \in 1..3
  <2>1. pass = 1 /\ next = 1 /\ fails = 0 /\ found = {}
    BY <1>1, NothingPassed
  <2>2. Len(rq') \in Nat
    BY ParseQueue
  <2> QED
    BY <1>1, <2>1, <2>2
<1>3. /\ config \in Configs /\ parsed' \in Seq(config)
      /\ Updates' = Updates /\ Searches' = Searches /\ Fields' = Fields
  BY <1>1, ReadNow, SameFields
<1>4. sets' \in [Updates -> SUBSET Name]
  <2>1. sets \in [Updates -> SUBSET Name]
    BY DEF TypeOK
  <2> DEFINE all == {f.name : f \in {g \in ReadOf("field", st.strct) \cup ({st} \cap Fields) :
                              "rowid" \notin g.opts /\ g.type # "struct"}}
             ends(u) == /\ \A v \in Unread \ {st} : v.strct # st.strct
                        /\ u.strct = st.strct /\ ~u.delete /\ u.mods = <<>>
  <2>2. all \subseteq Name
    <3>1. ReadOf("field", st.strct) \subseteq Fields
      BY ReadNow DEF ReadOf, Fields
    <3>2. \A f \in Fields : f.name \in Name
      BY <1>3, FieldFacts
    <3> QED
      BY <3>1, <3>2
  <2>3. UpdateAll(st) = [u \in Updates |-> IF ends(u) THEN all ELSE sets[u]]
    BY DEF UpdateAll
  <2> HIDE DEF all, ends
  <2>4. UpdateAll(st) \in [Updates -> SUBSET Name]
    BY <2>1, <2>2, <2>3
  <2> QED
    BY <2>1, <2>4 DEF ParseStmt
<1>5. st.stmt = "search" => st \in Searches /\ st.strct \in Strct
  BY <1>3, SearchFacts DEF Searches
<1>6. returns' \in [Searches -> Strct \cup {NoName}]
  BY <1>5 DEF ParseStmt, TypeOK
<1>7. marks' \subseteq Strct \X {"list", "iterate"}
  <2>1. PICK kind, strct : kind = st.kind /\ strct = st.strct
    OBVIOUS
  <2>2. strct \in Strct /\ kind \in {"list", "iterate"} => <<strct, kind>> \in Strct \X {"list", "iterate"}
    OBVIOUS
  <2>3. marks \subseteq Strct \X {"list", "iterate"}
    BY DEF TypeOK
  <2> QED
    BY <1>5, <2>1, <2>2, <2>3 DEF ParseStmt
<1>8. rq' \in Seq([type : Type, of : config, n : Nat])
  BY ParseQueue
<1>9. /\ source \in [FieldId -> Name \cup {NoName}] /\ target \in [FieldId -> FieldId \cup {NoName}]
  BY DEF TypeOK
<1>10. config' = config /\ source' = source /\ target' = target
  BY <1>1
<1> QED
  BY <1>1, <1>2, <1>3, <1>4, <1>6, <1>7, <1>8, <1>9, <1>10 DEF TypeOK

\* A statement that is refused is not good, or its structure is not.
LEMMA ParseRefused ==
  ASSUME IInv, NEW st \in config, ParseStmt(st), phase' = "fail"
  PROVE  ~Good
<1> SUFFICES ASSUME Good PROVE FALSE
  OBVIOUS
<1>1. \/ ~Acceptable(st)
      \/ /\ \A v \in Unread \ {st} : v.strct # st.strct
         /\ st.stmt # "field" /\ ReadOf("field", st.strct) = {}
  BY DEF ParseStmt
<1>2. st \notin Range(parsed) /\ Range(parsed) \subseteq config /\ config \in Configs
  BY ReadNow
<1>3. CASE st.stmt = "field" /\ ~(NewField(st) /\ FieldInfo(st))
  <2>1. st \in Fields
    BY <1>3 DEF Fields
  <2>2. FieldGood(st)
    BY <2>1 DEF Good
  <2>3. \A g \in ReadOf("field", st.strct) : g \in Fields \ {st} /\ g.strct = st.strct
    BY <1>2 DEF ReadOf, Fields
  <2> QED
    BY <1>3, <2>2, <2>3 DEF FieldGood, NewField, FieldInfo
<1>4. CASE st.stmt = "search" /\ ~SearchParams(st)
  <2>1. st \in Searches
    BY <1>4 DEF Searches
  <2>2. SearchGood(st)
    BY <2>1 DEF Good
  <2>3. \A t \in ReadOf("search", st.strct) : t \in Searches \ {st} /\ t.strct = st.strct
    BY <1>2 DEF ReadOf, Searches
  <2> QED
    BY <1>4, <2>2, <2>3 DEF SearchGood, SearchParams
<1>5. CASE st.stmt = "unique" /\ ~(Len(st.fields) >= 2)
  BY <1>5 DEF Good, UniqueGood, Uniques
<1>6. CASE /\ \A v \in Unread \ {st} : v.strct # st.strct
           /\ st.stmt # "field" /\ ReadOf("field", st.strct) = {}
  <2>1. PICK f \in Fields : f.strct = st.strct
    BY DEF Good
  <2>2. f \in config /\ f.stmt = "field" /\ f # st
    BY <1>6, <2>1 DEF Fields
  <2>3. f \in Range(parsed)
    BY <1>6, <2>1, <2>2 DEF Unread
  <2> QED
    BY <1>6, <2>1, <2>2, <2>3 DEF ReadOf
<1> QED
  BY <1>1, <1>3, <1>4, <1>5, <1>6 DEF Acceptable
\* What the parser has accepted goes together.
LEMMA ParseApart ==
  ASSUME IInv, NEW st \in config, ParseStmt(st), phase' = "parse"
  PROVE  /\ FieldsApart' /\ SearchesApart'
         /\ \A f \in ReadFields' : FieldOptions(f)
         /\ \A s \in ReadSearches' : s.group = <<>> <=> s.aggr = <<>>
         /\ \A u \in Uniques' \cap Range(parsed') : Len(u.fields) >= 2
<1>1. /\ FieldsApart /\ SearchesApart
      /\ \A f \in ReadFields : FieldOptions(f)
      /\ \A s \in ReadSearches : s.group = <<>> <=> s.aggr = <<>>
      /\ \A u \in Uniques \cap Range(parsed) : Len(u.fields) >= 2
  BY DEF IInv, Accepted, ParseStmt
<1>2. Acceptable(st)
  BY DEF ParseStmt
<1>3. /\ ReadFields' = ReadFields \cup ({st} \cap Fields)
      /\ ReadSearches' = ReadSearches \cup ({st} \cap Searches)
      /\ Range(parsed') = Range(parsed) \cup {st} /\ Uniques' = Uniques
  BY ReadNow, SameFields
<1>4. ASSUME st \in Fields PROVE NewField(st) /\ FieldInfo(st)
  BY <1>2, <1>4 DEF Acceptable, Fields
<1>5. FieldsApart'
  <2>1. ASSUME NEW f \in ReadFields, st \in Fields, f.strct = st.strct
        PROVE  f.name # st.name /\ ~("rowid" \in f.opts /\ "rowid" \in st.opts)
    <3>1. f \in ReadOf("field", st.strct)
      BY <2>1 DEF ReadOf, ReadFields, Fields
    <3> QED
      BY <1>4, <2>1, <3>1 DEF NewField, FieldInfo
  <2> QED
    BY <1>1, <1>3, <2>1 DEF FieldsApart
<1>6. SearchesApart'
  <2>1. ASSUME NEW s \in ReadSearches, st \in Searches, s.strct = st.strct
        PROVE  st.name = NoName \/ s.name # st.name
    <3>1. s \in ReadOf("search", st.strct)
      BY <2>1 DEF ReadOf, ReadSearches, Searches
    <3>2. SearchParams(st)
      BY <1>2, <2>1 DEF Acceptable, Searches
    <3> QED
      BY <3>1, <3>2 DEF SearchParams
  <2> QED
    BY <1>1, <1>3, <2>1 DEF SearchesApart
<1>7. \A f \in ReadFields' : FieldOptions(f)
  BY <1>1, <1>3, <1>4 DEF FieldInfo
<1>8. \A s \in ReadSearches' : s.group = <<>> <=> s.aggr = <<>>
  BY <1>1, <1>2, <1>3 DEF Acceptable, SearchParams, Searches
<1>9. \A u \in Uniques' \cap Range(parsed') : Len(u.fields) >= 2
  BY <1>1, <1>2, <1>3 DEF Acceptable, Uniques
<1> QED
  BY <1>5, <1>6, <1>7, <1>8, <1>9

\* A structure that is complete has fields, and they are those of its updates
\* that name none.
LEMMA ParseComplete ==
  ASSUME IInv, NEW st \in config, ParseStmt(st), phase' = "parse"
  PROVE  /\ \A x \in Range(parsed') :
              (\E v \in Unread' : v.strct = x.strct) \/ \E f \in ReadFields' : f.strct = x.strct
         /\ \A u \in Updates' :
              (\A v \in Unread' : v.strct # u.strct) /\ ~u.delete /\ u.mods = <<>> =>
                sets'[u] = {f.name : f \in {g \in Columns(u.strct)' : "rowid" \notin g.opts}}
<1>1. /\ \A x \in Range(parsed) :
           (\E v \in Unread : v.strct = x.strct) \/ \E f \in ReadFields : f.strct = x.strct
      /\ \A u \in Updates :
           (\A v \in Unread : v.strct # u.strct) /\ ~u.delete /\ u.mods = <<>> =>
             sets[u] = {f.name : f \in {g \in Columns(u.strct) : "rowid" \notin g.opts}}
  BY DEF IInv, Accepted, ParseStmt
<1>2. /\ (\E v \in Unread \ {st} : v.strct = st.strct)
         \/ st.stmt = "field" \/ ReadOf("field", st.strct) # {}
      /\ sets' = UpdateAll(st)
  BY DEF ParseStmt
<1>3. /\ ReadFields' = ReadFields \cup ({st} \cap Fields) /\ Unread' = Unread \ {st}
      /\ Range(parsed') = Range(parsed) \cup {st} /\ Range(parsed) \subseteq config
      /\ Updates' = Updates /\ Fields' = Fields
      /\ \A s : Columns(s)' = Columns(s)
  BY ReadNow, SameFields
<1>4. \A strct : ReadOf("field", strct) = {f \in ReadFields : f.strct = strct}
  BY <1>3 DEF ReadOf, ReadFields, Fields
<1>5. ASSUME NEW x \in Range(parsed')
      PROVE  (\E v \in Unread' : v.strct = x.strct) \/ \E f \in ReadFields' : f.strct = x.strct
  <2>1. CASE x.strct = st.strct
    BY <1>2, <1>3, <1>4, <2>1 DEF Fields
  <2>2. CASE x.strct # st.strct
    BY <1>1, <1>3, <2>2
  <2> QED
    BY <2>1, <2>2
<1>6. ASSUME NEW u \in Updates, \A v \in Unread' : v.strct # u.strct, ~u.delete, u.mods = <<>>
      PROVE  sets'[u] = {f.name : f \in {g \in Columns(u.strct) : "rowid" \notin g.opts}}
  <2> DEFINE all == {f.name : f \in {g \in ReadOf("field", st.strct) \cup ({st} \cap Fields) :
                              "rowid" \notin g.opts /\ g.type # "struct"}}
             ends == /\ \A v \in Unread \ {st} : v.strct # st.strct
                     /\ u.strct = st.strct /\ ~u.delete /\ u.mods = <<>>
  <2>1. sets'[u] = IF ends THEN all ELSE sets[u]
    BY <1>2 DEF UpdateAll
  <2>2. CASE u.strct = st.strct
    <3>1. ends
      BY <1>3, <1>6, <2>2
    <3>2. \A g : g \in ReadOf("field", st.strct) \cup ({st} \cap Fields) <=>
                   g \in Fields /\ g.strct = st.strct
      <4>1. \A g \in Fields : g.strct = st.strct => g \in Range(parsed) \/ g = st
        BY <1>3, <1>6, <2>2 DEF Unread, Fields
      <4> QED
        BY <1>4, <4>1 DEF ReadFields
    <3>3. {g \in ReadOf("field", st.strct) \cup ({st} \cap Fields) :
             "rowid" \notin g.opts /\ g.type # "struct"}
          = {g \in Columns(u.strct) : "rowid" \notin g.opts}
      BY <2>2, <3>2 DEF Columns
    <3> QED
      BY <2>1, <3>1, <3>3
  <2>3. CASE u.strct # st.strct
    <3>1. sets'[u] = sets[u]
      BY <2>1, <2>3
    <3>2. \A v \in Unread : v.strct # u.strct
      BY <1>3, <1>6, <2>3
    <3> QED
      BY <1>1, <1>6, <3>1, <3>2
  <2> QED
    BY <2>2, <2>3
<1> QED
  BY <1>3, <1>5, <1>6

LEMMA ParseMarked ==
  ASSUME IInv, NEW st \in config, ParseStmt(st)
  PROVE  Marked'
<1> USE DEF IInv
<1>1. /\ returns' = IF st.stmt = "search" /\ st.distinct = <<>>
                    THEN [returns EXCEPT ![st] = st.strct] ELSE returns
      /\ marks' = IF st.stmt = "search" /\ st.distinct = <<>> /\ st.kind \in {"list", "iterate"}
                  THEN marks \cup {<<st.strct, st.kind>>} ELSE marks
      /\ fails' = fails
  BY DEF ParseStmt
<1>2. /\ ReadSearches' = ReadSearches \cup ({st} \cap Searches)
      /\ ReadSearches \subseteq Searches /\ st \notin ReadSearches
      /\ st \in Searches <=> st.stmt = "search"
  BY ReadNow DEF ReadSearches, Searches
<1>3. returns \in [Searches -> Strct \cup {NoName}]
  BY DEF TypeOK
<1>4. /\ \A s \in ReadSearches : returns'[s] = returns[s]
      /\ st \in Searches /\ st.distinct = <<>> => returns'[st] = st.strct
  BY <1>1, <1>2, <1>3
<1>5. \A s \in ReadSearches' : s.distinct = <<>> => returns'[s] = s.strct
  BY <1>2, <1>4 DEF Marked
<1>6. pass = 1 /\ next = 1 /\ fails = 0 /\ pass' = 1 /\ next' = 1
  BY NothingPassed DEF ParseStmt
<1>7. /\ \A j : rq[j].type = "distinct" => ~Passed(j)
      /\ \A j : rq'[j].type = "distinct" => ~Passed(j)'
  BY <1>6 DEF Passed, PassOf, Chained
<1>8. /\ Known = {s \in ReadSearches : s.distinct = <<>>}
      /\ Known' = {s \in ReadSearches' : s.distinct = <<>>}
  BY <1>7 DEF Known
<1>9. marks = {<<returns[s], s.kind>> : s \in {t \in Known : t.kind \in {"list", "iterate"}}}
  BY <1>6 DEF Marked
<1>10. marks = {<<returns'[s], s.kind>> : s \in {t \in Known : t.kind \in {"list", "iterate"}}}
  BY <1>4, <1>8, <1>9
<1>11. Known' = Known \cup {s \in {st} \cap Searches : s.distinct = <<>>}
  BY <1>2, <1>8
<1>12. marks' = {<<returns'[s], s.kind>> : s \in {t \in Known' : t.kind \in {"list", "iterate"}}}
  BY <1>1, <1>2, <1>4, <1>10, <1>11
<1> QED
  BY <1>5, <1>12 DEF Marked

LEMMA ParseKeeps ==
  ASSUME IInv, NEW st \in config, ParseStmt(st)
  PROVE  IInv'
<1>1. TypeOK' /\ Queue' /\ Marked'
  BY ParseTyped, ParseQueue, ParseMarked
<1>2. /\ phase = "parse" /\ phase' \in {"parse", "fail"} /\ pass = 1 /\ next = 1 /\ fails = 0
      /\ found = {} /\ pass' = 1 /\ next' = 1 /\ fails' = 0 /\ found' = {}
  BY NothingPassed DEF ParseStmt
<1>3. Accepted'
  <2>1. CASE phase' = "fail"
    BY <2>1 DEF Accepted
  <2>2. CASE phase' = "parse"
    BY <2>2, ParseApart, ParseComplete DEF Accepted
  <2> QED
    BY <1>2, <2>1, <2>2
<1>4. Stages' /\ UniqueApart' /\ FailuresBad'
  BY <1>2 DEF Stages, UniqueApart, FailuresBad
<1>5. Linked'
  <2>1. ASSUME NEW j \in DOMAIN rq' PROVE ~Safe(j)'
    <3>1. j \in 1..Len(rq') /\ Len(rq') \in Nat
      BY ParseQueue, LenProperties
    <3>2. ~(j < 1)
      BY <3>1
    <3>3. PassOf(rq[j].type)' \in 1..3
      BY DEF PassOf
    <3>4. ~(PassOf(rq[j].type)' < 1)
      BY <3>3
    <3> QED
      BY <1>2, <3>2, <3>4 DEF Safe, Passed
  <2> QED
    BY <1>2, <2>1 DEF Linked
<1>6. OrderIrrelevant'
  BY <1>2, ParseRefused, SameGood DEF OrderIrrelevant, ParseStmt
<1> QED
  BY <1>1, <1>3, <1>4, <1>5, <1>6 DEF IInv
------------------------------------------------------------------------------

LEMMA InitHolds ==
  ASSUME Init
  PROVE  IInv
<1> USE DEF Init
<1>1. PICK r, f : r = rq /\ f = found /\ r = <<>> /\ f = {} /\ parsed = <<>> /\ Len(r) = 0
  OBVIOUS
<1>2. /\ Range(r) = {} /\ IsInjective(r) /\ DOMAIN r = {}
      /\ r \in Seq([type : Type, of : config, n : Nat])
      /\ parsed \in Seq(config) /\ Range(parsed) = {}
  BY <1>1 DEF Range, IsInjective
<1>3. TypeOK
  BY <1>1, <1>2 DEF TypeOK
<1>4. Queue
  BY <1>1, <1>2 DEF Queue
<1>5. ReadFields = {} /\ ReadSearches = {} /\ Unread = config
  BY <1>2 DEF ReadFields, ReadSearches, Unread
<1>6. Accepted
  <2>1. FieldsApart /\ SearchesApart
    BY <1>5 DEF FieldsApart, SearchesApart
  <2>2. \A u \in Updates : u \in Unread
    BY <1>5 DEF Updates
  <2> QED
    BY <1>2, <1>5, <2>1, <2>2 DEF Accepted
<1>7. Stages /\ FailuresBad /\ OrderIrrelevant
  BY DEF Stages, FailuresBad, OrderIrrelevant
<1>8. Linked /\ UniqueApart
  BY <1>1, <1>2 DEF Linked, UniqueApart
<1>9. Marked
  BY <1>5 DEF Marked, Known
<1> QED
  BY <1>3, <1>4, <1>6, <1>7, <1>8, <1>9 DEF IInv

LEMMA NextKeeps ==
  ASSUME IInv, [Next]_vars
  PROVE  IInv'
<1>1. CASE \E st \in config : ParseField(st) \/ ParseSearch(st) \/ ParseUpdate(st) \/ ParseUnique(st)
  BY <1>1, ParseIs, ParseKeeps
<1>2. CASE EndParse
  BY <1>2, EndParseKeeps
<1>3. CASE ResolveForeign
  BY <1>3, ForeignKeeps
<1>4. CASE ResolveEnum
  BY <1>4, EnumKeeps
<1>5. CASE ResolveBits
  BY <1>5, BitsKeeps
<1>6. CASE ResolveUnique
  BY <1>6, UniqueKeeps
<1>7. CASE ResolveModifier
  BY <1>7, ModifierKeeps
<1>8. CASE ResolveConstraint
  BY <1>8, ConstraintKeeps
<1>9. CASE ResolveDefault
  BY <1>9, DefaultKeeps
<1>10. CASE ResolveStruct
  BY <1>10, StructKeeps
<1>11. CASE ResolveTerm \/ ResolveOrder
  BY <1>11, ColumnKeeps
<1>12. CASE ResolveAggr \/ ResolveGrouprow
  BY <1>12, GroupKeeps
<1>13. CASE ResolveDistinct
  BY <1>13, DistinctKeeps
<1>14. CASE Skip
  BY <1>14, SkipKeeps
<1>15. CASE EndPass
  BY <1>15, EndPassKeeps
<1>16. CASE CheckQueries
  BY <1>16, CheckKeeps
<1>17. CASE UNCHANGED vars
  BY <1>17, StutterKeeps
<1> QED
  BY <1>1, <1>2, <1>3, <1>4, <1>5, <1>6, <1>7, <1>8, <1>9, <1>10, <1>11, <1>12, <1>13, <1>14,
     <1>15, <1>16, <1>17 DEF Next

\* The invariant from which the properties follow: what the queue holds, what
\* every entry that was handled has set, that failures are those of the
\* configuration, through every statement read and every entry resolved, in
\* any order (parser_struct.c, parser_field.c, linker_resolve.c).
THEOREM Invariance == Spec => []IInv
<1>1. Init => IInv
  BY InitHolds
<1>2. IInv /\ [Next]_vars => IInv'
  BY NextKeeps
<1> QED
  BY <1>1, <1>2, PTL DEF Spec

\* The types of the queue, the passes and the tables that the linker fills.
THEOREM TypeCorrect == Spec => []TypeOK
<1>1. IInv => TypeOK
  BY DEF IInv
<1> QED
  BY <1>1, Invariance, PTL

\* The assertions of resolve_field_def_eitem() and resolve_field_chain() hold,
\* for any configuration in any order: the earlier passes have resolved what
\* the later ones follow.
THEOREM AssertionsHold == Spec => []AssertsHold
<1>1. IInv => AssertsHold
  <2> SUFFICES ASSUME IInv PROVE AssertsHold
    OBVIOUS
  <2> DEFINE e == rq[next]
  <2>1. ASSUME Handles("default") PROVE \E i \in found : rq[i].type = "enum" /\ rq[i].of = Entry
    <3>1. e.type = "default" /\ Linking /\ pass = 2
      BY <2>1 DEF Handles, PassOf, Chained
    <3>2. e.of \in Range(parsed) /\ Calls("enum", e.of, 1) /\ "enum" \in Type
      BY <3>1, AtEntry DEF Calls, Type
    <3>3. PICK i \in DOMAIN rq : rq[i].type = "enum" /\ rq[i].of = e.of
      BY <3>2, EntryThere DEF IInv
    <3>4. Safe(i)
      BY <3>1, <3>3 DEF Safe, Passed, PassOf, Chained
    <3>5. i \in found
      BY <3>3, <3>4 DEF IInv, Linked, Set
    <3> QED
      BY <3>3, <3>5 DEF Entry
  <2>2. ASSUME NEW type \in Chained, Handles(type) PROVE Resolved
    <3>1. e.type = type /\ Linking /\ PassOf(e.type) = pass
      BY <2>2 DEF Handles
    <3> QED
      BY <3>1, EntryChain
  <2>3. ASSUME Resolved, NEW id, HasField(id), Field(id).type = "struct"
        PROVE  source[id] # NoName /\ target[id] # NoName
    <3>1. PICK f \in Fields : Id(f) = id /\ f.type = "struct"
      BY <2>3, FieldIs
    <3>2. config \in Configs
      BY DEF IInv, TypeOK
    <3> QED
      BY <2>3, <3>1, <3>2, FieldFacts DEF Resolved, StructGood
  <2> QED
    BY <2>1, <2>2, <2>3 DEF AssertsHold
<1> QED
  BY <1>1, Invariance, PTL

\* Parser and linker accept exactly the good configurations, whatever the
\* order of the statements in the file.
THEOREM AcceptsTheGood == Spec => []OrderIrrelevant
<1>1. IInv => OrderIrrelevant
  BY DEF IInv
<1> QED
  BY <1>1, Invariance, PTL

\* A configuration that is accepted has nothing open.
THEOREM NothingLeft == Spec => []NothingOpen
<1>1. IInv => NothingOpen
  <2> SUFFICES ASSUME IInv, phase = "done" PROVE NothingOpen
    BY DEF NothingOpen
  <2>1. /\ config \in Configs /\ Range(parsed) = config /\ Resolved
        /\ \A j \in DOMAIN rq : Set(j)
    BY AllFine
  <2>2. DOMAIN rq = 1..Len(rq) /\ pass = 3 /\ fails = 0
    BY Queued DEF IInv, Stages
  <2>3. \A f \in Fields : f.ref # NoName => target[Id(f)] = f.ref
    <3>1. pass > 1
      BY <2>2
    <3> QED
      BY <2>1, <3>1, ReferencesKnown DEF IInv
  <2>4. \A f \in Fields : f.type = "struct" =>
          source[Id(f)] = f.source /\ target[Id(f)] = Field(Source(f)).ref
    BY <2>1 DEF Resolved
  <2>5. \A i \in 1..Len(rq) : rq[i].type \notin {"foreign", "struct", "distinct"} => i \in found
    BY <2>1, <2>2 DEF Set
  <2>6. ReadSearches = Searches
    BY <2>1 DEF ReadSearches, Searches
  <2>7. ASSUME NEW s \in Searches, s.distinct # <<>>
        PROVE  /\ Reach(s.strct, s.distinct) = {returns[s]}
               /\ \E i \in DOMAIN rq : rq[i].type = "distinct" /\ rq[i].of = s
    <3>1. s \in Range(parsed) /\ Calls("distinct", s, 1) /\ "distinct" \in Type
      BY <2>1, <2>7 DEF Searches, Calls, Type
    <3>2. PICK i \in DOMAIN rq : rq[i].type = "distinct" /\ rq[i].of = s
      BY <3>1, EntryThere DEF IInv
    <3> QED
      BY <2>1, <3>2 DEF Set
  <2>8. ASSUME NEW s \in Searches PROVE Reach(s.strct, s.distinct) = {returns[s]}
    <3>1. CASE s.distinct = <<>>
      <4>1. returns[s] = s.strct
        BY <2>6, <3>1 DEF IInv, Marked
      <4>2. Reach(s.strct, <<>>) = {s.strct}
        BY <2>1, SearchFacts, ReachNothing
      <4> QED
        BY <3>1, <4>1, <4>2
    <3> QED
      BY <2>7, <3>1
  <2>9. Known = Searches
    <3>1. \A i \in DOMAIN rq : rq[i].type = "distinct" => Passed(i)
      <4>1. next = Len(rq) + 1 /\ Len(rq) \in Nat
        BY Queued DEF IInv, Stages
      <4>2. \A i \in DOMAIN rq : i < next
        BY <2>2, <4>1
      <4> QED
        BY <2>2, <4>2 DEF Passed, PassOf, Chained
    <3> QED
      BY <2>6, <2>7, <3>1 DEF Known
  <2>10. marks = {<<returns[s], s.kind>> : s \in {t \in Searches : t.kind \in {"list", "iterate"}}}
    BY <2>2, <2>9 DEF IInv, Marked
  <2>11. \A u \in Updates : ~u.delete /\ u.mods = <<>> =>
           sets[u] = {f.name : f \in {g \in Columns(u.strct) : "rowid" \notin g.opts}}
    <3>1. Unread = {}
      BY <2>1 DEF Unread
    <3> QED
      BY <3>1 DEF IInv, Accepted
  <2> QED
    BY <2>3, <2>4, <2>5, <2>8, <2>10, <2>11 DEF NothingOpen
<1> QED
  BY <1>1, Invariance, PTL
==============================================================================
