------------------------------- MODULE SqlDiff -------------------------------
(***************************************************************************)
(* A database and the configurations it serves, one after the other: the   *)
(* schema that ort-sql prints for the first (lang-sql.c: ort_lang_sql())   *)
(* and the statements that ort-sqldiff prints for each of the next         *)
(* (ort_lang_diff_sql()), run by sqlite with foreign keys enforced until   *)
(* one fails.  The name of a unique index is that of its columns, sorted,  *)
(* and here the set of them; it does not hold the name of the table.       *)
(***************************************************************************)
EXTENDS Diff

CONSTANTS
  Configs,   \* linked configurations, as in module Diff
  MaxRuns    \* runs of ort-sqldiff

\* The columns of the unique indices of a structure, in the order created.
Indices(s) ==
  LET fields == SelectSeq(s.fields, LAMBDA f : "unique" \in f.flags)
  IN [n \in DOMAIN fields |-> {fields[n].name}] \o s.uniques

\* ort-sql prints a schema that sqlite takes: no index name is used twice.
ASSUME ConfigsAssumption ==
  \A c \in Configs : \A s, t \in ToSet(c.strcts) :
    /\ Cardinality(ToSet(Indices(s))) = Len(Indices(s))
    /\ s # t => ToSet(Indices(s)) \cap ToSet(Indices(t)) = {}

VARIABLES
  cfg,      \* the configuration of the application
  new,      \* the one being migrated to
  status,   \* "idle", "run" or "failed"
  reason,   \* why a statement failed
  script,   \* statements still to be run
  table,    \* table -> columns, column -> its definition
  index,    \* unique index -> its table
  rows,     \* tables that hold rows
  stored,   \* enumeration items stored, with their value
  left,     \* columns that a migration has left behind
  forced,   \* -d was used at some time
  runs      \* migrations begun

vars == <<cfg, new, status, reason, script, table, index, rows, stored, left, forced, runs>>

Columns(s) == {f \in ToSet(s.fields) : f.type # "struct"}

\* gen_field(), gen_fkeys(), gen_diff_field_new(): a column; a default is
\* only part of the statement that adds one.
Column(f, adding) ==
  [type |-> f.type,
   required |-> f.flags \cap {"rowid", "null"} = {} /\ ~(adding /\ "hasdef" \in f.flags),
   to |-> IF f.reference = None THEN None ELSE f.reference[1],
   cascade |-> "cascade" \in f.actions]

Names(S) == {x.name : x \in S}

\* gen_struct(), its CREATE TABLE.
Table(s) ==
  [n \in Names(Columns(s)) |-> Column(CHOOSE f \in Columns(s) : f.name = n, FALSE)]

TypeOK ==
  /\ cfg \in Configs
  /\ new \in Configs
  /\ status \in {"idle", "run", "failed"}
  /\ status = "failed" <=> reason # None
  /\ rows \subseteq DOMAIN table
  /\ \A i \in DOMAIN index : index[i] \in DOMAIN table /\ i \subseteq DOMAIN table[index[i]]
  /\ \A l \in left : l[1] \in DOMAIN table
  /\ runs \in 0..MaxRuns
------------------------------------------------------------------------------
(* ort_lang_diff_sql() of a queue. *)

Is(e, op, kind) == e.op = op /\ e.kind = kind /\ e.part = Whole

\* The structures of an entry about a field or a unique clause.
Owner(c, e) == c.strcts[Named(c.strcts, [name |-> e.owner])]
OldField(e) == Owner(cfg, e).fields[e.from]
NewField(c, e) == Owner(c, e).fields[e.into]

\* Mutant: looks at removed items only.
CheckEnmsKept(e, destruct) == (Is(e, "del", "enm") \/ Is(e, "del", "eitem")) /\ ~destruct

\* gen_check_enms(): entries that count as errors.
CheckEnms(e, destruct) ==
  \/ (Is(e, "del", "enm") \/ Is(e, "del", "eitem")) /\ ~destruct
  \/ e.kind = "eitem" /\ e.part = "value"

\* gen_check_bitfs().
CheckBitfs(e, destruct) ==
  \/ (Is(e, "del", "bitf") \/ Is(e, "del", "bitidx")) /\ ~destruct
  \/ e.kind = "bitidx" /\ e.part = "value"

\* gen_check_fields().
CheckFields(c, e, destruct) ==
  /\ e.kind = "field"
  /\ \/ e.op = "del" /\ ~destruct /\ OldField(e).type # "struct"
     \/ e.part \in {"bitf", "enm", "type", "actions"}
     \/ /\ e.part = "flags"
        /\ OldField(e).flags \cap {"rowid", "null"} # NewField(c, e).flags \cap {"rowid", "null"}
     \/ /\ e.part = "reference"
        /\ "struct" \notin {OldField(e).type, NewField(c, e).type}

\* Mutant: a removed structure is none of its concern.
CheckStrctsNone(e, destruct) == FALSE

\* gen_check_strcts().
CheckStrcts(e, destruct) == Is(e, "del", "strct") /\ ~destruct

Refused(c, q, destruct) ==
  \E e \in ToSet(q) :
    \/ CheckEnms(e, destruct) \/ CheckBitfs(e, destruct)
    \/ CheckFields(c, e, destruct) \/ CheckStrcts(e, destruct)

CreateIndex(s, columns) == [stmt |-> "create index", strct |-> s, columns |-> columns]
DropIndex(columns) == [stmt |-> "drop index", columns |-> columns]

\* A structure that was added: gen_struct().
ForAddedStrct(c, e) ==
  LET s == c.strcts[e.into]
  IN IF ~Is(e, "add", "strct") THEN <<>>
     ELSE <<[stmt |-> "create table", strct |-> s]>>
          \o [n \in DOMAIN Indices(s) |-> CreateIndex(s.name, Indices(s)[n])]

\* A field that was added: gen_diff_field_new(), gen_unique_field().
ForAddedField(c, e) ==
  LET f == NewField(c, e)
  IN IF ~Is(e, "add", "field") \/ f.type = "struct" THEN <<>>
     ELSE <<[stmt |-> "add column", strct |-> e.owner, field |-> f]>>
          \o (IF "unique" \in f.flags THEN <<CreateIndex(e.owner, {f.name})>> ELSE <<>>)

\* A unique clause that was added: gen_unique().
ForAddedUnique(c, e) ==
  IF ~Is(e, "add", "unique") THEN <<>>
  ELSE <<CreateIndex(e.owner, Owner(c, e).uniques[e.into])>>

\* A field that is no longer unique, or is now.
ForFlags(c, e) ==
  IF ~(e.kind = "field" /\ e.part = "flags") THEN <<>>
  ELSE LET was == "unique" \in OldField(e).flags
           is == "unique" \in NewField(c, e).flags
       IN CASE was /\ ~is -> <<DropIndex({NewField(c, e).name})>>
            [] ~was /\ is -> <<CreateIndex(e.owner, {OldField(e).name})>>
            [] OTHER -> <<>>

\* Mutant: forgets the index of a unique field that was removed.
ForRemovedClause(e) ==
  IF Is(e, "del", "unique") THEN <<DropIndex(Owner(cfg, e).uniques[e.from])>> ELSE <<>>

\* gen_diff_unique_field_del(), gen_diff_unique_del().
ForRemoved(e) ==
  CASE Is(e, "del", "field") /\ "unique" \in OldField(e).flags -> <<DropIndex({OldField(e).name})>>
    [] Is(e, "del", "unique") -> <<DropIndex(Owner(cfg, e).uniques[e.from])>>
    [] OTHER -> <<>>

\* A structure that was removed; for a field there is a comment only.
ForRemovedStrct(e) ==
  IF Is(e, "del", "strct") THEN <<[stmt |-> "drop table", strct |-> cfg.strcts[e.from].name]>>
  ELSE <<>>

\* The loops of ort_lang_diff_sql() over the queue, one after the other.
Script(c, q, destruct) ==
  LET All(Of(_)) == FlattenSeq([n \in DOMAIN q |-> Of(q[n])])
  IN All(LAMBDA e : ForAddedStrct(c, e))
     \o All(LAMBDA e : ForAddedField(c, e))
     \o All(LAMBDA e : ForAddedUnique(c, e))
     \o All(LAMBDA e : ForFlags(c, e))
     \o All(ForRemoved)
     \o (IF destruct THEN All(ForRemovedStrct) ELSE <<>>)
------------------------------------------------------------------------------
(* sqlite and the application. *)

\* ort-sql for the first configuration.
Init ==
  /\ cfg \in Configs
  /\ new = cfg
  /\ status = "idle"
  /\ reason = None
  /\ script = <<>>
  /\ table = [n \in Names(ToSet(cfg.strcts)) |-> Table(CHOOSE s \in ToSet(cfg.strcts) : s.name = n)]
  /\ index = [i \in UNION {ToSet(Indices(s)) : s \in ToSet(cfg.strcts)} |->
                (CHOOSE s \in ToSet(cfg.strcts) : i \in ToSet(Indices(s))).name]
  /\ rows = {}
  /\ stored = {}
  /\ left = {}
  /\ forced = FALSE
  /\ runs = 0

\* An insert names all fields of its structure: it needs no other column.
Insertable(s) ==
  \A n \in DOMAIN table[s.name] : table[s.name][n].required => n \in Names(Columns(s))

Items(c, f) == ToSet(c.enms[Named(c.enms, [name |-> f.enm])].items)

\* The application inserts rows into all tables, with every item of every
\* enumeration and no reference null.
Store ==
  /\ status = "idle"
  /\ \A s \in ToSet(cfg.strcts) : Insertable(s)
  /\ rows' = rows \cup Names(ToSet(cfg.strcts))
  /\ stored' = stored \cup UNION {UNION {
       {[strct |-> s.name, field |-> f.name, item |-> i.name, value |-> i.value] : i \in Items(cfg, f)}
         : f \in {f \in Columns(s) : f.type = "enum"}} : s \in ToSet(cfg.strcts)}
  /\ UNCHANGED <<cfg, new, status, reason, script, table, index, left, forced, runs>>

\* ort-sqldiff, with or without -d, accepts the next configuration.
Migrate(c, destruct) ==
  LET q == Diff(cfg, c)
  IN /\ status = "idle"
     /\ runs < MaxRuns
     /\ c # cfg
     /\ ~Refused(c, q, destruct)
     /\ new' = c
     /\ script' = Script(c, q, destruct)
     /\ status' = "run"
     /\ runs' = runs + 1
     /\ forced' = (forced \/ destruct)
     /\ left' = left \cup {<<e.owner, OldField(e).name>> :
          e \in {e \in ToSet(q) : Is(e, "del", "field") /\ OldField(e).type # "struct"}}
     /\ UNCHANGED <<cfg, reason, table, index, rows, stored>>

\* Tables with rows that refer to table t.
Referring(t, cascade) ==
  {u \in rows \ {t} : \E n \in DOMAIN table[u] : table[u][n].to = t /\ table[u][n].cascade = cascade}

\* Why sqlite refuses to add a column, if it does.
AddRefused(t, f) ==
  CASE f.name \in DOMAIN table[t] -> "column exists"
    [] f.name \notin DOMAIN table[t] /\ "rowid" \in f.flags -> "primary key"
    [] t \in rows /\ Column(f, TRUE).required -> "not null"
    [] t \in rows /\ f.reference # None /\ "hasdef" \in f.flags -> "default"
    [] OTHER -> None

\* Why sqlite refuses a statement, if it does.
StmtRefused(st) ==
  CASE st.stmt = "create table" /\ st.strct.name \in DOMAIN table -> "table exists"
    [] st.stmt = "add column" -> AddRefused(st.strct, st.field)
    [] st.stmt = "create index" /\ st.columns \in DOMAIN index -> "index exists"
    [] st.stmt = "drop index" /\ st.columns \notin DOMAIN index -> "no index"
    [] st.stmt = "drop table" /\ st.strct \in rows /\ Referring(st.strct, FALSE) # {} -> "foreign key"
    [] OTHER -> None

\* A statement fails, and the migration with it; rows that are there already
\* may hold a value twice, which a new unique index does not admit.
Fail ==
  /\ status = "run"
  /\ script # <<>>
  /\ \/ StmtRefused(Head(script)) # None /\ reason' = StmtRefused(Head(script))
     \/ /\ StmtRefused(Head(script)) = None
        /\ Head(script).stmt = "create index"
        /\ Head(script).strct \in rows
        /\ reason' = "duplicates"
  /\ status' = "failed"
  /\ UNCHANGED <<cfg, new, script, table, index, rows, stored, left, forced, runs>>

\* The next statement is run.
Ran(stmt) ==
  /\ status = "run"
  /\ script # <<>>
  /\ Head(script).stmt = stmt
  /\ StmtRefused(Head(script)) = None
  /\ script' = Tail(script)
  /\ UNCHANGED <<cfg, new, status, reason, stored, forced, runs>>

CreateTable ==
  LET s == Head(script).strct
  IN /\ Ran("create table")
     /\ table' = [n \in DOMAIN table \cup {s.name} |-> IF n = s.name THEN Table(s) ELSE table[n]]
     /\ UNCHANGED <<index, rows, left>>

AddColumn ==
  LET t == Head(script).strct
      f == Head(script).field
  IN /\ Ran("add column")
     /\ table' = [table EXCEPT ![t] =
          [n \in DOMAIN @ \cup {f.name} |-> IF n = f.name THEN Column(f, TRUE) ELSE @[n]]]
     /\ UNCHANGED <<index, rows, left>>

RunCreateIndex ==
  LET st == Head(script)
  IN /\ Ran("create index")
     /\ index' = [i \in DOMAIN index \cup {st.columns} |->
                    IF i = st.columns THEN st.strct ELSE index[i]]
     /\ UNCHANGED <<table, rows, left>>

RunDropIndex ==
  /\ Ran("drop index")
  /\ index' = [j \in DOMAIN index \ {Head(script).columns} |-> index[j]]
  /\ UNCHANGED <<table, rows, left>>

\* The rows of a table are deleted before it is dropped, with its indices.
DropTable ==
  LET t == Head(script).strct
  IN /\ Ran("drop table")
     /\ table' = [n \in DOMAIN table \ {t} |-> table[n]]
     /\ index' = [i \in {i \in DOMAIN index : index[i] # t} |-> index[i]]
     /\ rows' = IF t \in rows THEN rows \ ({t} \cup Referring(t, TRUE)) ELSE rows
     /\ left' = {l \in left : l[1] # t}

\* The application is replaced by one of the new configuration.
Finish ==
  /\ status = "run"
  /\ script = <<>>
  /\ status' = "idle"
  /\ cfg' = new
  /\ UNCHANGED <<new, reason, script, table, index, rows, stored, left, forced, runs>>

Next ==
  \/ Store
  \/ \E c \in Configs, destruct \in BOOLEAN : Migrate(c, destruct)
  \/ CreateTable \/ AddColumn \/ RunCreateIndex \/ RunDropIndex \/ DropTable
  \/ Fail
  \/ Finish

Spec == Init /\ [][Next]_vars
------------------------------------------------------------------------------
(* Properties. *)

\* After any number of migrations the schema serves the configuration: each
\* structure has its table, each field a column of its type and reference,
\* and the unique indices are those of the configuration, on its tables, and
\* no other.
Converted ==
  status = "idle" =>
    /\ Names(ToSet(cfg.strcts)) = DOMAIN table
    /\ \A s \in ToSet(cfg.strcts) :
         /\ \A f \in Columns(s) :
              /\ f.name \in DOMAIN table[s.name]
              /\ table[s.name][f.name].type = f.type
              /\ table[s.name][f.name].to = Column(f, TRUE).to
         /\ {i \in DOMAIN index : index[i] = s.name} = ToSet(Indices(s))

\* As long as -d is not used, what was stored keeps its meaning, whichever
\* configurations are gone through: its field is still there, and the item of
\* that value is the one it was.
KeepsMeaning ==
  ~forced => \A d \in stored : \E s \in ToSet(cfg.strcts) : \E f \in Columns(s) :
    /\ s.name = d.strct /\ f.name = d.field /\ f.type = "enum"
    /\ \E i \in Items(cfg, f) : i.name = d.item /\ i.value = d.value

\* No statement fails for a table that exists or an index that does not; a
\* column exists only if an earlier -d left it behind, an index only if the old
\* configuration has one of that name, and without -d no foreign key is broken.
FailuresKnown ==
  /\ reason \notin {"table exists", "no index"}
  /\ reason = "column exists" => <<Head(script).strct, Head(script).field.name>> \in left
  /\ reason = "index exists" =>
       \E s \in ToSet(cfg.strcts) :
         s.name # Head(script).strct /\ Head(script).columns \in ToSet(Indices(s))
  /\ reason = "foreign key" => forced

\* man/ort-sqldiff.1:51: the output is "SQL commands to update the
\* configuration oldconfig to the new configuration config"; the one
\* exception is, at 123, a NOT NULL column without a default.
ScriptRuns == status = "failed" => reason = "not null"

\* What remains to be inserted into a migrated table: gen_insert() names the
\* fields of the new configuration only.
InsertsFit == status = "idle" => \A s \in ToSet(cfg.strcts) : Insertable(s)

\* A table is the same whether it was created or grew by migration.
DefaultsAgree ==
  status = "idle" => \A s \in ToSet(cfg.strcts) : \A f \in Columns(s) :
    table[s.name][f.name].required = Column(f, FALSE).required
==============================================================================
