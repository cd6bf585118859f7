----------------------------- MODULE LinkResolve -----------------------------
(***************************************************************************)
(* From the file to a linked configuration: the statements of structures   *)
(* (parser_struct.c, parser_field.c) and the resolution of names           *)
(* (linker_resolve.c).  The parser knows a configuration only up to the    *)
(* statement it reads, so for every name that refers to something else it  *)
(* appends an entry to a queue (config.priv.rq), in the order of the file. *)
(* linker_resolve() runs over the queue three times: entries that need     *)
(* only what was parsed, those that need the foreign references, and those *)
(* that follow "struct" fields.  It stops after a pass with failures.      *)
(* The queries are checked last (linker.c).  Role maps pass through the    *)
(* same queue: see RoleMaps.  Recursive structures, which are found        *)
(* between these steps, are in StructOrder.                                *)
(***************************************************************************)
EXTENDS Integers, Sequences, SequencesExt

CONSTANTS
  Strct,    \* names of structures
  Name,     \* names of fields
  Item,     \* enumerations: name -> its items
  Bitf,     \* names of bitfields
  NoName,   \* where a field has no reference, source, type name or default
  Configs   \* configurations: sets of statements

FieldId == Strct \X Name

Chain == Seq(Name) \ {<<>>}   \* names joined by dots
MayChain == Seq(Name)         \* <<>> where the clause is missing

Mod == {"set", "inc", "concat"}
Op == {"eq", "gt", "streq", "like", "notnull", "and"}

\* "bits" stands for bitfields, action for those of actup and of actdel.
FieldStmt ==
  [stmt : {"field"}, strct : Strct, name : Name,
   type : {"int", "text", "enum", "bits", "password", "struct"},
   opts : SUBSET {"rowid", "unique", "null"},
   ref : FieldId \cup {NoName},      \* foreign reference
   source : Name \cup {NoName},      \* of a "struct": the local reference
   names : STRING \cup {NoName},     \* of an "enum" or "bits": its type
   default : STRING \cup {NoName},
   action : {"none", "default", "nullify"}]

\* "distinct ." is no clause here: it is the structure itself that is returned.
SearchStmt ==
  [stmt : {"search"}, strct : Strct,
   kind : {"search", "list", "iterate", "count"},
   terms : Seq([chain : Chain, op : Op]), order : Seq(Chain),
   aggr : MayChain, group : MayChain, distinct : MayChain,
   name : STRING \cup {NoName}]

UpdateStmt ==
  [stmt : {"update"}, strct : Strct, delete : BOOLEAN,
   mods : Seq([name : Name, mod : Mod]), where : Seq([name : Name, op : Op])]

UniqueStmt == [stmt : {"unique"}, strct : Strct, fields : Seq(Name)]

Stmt == FieldStmt \cup SearchStmt \cup UpdateStmt \cup UniqueStmt

ASSUME NamesAssumption == NoName \notin Strct

ASSUME ConfigsAssumption ==
  \A c \in Configs : \A st \in c :
    /\ st \in Stmt
    /\ st.stmt = "field" => /\ st.type = "struct" <=> st.source # NoName
                            /\ st.type \in {"enum", "bits"} <=> st.names # NoName
    /\ st.stmt = "update" /\ st.delete => st.mods = <<>>

VARIABLES
  config,   \* what the file holds
  parsed,   \* statements in the order read
  rq,       \* the resolve queue: type, statement, and which of its names
  phase,    \* "parse", "link", "check", "done" or "fail"
  pass,     \* 1, 2 or 3
  next,     \* position in the queue
  fails,    \* failures of this pass
  found,    \* positions in the queue whose single result was set
  source,   \* "struct" field -> its source, once resolved
  target,   \* field -> the field its reference targets, once resolved
  sets,     \* update without modifiers -> the fields it sets all the same
  returns,  \* search -> structure it returns, once known
  marks     \* STRCT_HAS_QUEUE and STRCT_HAS_ITERATOR of structures

tables == <<source, target, sets, returns, marks>>

vars == <<config, parsed, rq, phase, pass, next, fails, found, tables>>

Fields == {st \in config : st.stmt = "field"}
Searches == {st \in config : st.stmt = "search"}
Updates == {st \in config : st.stmt = "update"}
Uniques == {st \in config : st.stmt = "unique"}

Id(f) == <<f.strct, f.name>>
HasField(id) == \E f \in Fields : Id(f) = id
FieldIn(fields, id) == CHOOSE f \in fields : Id(f) = id
Field(id) == FieldIn(Fields, id)
Null(f) == "null" \in f.opts

Type == {"foreign", "struct", "enum", "bits", "default", "unique", "modifier",
         "constraint", "term", "order", "aggr", "grouprow", "distinct"}

TypeOK ==
  /\ config \in Configs
  /\ parsed \in Seq(config)
  /\ rq \in Seq([type : Type, of : config, n : Nat])
  /\ phase \in {"parse", "link", "check", "done", "fail"}
  /\ pass \in 1..3 /\ next \in 1..Len(rq) + 1 /\ fails \in 0..Len(rq)
  /\ found \subseteq 1..Len(rq)
  /\ source \in [FieldId -> Name \cup {NoName}]
  /\ target \in [FieldId -> FieldId \cup {NoName}]
  /\ sets \in [Updates -> SUBSET Name]
  /\ returns \in [Searches -> Strct \cup {NoName}]
  /\ marks \subseteq Strct \X {"list", "iterate"}

Init ==
  /\ config \in Configs
  /\ parsed = <<>> /\ rq = <<>>
  /\ phase = "parse" /\ pass = 1 /\ next = 1 /\ fails = 0 /\ found = {}
  /\ source = [id \in FieldId |-> NoName]
  /\ target = [id \in FieldId |-> NoName]
  /\ sets = [u \in Updates |-> {}]
  /\ returns = [s \in Searches |-> NoName]
  /\ marks = {}
------------------------------------------------------------------------------
(* The parser's part.  Each parser of a clause queues what it names. *)

Entries(type, st, count) ==
  [i \in 1..count |-> [type |-> type, of |-> st, n |-> i]]

EntryIf(cond, type, st) == Entries(type, st, IF cond THEN 1 ELSE 0)

ForeignEntry(f) == EntryIf(f.ref # NoName, "foreign", f)
StructEntry(f) == EntryIf(f.type = "struct", "struct", f)
EnumEntry(f) == EntryIf(f.type = "enum", "enum", f)
BitsEntry(f) == EntryIf(f.type = "bits", "bits", f)
DefaultEntry(f) == EntryIf(f.type = "enum" /\ f.default # NoName, "default", f)

FieldEntries(f) ==
  ForeignEntry(f) \o BitsEntry(f) \o EnumEntry(f) \o StructEntry(f) \o DefaultEntry(f)

TermEntries(s) == Entries("term", s, Len(s.terms))
OrderEntries(s) == Entries("order", s, Len(s.order))
AggrEntry(s) == EntryIf(s.aggr # <<>>, "aggr", s)
GroupEntry(s) == EntryIf(s.group # <<>>, "grouprow", s)
DistinctEntry(s) == EntryIf(s.distinct # <<>>, "distinct", s)

SearchEntries(s) ==
  TermEntries(s) \o OrderEntries(s) \o AggrEntry(s) \o GroupEntry(s) \o DistinctEntry(s)

\* uref_alloc()
UpdateEntries(u) ==
  Entries("modifier", u, Len(u.mods)) \o Entries("constraint", u, Len(u.where))

Unread == config \ Range(parsed)

\* A structure's statements stand together, in any order, as do structures.
MayFollow(st) ==
  parsed # <<>> =>
    \A u \in Unread : u.strct = Last(parsed).strct => st.strct = Last(parsed).strct

ReadOf(stmt, strct) == {st \in Range(parsed) : st.stmt = stmt /\ st.strct = strct}

\* field_alloc()
NewField(f) == \A g \in ReadOf("field", f.strct) : g.name # f.name

\* Options that go together, in whatever order they are given.
FieldOptions(f) ==
  /\ "rowid" \in f.opts => f.type = "int" /\ f.ref = NoName /\ ~Null(f)
  /\ f.type = "struct" => f.opts = {} /\ f.ref = NoName
  /\ f.default # NoName => f.type \notin {"struct", "password"}
  /\ f.action # "none" => f.ref # NoName
  /\ f.action = "default" => Null(f) \/ f.default # NoName
  /\ f.action = "nullify" => Null(f)

\* parse_field_info()
FieldInfo(f) ==
  /\ FieldOptions(f)
  /\ "rowid" \in f.opts => \A g \in ReadOf("field", f.strct) : "rowid" \notin g.opts

\* parse_config_search_params()
SearchParams(s) ==
  /\ s.name = NoName \/ \A t \in ReadOf("search", s.strct) : t.name # s.name
  /\ s.group = <<>> <=> s.aggr = <<>>

\* Mutant: a structure's updates take the fields read before them.
UpdateAllEarly(st) ==
  [u \in Updates |->
     IF u = st /\ ~u.delete /\ u.mods = <<>>
     THEN {f.name : f \in {g \in ReadOf("field", st.strct) :
                              "rowid" \notin g.opts /\ g.type # "struct"}}
     ELSE sets[u]]

\* parse_struct_post(), at the end of a structure.
UpdateAll(st) ==
  [u \in Updates |->
     IF /\ \A v \in Unread \ {st} : v.strct # st.strct
        /\ u.strct = st.strct /\ ~u.delete /\ u.mods = <<>>
     THEN {f.name : f \in {g \in ReadOf("field", st.strct) \cup ({st} \cap Fields) :
                              "rowid" \notin g.opts /\ g.type # "struct"}}
     ELSE sets[u]]

\* A statement that is refused ends the parse, as does a structure left
\* without fields.
Read(st, entries, ok) ==
  /\ phase = "parse"
  /\ st \in Unread /\ MayFollow(st)
  /\ parsed' = Append(parsed, st)
  /\ rq' = rq \o entries
  /\ phase' = IF /\ ok
                 /\ \/ \E v \in Unread \ {st} : v.strct = st.strct
                    \/ st.stmt = "field" \/ ReadOf("field", st.strct) # {}
              THEN phase ELSE "fail"
  /\ sets' = IF phase' = "parse" THEN UpdateAll(st) ELSE sets
  /\ UNCHANGED <<config, pass, next, fails, found, source, target>>

ParseField(f) ==
  /\ f.stmt = "field"
  /\ Read(f, FieldEntries(f), NewField(f) /\ FieldInfo(f))
  /\ UNCHANGED <<returns, marks>>

\* A search that lists or iterates and is not "distinct" marks its structure.
ParseSearch(s) ==
  /\ s.stmt = "search"
  /\ Read(s, SearchEntries(s), SearchParams(s))
  /\ IF s.distinct = <<>>
     THEN /\ returns' = [returns EXCEPT ![s] = s.strct]
          /\ marks' = IF s.kind \in {"list", "iterate"} THEN marks \cup {<<s.strct, s.kind>>}
                      ELSE marks
     ELSE UNCHANGED <<returns, marks>>

ParseUpdate(u) ==
  /\ u.stmt = "update"
  /\ Read(u, UpdateEntries(u), TRUE)
  /\ UNCHANGED <<returns, marks>>

ParseUnique(u) ==
  /\ u.stmt = "unique"
  /\ Read(u, Entries("unique", u, Len(u.fields)), Len(u.fields) >= 2)
  /\ UNCHANGED <<returns, marks>>

EndParse ==
  /\ phase = "parse"
  /\ Unread = {}
  /\ phase' = "link"
  /\ UNCHANGED <<config, parsed, rq, pass, next, fails, found, tables>>
------------------------------------------------------------------------------
(* linker_resolve(). *)

\* Entries that follow "struct" fields.
Chained == {"term", "order", "aggr", "grouprow", "distinct"}

\* Mutant: "struct" fields are resolved in the first pass.
PassOfEarly(type) == IF type \in Chained THEN 3 ELSE IF type = "default" THEN 2 ELSE 1

PassOf(type) == IF type \in Chained THEN 3 ELSE IF type \in {"default", "struct"} THEN 2 ELSE 1

Linking == phase = "link" /\ next <= Len(rq)

Entry == rq[next].of

Handling(type) ==
  /\ Linking
  /\ rq[next].type = type
  /\ PassOf(type) = pass
  /\ next' = next + 1
  /\ UNCHANGED <<config, parsed, rq, phase, pass, sets>>

Tally(ok) == fails' = IF ok THEN fails ELSE fails + 1

Skip ==
  /\ Linking
  /\ PassOf(rq[next].type) # pass
  /\ next' = next + 1
  /\ UNCHANGED <<config, parsed, rq, phase, pass, fails, found, tables>>

\* An entry whose result is set, and counted as good or not.
Result(set, ok) ==
  /\ found' = IF set THEN found \cup {next} ELSE found
  /\ Tally(ok)
  /\ UNCHANGED <<source, target, returns, marks>>

\* resolve_field_foreign(): the target must be there, unique and of the type.
ResolveForeign ==
  /\ Handling("foreign")
  /\ target' = IF HasField(Entry.ref) THEN [target EXCEPT ![Id(Entry)] = Entry.ref]
               ELSE target
  /\ Tally(/\ HasField(Entry.ref)
           /\ Field(Entry.ref).opts \cap {"rowid", "unique"} # {}
           /\ Field(Entry.ref).type = Entry.type)
  /\ UNCHANGED <<found, source, returns, marks>>

\* resolve_field_enum()
ResolveEnum ==
  /\ Handling("enum")
  /\ LET ok == Entry.names \in DOMAIN Item IN Result(ok, ok)

\* resolve_field_bits()
ResolveBits ==
  /\ Handling("bits")
  /\ LET ok == Entry.names \in Bitf IN Result(ok, ok)

\* resolve_field_def_eitem()
ResolveDefault ==
  /\ Handling("default")
  /\ LET ok == Entry.default \in Item[Entry.names] IN Result(ok, ok)

\* resolve_struct_unique(): no structs, and no field twice.
ResolveUnique ==
  /\ Handling("unique")
  /\ LET name == Entry.fields[rq[next].n]
         ok == /\ HasField(<<Entry.strct, name>>)
               /\ Field(<<Entry.strct, name>>).type # "struct"
               /\ \A i \in found : rq[i].type = "unique" /\ rq[i].of = Entry =>
                                     Entry.fields[rq[i].n] # name
     IN  Result(ok, ok)

\* resolve_up_mod(): the result is set even if the field will not do.
ResolveModifier ==
  /\ Handling("modifier")
  /\ LET id == <<Entry.strct, Entry.mods[rq[next].n].name>>
         mod == Entry.mods[rq[next].n].mod
     IN  Result(HasField(id),
                /\ HasField(id)
                /\ Field(id).type # "struct"
                /\ mod = "concat" => Field(id).type = "text"
                /\ mod = "inc" => Field(id).type \in {"int", "enum", "bits"})

\* resolve_up_const(), likewise.
ResolveConstraint ==
  /\ Handling("constraint")
  /\ LET id == <<Entry.strct, Entry.where[rq[next].n].name>>
         op == Entry.where[rq[next].n].op
     IN  Result(HasField(id),
                /\ HasField(id)
                /\ Field(id).type # "struct"
                /\ Field(id).type = "password" => op \in {"streq", "notnull"}
                /\ op = "like" => Field(id).type = "text")

\* Mutant: takes the source itself for the target.
ResolveStructSelf ==
  /\ Handling("struct")
  /\ LET src == <<Entry.strct, Entry.source>>
         isRef == HasField(src) /\ Field(src).type # "struct" /\ Field(src).ref # NoName
     IN  /\ source' = IF HasField(src) THEN [source EXCEPT ![Id(Entry)] = Entry.source]
                      ELSE source
         /\ target' = IF isRef THEN [target EXCEPT ![Id(Entry)] = src] ELSE target
         /\ Tally(isRef)
  /\ UNCHANGED <<found, returns, marks>>

\* resolve_field_struct(): the target is that of the source, which must be a
\* reference; "struct" fields are not.
ResolveStruct ==
  /\ Handling("struct")
  /\ LET src == <<Entry.strct, Entry.source>>
         isRef == HasField(src) /\ Field(src).type # "struct" /\ Field(src).ref # NoName
     IN  /\ source' = IF HasField(src) THEN [source EXCEPT ![Id(Entry)] = Entry.source]
                      ELSE source
         /\ target' = IF isRef THEN [target EXCEPT ![Id(Entry)] = target[src]] ELSE target
         /\ Tally(isRef /\ target[src] # NoName)
  /\ UNCHANGED <<found, returns, marks>>
------------------------------------------------------------------------------
(* resolve_field_chain(): names are followed from structure to structure. *)

\* A field that may stand before another in a chain.
MayDescend(id) ==
  /\ HasField(id)
  /\ Field(id).type = "struct"
  /\ ~Null(Field(<<id[1], source[id]>>))

\* The structures in which the names are looked up; NoName where it fails.
Walk(s, names) ==
  LET at[i \in 1..Len(names)] ==
        IF i = 1 THEN s
        ELSE IF at[i - 1] # NoName /\ MayDescend(<<at[i - 1], names[i - 1]>>)
             THEN target[<<at[i - 1], names[i - 1]>>][1]
             ELSE NoName
  IN  at

ChainEnd(s, names) == <<Walk(s, names)[Len(names)], Last(names)>>

\* The names of an entry, as its parser collected them (name_append()).
Names(e) == IF e.type = "term" THEN e.of.terms[e.n].chain
            ELSE IF e.type = "order" THEN e.of.order[e.n]
            ELSE IF e.type = "aggr" THEN e.of.aggr
            ELSE IF e.type = "grouprow" THEN e.of.group
            ELSE e.of.distinct

Terminal == ChainEnd(Entry.strct, Names(rq[next]))

\* A terminal field that can be compared, or ordered by.
IsColumn == HasField(Terminal) /\ Field(Terminal).type # "struct"

\* One that rows can be grouped by.
IsGroupable == IsColumn /\ Field(Terminal).type # "password" /\ ~Null(Field(Terminal))

\* resolve_struct_sent()
ResolveTerm == Handling("term") /\ Result(IsColumn, IsColumn)

\* resolve_struct_order()
ResolveOrder == Handling("order") /\ Result(IsColumn, IsColumn)

\* resolve_struct_aggr()
ResolveAggr == Handling("aggr") /\ Result(IsGroupable, IsGroupable)

\* resolve_struct_grouprow()
ResolveGrouprow == Handling("grouprow") /\ Result(IsGroupable, IsGroupable)

\* resolve_struct_distinct(): and marks the structure that is returned.
ResolveDistinct ==
  /\ Handling("distinct")
  /\ LET ok == MayDescend(Terminal)
         ret == target[Terminal][1]
     IN  /\ returns' = IF ok THEN [returns EXCEPT ![Entry] = ret] ELSE returns
         /\ marks' = IF ok /\ Entry.kind \in {"list", "iterate"}
                     THEN marks \cup {<<ret, Entry.kind>>} ELSE marks
         /\ Tally(ok)
  /\ UNCHANGED <<found, source, target>>

\* Mutant: failures of the first pass do not stop the second.
EndPassOn ==
  /\ phase = "link" /\ next > Len(rq)
  /\ IF pass = 3 THEN phase' = (IF fails > 0 THEN "fail" ELSE "check")
                      /\ UNCHANGED <<pass, next>>
     ELSE pass' = pass + 1 /\ next' = 1 /\ UNCHANGED phase
  /\ UNCHANGED <<config, parsed, rq, fails, found, tables>>

EndPass ==
  /\ phase = "link" /\ next > Len(rq)
  /\ \/ /\ fails > 0
        /\ phase' = "fail"
        /\ UNCHANGED <<pass, next>>
     \/ /\ fails = 0 /\ pass < 3
        /\ pass' = pass + 1 /\ next' = 1
        /\ UNCHANGED phase
     \/ /\ fails = 0 /\ pass = 3
        /\ phase' = "check"
        /\ UNCHANGED <<pass, next>>
  /\ UNCHANGED <<config, parsed, rq, fails, found, tables>>
------------------------------------------------------------------------------
(* Checks of the linked queries, in ort_parse_close(). *)

FieldAt(s, chain) == Field(ChainEnd(s.strct, chain))

\* check_aggrtype()
AggrOk(s) ==
  s.group # <<>> =>
    /\ FieldAt(s, s.aggr) # FieldAt(s, s.group)
    /\ FieldAt(s, s.aggr).strct = FieldAt(s, s.group).strct

\* check_searchtype(): what else it looks at, it only warns of.
SearchOk(s) ==
  \A i \in 1..Len(s.terms) :
    LET f == FieldAt(s, s.terms[i].chain)
        op == s.terms[i].op
    IN  /\ op = "and" => f.type \in {"int", "bits"}
        /\ op = "like" => f.type = "text"
        /\ f.type = "password" =>
             op \in IF s.kind = "count" \/ s.distinct # <<>> THEN {"streq", "notnull"}
                    ELSE {"streq", "notnull", "eq"}

CheckQueries ==
  /\ phase = "check"
  /\ phase' = IF \A s \in Searches : AggrOk(s) /\ SearchOk(s) THEN "done" ELSE "fail"
  /\ UNCHANGED <<config, parsed, rq, pass, next, fails, found, tables>>

Next ==
  \/ \E st \in config : ParseField(st) \/ ParseSearch(st) \/ ParseUpdate(st) \/ ParseUnique(st)
  \/ EndParse
  \/ ResolveForeign \/ ResolveEnum \/ ResolveBits \/ ResolveUnique
  \/ ResolveModifier \/ ResolveConstraint
  \/ ResolveDefault \/ ResolveStruct
  \/ ResolveTerm \/ ResolveOrder \/ ResolveAggr \/ ResolveGrouprow \/ ResolveDistinct
  \/ Skip \/ EndPass
  \/ CheckQueries

Spec == Init /\ [][Next]_vars
------------------------------------------------------------------------------
(* Properties. *)

Handles(type) == Linking /\ rq[next].type = type /\ PassOf(type) = pass

\* The assertions of resolve_field_def_eitem() and resolve_field_chain(): when
\* an entry is handled, what it follows was resolved before, in whatever order
\* the file gave the statements.
AssertsHold ==
  /\ Handles("default") => \E i \in found : rq[i].type = "enum" /\ rq[i].of = Entry
  /\ \A type \in Chained : Handles(type) =>
       LET names == Names(rq[next])
           at == Walk(Entry.strct, names)
       IN  \A i \in 1..Len(names) :
             LET id == <<at[i], names[i]>>
             IN  HasField(id) /\ Field(id).type = "struct" /\ (i < Len(names) \/ type = "distinct")
                   => source[id] # NoName /\ target[id] # NoName

\* What the manual asks of a configuration, with no queue and no passes.
RefGood(f) ==
  /\ HasField(f.ref)
  /\ Field(f.ref).opts \cap {"rowid", "unique"} # {}
  /\ Field(f.ref).type = f.type

Source(f) == <<f.strct, f.source>>

StructGood(f) ==
  HasField(Source(f)) /\ Field(Source(f)).ref # NoName /\ RefGood(Field(Source(f)))

FieldGood(f) ==
  /\ FieldOptions(f)
  /\ \A g \in Fields \ {f} : g.strct = f.strct =>
       g.name # f.name /\ ~("rowid" \in f.opts /\ "rowid" \in g.opts)
  /\ f.ref # NoName => RefGood(f)
  /\ f.type = "struct" => StructGood(f)
  /\ f.type = "enum" => f.names \in DOMAIN Item
  /\ f.type = "bits" => f.names \in Bitf
  /\ f.type = "enum" /\ f.default # NoName => f.default \in Item[f.names]

Columns(s) == {f \in Fields : f.strct = s /\ f.type # "struct"}

UniqueGood(u) ==
  /\ Len(u.fields) >= 2 /\ IsInjective(u.fields)
  /\ Range(u.fields) \subseteq {f.name : f \in Columns(u.strct)}

\* Increments are for numbers, concatenation and "like" for text; a password
\* is constrained by its hash only.
UpdateGood(u) ==
  /\ \A m \in Range(u.mods) : \E f \in Columns(u.strct) :
       /\ f.name = m.name
       /\ m.mod = "concat" => f.type = "text"
       /\ m.mod = "inc" => f.type \in {"int", "enum", "bits"}
  /\ \A w \in Range(u.where) : \E f \in Columns(u.strct) :
       /\ f.name = w.name
       /\ w.op = "like" => f.type = "text"
       /\ f.type = "password" => w.op \in {"streq", "notnull"}

\* The structure reached from s over "struct" fields that cannot be null.
Reach(s, names) ==
  {end \in Strct : \E at \in [0..Len(names) -> Strct] :
     /\ at[0] = s /\ at[Len(names)] = end
     /\ \A i \in 1..Len(names) : \E f \in Fields :
          /\ Id(f) = <<at[i - 1], names[i]>> /\ f.type = "struct"
          /\ StructGood(f) /\ ~Null(Field(Source(f))) /\ Field(Source(f)).ref[1] = at[i]}

ColumnsAt(s, chain) ==
  {f \in UNION {Columns(t) : t \in Reach(s.strct, Front(chain))} : f.name = Last(chain)}

TermGood(s, t) ==
  \E f \in ColumnsAt(s, t.chain) :
    /\ t.op = "and" => f.type \in {"int", "bits"}
    /\ t.op = "like" => f.type = "text"
    /\ f.type = "password" =>
         /\ t.op # "gt"
         /\ t.op = "eq" => s.kind # "count" /\ s.distinct = <<>>

GroupGood(s) ==
  s.group # <<>> =>
    \E f \in ColumnsAt(s, s.aggr), g \in ColumnsAt(s, s.group) :
      /\ f # g /\ f.strct = g.strct
      /\ \A h \in {f, g} : h.type # "password" /\ ~Null(h)

SearchGood(s) ==
  /\ \A t \in Range(s.terms) : TermGood(s, t)
  /\ \A o \in Range(s.order) : ColumnsAt(s, o) # {}
  /\ s.group = <<>> <=> s.aggr = <<>>
  /\ GroupGood(s)
  /\ s.distinct = <<>> \/ Reach(s.strct, s.distinct) # {}
  /\ \A t \in Searches \ {s} : t.strct = s.strct => s.name = NoName \/ t.name # s.name

Good ==
  /\ \A st \in config : \E f \in Fields : f.strct = st.strct
  /\ \A f \in Fields : FieldGood(f)
  /\ \A u \in Updates : UpdateGood(u)
  /\ \A u \in Uniques : UniqueGood(u)
  /\ \A s \in Searches : SearchGood(s)

\* Parsing and linking succeed on the good configurations and no other: the
\* order of the statements in the file, and so that of the queue, has no part
\* in it.
OrderIrrelevant == (phase = "done" => Good) /\ (phase = "fail" => ~Good)

\* A linked configuration has nothing left open that the generators follow
\* without a look: references, the one result of every other entry, the
\* structure a search returns (which gets list and iterator types for exactly
\* the searches that need them), and the fields of an update that names none.
NothingOpen ==
  phase = "done" =>
    /\ \A f \in Fields : f.ref # NoName => target[Id(f)] = f.ref
    /\ \A f \in Fields : f.type = "struct" =>
         source[Id(f)] = f.source /\ target[Id(f)] = Field(Source(f)).ref
    /\ \A i \in 1..Len(rq) : rq[i].type \notin {"foreign", "struct", "distinct"} => i \in found
    /\ \A s \in Searches : Reach(s.strct, s.distinct) = {returns[s]}
    /\ marks = {<<returns[s], s.kind>> : s \in {t \in Searches : t.kind \in {"list", "iterate"}}}
    /\ \A u \in Updates : ~u.delete /\ u.mods = <<>> =>
         sets[u] = {f.name : f \in {g \in Columns(u.strct) : "rowid" \notin g.opts}}

==============================================================================
