------------------------------ MODULE Objects ------------------------------
(***************************************************************************)
(* An object and those it refers to, in a generated library: the columns   *)
(* that a search selects (gen_sql_stmt_schema() and gen_sql_stmt_join(),   *)
(* lang.c), the object filled from them, one statement more for each       *)
(* reference that may be null ("reffind"), and its release.  Each is a     *)
(* recursion of its own over the graph that StructOrder ends with.         *)
(*                                                                         *)
(* An object is named by the path of fields from the one returned.         *)
(***************************************************************************)
EXTENDS StructOrder, Functions

VARIABLES
  nullable,  \* "struct" fields <<structure, number>> over a field that may be null
  nullrefs,  \* structures with STRCT_HAS_NULLREFS
  queried,   \* structures with searches, one at most
  lang,      \* "c" or "node"
  dst,       \* a search and its "distinct": <<structure, path>>
  stage,     \* "link", "idle", "fill", "find", "out", "free", "over" or "stop"
  why,       \* why it stopped
  work,      \* calls <<function, path, next field>>, the current one first
  row,       \* column groups not yet read, by the path of their object
  object,    \* path -> the columns it was filled from, fields that are null
  store,     \* paths of objects whose memory is allocated
  gone       \* a reference was to no row

call == <<nullable, nullrefs, queried, lang, dst>>
memory == <<object, store>>
ovars == <<call, stage, why, work, row, memory, gone>>

ObjectInit ==
  /\ Init
  /\ nullable = {} /\ nullrefs = {} /\ queried = {}
  /\ lang = "c" /\ dst = <<>>
  /\ stage = "link" /\ why = "" /\ work = <<>> /\ row = <<>>
  /\ object = [p \in {} |-> 0] /\ store = {} /\ gone = FALSE

Field == {<<s, i>> \in Strct \X (1..MaxRefs) : i \in DOMAIN refs[s]}

StructAt(s, path) == FoldLeft(LAMBDA t, i : refs[t][i], s, path)
------------------------------------------------------------------------------
(* The last of ort_parse_close(). *)

\* Mutant: of its own fields only.
NullsBelowOwn(s, null) == \E i \in DOMAIN refs[s] : <<s, i>> \in null

\* check_reffind()
RECURSIVE NullsBelow(_, _)
NullsBelow(s, null) ==
  \E i \in DOMAIN refs[s] : <<s, i>> \in null \/ NullsBelow(refs[s][i], null)

\* Which references may be null is of no account before.
FlagNullRefs ==
  /\ phase = "done" /\ stage = "link"
  /\ nullable' \in SUBSET Field
  /\ nullrefs' = {s \in Strct : NullsBelow(s, nullable')}
  /\ queried' \in {{}} \cup {{s} : s \in Strct}
  /\ stage' = "idle"
  /\ UNCHANGED <<lang, dst, why, work, row, memory, gone>>
------------------------------------------------------------------------------
(* Which functions a C library defines, and which it calls. *)

\* Mutant: what the row holds.
RECURSIVE FillDepJoined(_)
FillDepJoined(s) ==
  {s} \cup UNION {FillDepJoined(refs[s][i]) : i \in {j \in DOMAIN refs[s] : <<s, j>> \notin nullable}}

\* gen_filldep()
RECURSIVE FillDep(_)
FillDep(s) == {s} \cup UNION {FillDep(t) : t \in Range(refs[s])}

Filled == UNION {FillDep(s) : s \in queried}

Defined ==
  ({"fill_r"} \X Filled) \cup ({"reffind"} \X nullrefs) \cup ({"query"} \X queried)

CalledBy(fn) ==
  LET s == fn[2]
  IN  CASE fn[1] = "query" -> {<<"fill_r", s>>} \cup ({"reffind"} \X ({s} \cap nullrefs))
        [] fn[1] = "fill_r" ->
             {"fill_r"} \X {refs[s][i] : i \in {j \in DOMAIN refs[s] : <<s, j>> \notin nullable}}
        [] fn[1] = "reffind" ->
             {"fill_r"} \X {refs[s][i] : i \in {j \in DOMAIN refs[s] : <<s, j>> \in nullable}}
               \cup {"reffind"} \X (Range(refs[s]) \cap nullrefs)
------------------------------------------------------------------------------
(* A statement. *)

\* Fields of s whose objects come with the row.
Joined(s) == SelectSeq([i \in DOMAIN refs[s] |-> i], LAMBDA i : <<s, i>> \notin nullable)

\* Mutant: the objects of a structure side by side, then those they refer to.
ColumnsFlat(s, path) ==
  LET own == Joined(s)
  IN  <<path>> \o [k \in DOMAIN own |-> Append(path, own[k])]
        \o FlattenSeq([k \in DOMAIN own |->
             LET t == refs[s][own[k]] IN
             [j \in DOMAIN Joined(t) |-> Append(Append(path, own[k]), Joined(t)[j])]])

\* gen_sql_stmt_schema(): groups of columns, that of s first.
RECURSIVE Columns(_, _)
Columns(s, path) ==
  <<path>> \o FlattenSeq([k \in DOMAIN Joined(s) |->
    Columns(refs[s][Joined(s)[k]], Append(path, Joined(s)[k]))])

\* gen_sql_stmt_join(): what is joined, the parent of each before it.
RECURSIVE Joins(_, _)
Joins(s, path) ==
  FlattenSeq([k \in DOMAIN Joined(s) |->
    <<Append(path, Joined(s)[k])>>
      \o Joins(refs[s][Joined(s)[k]], Append(path, Joined(s)[k]))])

AliasOf(s, path) == (CHOOSE a \in aq : a.of = s /\ a.path = path).name

\* The database takes a statement over s that asks for the columns of the
\* object at the path: it knows all names, and none is given twice.
Valid(s, path) ==
  LET js == Joins(s, <<>>)
  IN  /\ \A c \in Range(Columns(StructAt(s, path), path)) : c = <<>> \/ c \in Range(js)
      /\ \A n \in DOMAIN js : Front(js[n]) = <<>> \/ \E m \in 1..n - 1 : js[m] = Front(js[n])
      /\ \A n, m \in DOMAIN js : n # m => AliasOf(s, js[n]) # AliasOf(s, js[m])
------------------------------------------------------------------------------
(* A search that finds a row. *)

Root == StructAt(dst[1], dst[2])
At(p) == StructAt(Root, p)
Null(p) == {i \in DOMAIN refs[At(p)] : <<At(p), i>> \in nullable}

Stop(reason) ==
  /\ stage' = "stop" /\ why' = reason
  /\ UNCHANGED <<call, work, row, memory, gone>>

Search ==
  /\ stage = "idle"
  /\ lang' \in {"c", "node"}
  /\ \E s \in queried : \E path \in Range(Columns(s, <<>>)) :
       /\ dst' = <<s, path>>
       /\ IF Valid(s, path)
          THEN /\ row' = Columns(StructAt(s, path), <<>>)
               /\ work' = <<<<"fill", <<>>, 0>>>>
               /\ stage' = "fill" /\ UNCHANGED why
          ELSE stage' = "stop" /\ why' = "refused" /\ UNCHANGED <<row, work>>
  /\ UNCHANGED <<nullable, nullrefs, queried, memory, gone>>

Calling(fn) == stage \in {"fill", "find", "free"} /\ work # <<>> /\ work[1][1] = fn

\* Mutant: last field first.
FillsReverse(p) ==
  LET own == Reverse(Joined(At(p))) IN [k \in DOMAIN own |-> <<"fill", Append(p, own[k]), 0>>]

\* Objects that come with the row.
Fills(p) ==
  LET own == Joined(At(p)) IN [k \in DOMAIN own |-> <<"fill", Append(p, own[k]), 0>>]

Take ==
  /\ Calling("fill") /\ row # <<>>
  /\ \E null \in SUBSET Null(work[1][2]) :
       object' = (work[1][2] :> [columns |-> row[1], null |-> null]) @@ object
  /\ row' = Tail(row)
  /\ work' = Fills(work[1][2]) \o Tail(work)
  /\ UNCHANGED <<call, stage, why, gone>>

\* db_foo_fill() takes its columns and allocates, db_foo_fill_r() goes on with
\* the objects that came with them.
Fill == lang = "c" /\ Take /\ store' = store \cup {work[1][2]}

\* An object of Node.js, made with null for references that may be, and with
\* what is next in the row for the others.
FillNode == lang = "node" /\ Take /\ UNCHANGED store

\* No look at res->psz: the columns of a row that there is not.
ReadPast == Calling("fill") /\ row = <<>> /\ Stop("past")

\* db_foo_reffind(), if the structure has it.
StartFind ==
  /\ stage = "fill" /\ work = <<>>
  /\ stage' = "find"
  /\ work' = IF Root \in nullrefs THEN <<<<"find", <<>>, 1>>>> ELSE <<>>
  /\ UNCHANGED <<call, why, row, memory, gone>>

Finding == Calling("find") /\ (lang = "c" \/ work[1][2] \in DOMAIN object)

\* The object under field i, and calls to look for what it refers to.
Below(p, i) == Append(p, i)
FindBelow(p, i) ==
  IF refs[At(p)][i] \in nullrefs THEN <<<<"find", Below(p, i), 1>>>> ELSE <<>>
Onward(p, i) == <<<<"find", p, i + 1>>>> \o Tail(work)

HasRef(p, i) == p \in DOMAIN object /\ i \notin object[p].null

\* STMT_foo_BY_UNIQUE_bar, of the row that the field names.
Follow ==
  /\ Finding
  /\ LET p == work[1][2]  i == work[1][3]
     IN  /\ i \in Null(p) /\ HasRef(p, i)
         /\ IF Valid(refs[At(p)][i], <<>>)
            THEN /\ row' = Columns(refs[At(p)][i], Below(p, i))
                 /\ work' = <<<<"fill", Below(p, i), 0>>>> \o FindBelow(p, i) \o Onward(p, i)
                 /\ UNCHANGED <<stage, why>>
            ELSE stage' = "stop" /\ why' = "refused" /\ UNCHANGED <<row, work>>
  /\ UNCHANGED <<call, memory, gone>>

\* There is none, where foreign keys are not enforced, or since it was removed
\* after the first statement ended: "referenced row not found" in Node.js, C
\* goes on.
FollowGone ==
  /\ Finding
  /\ LET p == work[1][2]  i == work[1][3]
     IN  /\ i \in Null(p) /\ HasRef(p, i)
         /\ gone' = TRUE
         /\ IF lang = "c"
            THEN work' = <<<<"fill", Below(p, i), 0>>>> \o Tail(work) /\ UNCHANGED <<stage, why>>
            ELSE stage' = "stop" /\ why' = "thrown" /\ UNCHANGED work
  /\ UNCHANGED <<call, row, memory>>

\* A reference that is null, or that came with the row: only what is below it.
\* In C an object that was not filled is all zero, its references null.
PassBy ==
  /\ Finding
  /\ LET p == work[1][2]  i == work[1][3]
     IN  /\ i \in DOMAIN refs[At(p)] /\ ~(i \in Null(p) /\ HasRef(p, i))
         /\ work' = FindBelow(p, i) \o Onward(p, i)
  /\ UNCHANGED <<call, stage, why, row, memory, gone>>

FindReturn ==
  /\ Finding
  /\ work[1][3] > Len(refs[At(work[1][2])])
  /\ work' = Tail(work)
  /\ UNCHANGED <<call, stage, why, row, memory, gone>>

\* Node.js looks into an object that is null.
FindInNull == Calling("find") /\ ~Finding /\ Stop("null")

Hand ==
  /\ stage = "find" /\ work = <<>>
  /\ stage' = "out"
  /\ UNCHANGED <<call, why, work, row, memory, gone>>
------------------------------------------------------------------------------
(* db_foo_free(). *)

Free ==
  /\ stage = "out"
  /\ stage' = IF lang = "c" THEN "free" ELSE "over"
  /\ work' = IF lang = "c" THEN <<<<"unfill", <<>>, 0>>>> ELSE <<>>
  /\ UNCHANGED <<call, why, row, memory, gone>>

\* Mutant: leaves references that may be null.
UnfillsJoined(p) ==
  LET own == Joined(At(p)) IN [k \in DOMAIN own |-> <<"unfill", Append(p, own[k]), 0>>]

\* gen_unfill_r()
Unfills(p) ==
  LET own == SelectSeq([i \in DOMAIN refs[At(p)] |-> i], LAMBDA i : i \in Null(p) => HasRef(p, i))
  IN  [k \in DOMAIN own |-> <<"unfill", Append(p, own[k]), 0>>]

\* Memory that was never allocated is zero, and free(NULL) does nothing.
Unfill ==
  /\ Calling("unfill")
  /\ IF work[1][2] \in DOMAIN object \ store
     THEN stage' = "stop" /\ why' = "twice" /\ UNCHANGED <<work, store>>
     ELSE /\ store' = store \ {work[1][2]}
          /\ work' = Unfills(work[1][2]) \o Tail(work)
          /\ UNCHANGED <<stage, why>>
  /\ UNCHANGED <<call, row, object, gone>>

Freed ==
  /\ stage = "free" /\ work = <<>>
  /\ stage' = "over"
  /\ UNCHANGED <<call, why, work, row, memory, gone>>

ObjectNext ==
  \/ FlagNullRefs \/ Search
  \/ Fill \/ FillNode \/ ReadPast
  \/ StartFind \/ Follow \/ FollowGone \/ PassBy \/ FindReturn \/ FindInNull
  \/ Hand \/ Free \/ Unfill \/ Freed

\* The program that links, then the library that it prints; the application
\* calls that when it likes.
ObjectSpec ==
  /\ ObjectInit
  /\ [][(Next /\ UNCHANGED ovars) \/ (ObjectNext /\ UNCHANGED vars)]_<<vars, ovars>>
  /\ WF_vars(Next /\ UNCHANGED ovars)
------------------------------------------------------------------------------
(* Properties. *)

\* An object is handed out with all it refers to, directly or not, through
\* fields that may be null and are not, each filled from its own columns:
\* those of the statement are in the order in which they are taken.
FilledExactly ==
  stage = "out" =>
    /\ <<>> \in DOMAIN object
    /\ \A p \in DOMAIN object :
         /\ object[p].columns = p
         /\ \A i \in DOMAIN refs[At(p)] : Below(p, i) \in DOMAIN object <=> i \notin object[p].null
         /\ p = <<>> \/ Front(p) \in DOMAIN object

\* A Node.js library goes into what is null where a reference that may be null
\* is to a structure with such references.
LooksIntoNull ==
  \E p \in DOMAIN object : \E i \in object[p].null : refs[At(p)][i] \in nullrefs

\* A call that does not end stopped for a row that was gone or, in Node.js,
\* looking into null; one that ends has released all it allocated, once.
CallEnds ==
  /\ stage = "stop" => gone \/ (lang = "node" /\ why = "null" /\ LooksIntoNull)
  /\ stage = "over" => store = {}

\* Every function that a C library calls is defined in it.  (Or its caller is
\* db_foo_reffind() of a structure that no search reaches, which is printed
\* all the same.)
DefinedWhereCalled ==
  stage = "idle" =>
    \A fn \in Defined : CalledBy(fn) \subseteq Defined \/ (fn[1] = "reffind" /\ fn[2] \notin Filled)

\* lang-c-source.c:1671: "this is only done for structures that have (or have
\* nested) structures with null foreign keys", of those that searches reach
\* (lang-c-source.c:3095).  So of all.
AllDefined == stage = "idle" => \A fn \in Defined : CalledBy(fn) \subseteq Defined

\* lang-c-source.c:1671: null keys are filled "IFF they aren't null".
NeverLooksIntoNull == why # "null"

\* linker_aliases.c:40: names are made for up to 26 * 26 * 26 aliases, so of
\* letters for all.
AliasesOfLetters == \A a \in aq : \A n \in DOMAIN a.name : a.name[n] < Letters
==============================================================================
