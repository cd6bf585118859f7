# TLA+ models of ort

ort (this repository) reads a description of structures, queries and roles
(`ort(5)`) and generates C, SQL, Node.js, JavaScript and other sources from it.
This directory holds TLA+ models of its parser's and linker's algorithms and of
the code it generates, configurations that check them with TLC, and proofs
about them that TLAPS checks.

Two kinds of program are modelled.  The *compiler* is one thread that turns text
into a graph of objects: what is hard is order (of the file, of passes, of
structures), shared objects and recursion.  The *generated library* is a state
machine driven by the calls of an application, next to a second process (sqlbox)
that holds a copy of part of its state: what is hard is sequences of calls, two
copies that must agree, and several walks over the same list that must count
alike.  Where the generator prints straight-line code, the model is of what it
prints, as run.

## Inventory

| Part | State | Operations | With whom | Hard behaviour, and what makes it correct |
| --- | --- | --- | --- | --- |
| Lexer, top-level parser (`parser.c`) | stack of buffers, last token, error | `parse_next`, `parse_root`, `ort_parse_file` | statement parsers; messages | one pass, stops at the first error; every error leaves a configuration that can be freed |
| Roles (`parser_roles.c`) | tree below three reserved roots | `parse_roles` | role maps, generators, audit | a tree, with "all" above everything but the other two roots |
| Structures, fields (`parser_struct.c`, `parser_field.c`) | `struct strct`, fields, searches, updates, role maps, unique clauses, and the resolve queue | one parser for each statement | linker, through the queue | a name may be used before it is made: everything that refers goes into the queue |
| Enumerations, bitfields (`parser_enum.c`, `parser_bitfield.c`) | items and values | `parse_enum`, `parse_bitfield` | linker, generators | values differ; automatic values stay within the integer type |
| Name resolution (`linker_resolve.c`) | queue, three passes, failures | one handler for each type of entry | parsers before, linker after | result does not depend on the order of the file; nothing is followed before it is resolved |
| Aliases (`linker_aliases.c`) | alias names, counter | recursion over references | SQL statements | ends; finds recursive structures; names differ; a search marked unique finds one row |
| Linker (`linker.c`) | colours, heights, order of structures | checks; `annotate`, sort | C header, SQL | structures come after those they embed; duplicates are found |
| Audit (`audit.c`, `audit-json.c`) | paths, list of results | `follow`, `ort_audit` | role trees | reports what a role can reach, wherever the walk starts |
| Differences (`diff.c`, `writer-diff.c`) | queue of differences | compare two configurations; print the queue | SQL migration | empty for equal configurations; every difference reported once; the same seen from both sides |
| SQL (`lang-sql.c`, `lang.c`) | none but the output; the database it is run on | schema, migration, statements | differences; C and Node.js | a migration that runs ends at the new schema; stored values keep their meaning; each statement valid where it stands; parameters as the callers bind them |
| Generated C (`lang-c-source.c`, `lang-c-header.c`, `lang-c.c`) | `struct ort`: role and sqlbox handle; objects with the role they were read under | `db_open`, `db_role`, queries, insert, update, JSON, validators | sqlbox process (role tree, statement list), application, callbacks | the two roles agree; only granted queries return; arguments meet their parameters; every structure filled from its own columns; objects released once |
| Generated Node.js (`lang-nodejs.c`) | `#role`, database handle | `db_role`, queries, transactions | application | as for C, without a second process |
| Writer (`writer.c`) | output | one printer for each part of a configuration | the parser, which reads the output | read back, the configuration is the same |
| Generated JavaScript, manual page, JSON, XLIFF | output | | | text that must be read back (JSON, XLIFF) |
| `config.c`, `log.c`, tools, portability code | allocated objects, messages | alloc, free, print | all | release from any state |

`PROJECT.json` lists the same parts with their status, and under `hazards` the
places where each of these difficulties bites.

## Modules

| Module | Models | Runs |
| --- | --- | --- |
| `Roles` | role trees and walks up and down them | (constants of the next) |
| `RoleSwitch` | abstract: what the manuals promise of `db_role()` | as a property of `DbRole` |
| `RoleState` | what both libraries keep of roles: the variables of the next two | |
| `DbRole` | roles in a generated C library: `db_open()`, `db_role()`, queries, the sqlbox process | `DbRole` |
| `RoleProofs` | theorems about `DbRole`, and about `NodeRole` with `Audit` | (TLAPS) |
| `QueryCallProofs`, `EnumItemsProofs`, `UniqueClausesProofs`, `StructOrderProofs`, `RoleMapsProofs`, `LinkResolveProofs` | theorems about the module of that name; `EnumItemsProofs` about `Values` too | (TLAPS) |
| `CountLemmas` | lemmas: counting along a list, least and greatest numbers, the course of a loop, what holds up to a number, finite sets in an order | (TLAPS) |
| `NodeRole` | roles in a generated Node.js module | `NodeRole`, `NodeRoleUp` |
| `Audit` | ort-audit, beside what exported objects show (extends `NodeRole`) | `NodeRole` |
| `RoleMaps` | "roles" statements of a structure, from the parser to the linked maps, and written again | `RoleMaps` |
| `LinkResolve` | statements of structures, the resolve queue and its three passes, checks of queries | `LinkResolve` |
| `StructOrder` | aliases and their names, recursion, heights and the order of structures | `StructOrder` |
| `Objects` | objects of a query: columns, nested structures, null references, release (extends `StructOrder`) | `StructOrder` |
| `UniqueClauses` | duplicate "unique" clauses, and the searches they mark as of one row | `UniqueClauses` |
| `EnumItems` | values of enumeration items | `EnumItems` |
| `Values` | bitfields, limits of fields, and the validators printed of them (extends `EnumItems`) | `EnumItems` |
| `QueryCall` | one call of a generated function that runs a statement: queries, insert, update and delete, in C and Node.js | `QueryCall`, `QueryCallBind` |
| `Diff` | operators: the differences of two configurations | (used by the next ones) |
| `Writer`, `Reader` | operators: what ort writes of a configuration, and what its parser makes of that | (used by the next) |
| `ConfigDiff` | ort-diff: the queue of differences and the lines printed of it, also of a configuration and itself rewritten | `ConfigDiff` |
| `SqlDiff` | a database and its migrations by ort-sqldiff, as sqlite runs them | `SqlDiff` |
| `SampleConfigs` | constructors of configurations for TLC | |

The compiler's modules follow a configuration through parser and linker
(`RoleMaps`, `LinkResolve`, `EnumItems`, `UniqueClauses`, `StructOrder`); the
generated library's follow a program that runs (`DbRole`, `NodeRole`,
`QueryCall`).  Four modules join parts: `Objects` runs the functions printed for
the structures that `StructOrder` has linked; `Values` validates requests by the
values that `EnumItems` gave out; `Audit` holds the audit of a role against what
the library of `NodeRole` shows that role; `ConfigDiff` compares what `Writer`
and `Reader` make of a configuration with the configuration.  `SqlDiff` composes
`Diff` with a database that outlives the configurations.

`MC*` modules give a module's constants their values for TLC.  Operators named
after a comment "Mutant:" are variants of the definition that follows, with a
plausible mistake; nothing uses them, and replacing the definition by one of
them must break the property named in `PROJECT.json`.

### Roles and DbRole

A tree is a function from a role to its parent, built so that no set of roles is
closed under the parent (a parent exists before its child in the parser).
Ancestors are defined without recursion, as the intersection of closed sets, so
that TLAPS can use them.  `DbRole` keeps the role twice, as the program does:
`role` is `ctx->role`, moved by the switch that `gen_func_rolecases()` prints
(`Targets`); `box` is the role in the sqlbox process, moved by the hierarchy
that `gen_role_hier()` prints (`BoxAbove`).  sqlbox is not in the repository:
`BoxMayEnter` and `BoxAllows` state what the generated code relies on, with the
default role as the starting point and source of every other.
`SetRole` is `db_role()` in the order of the code: sqlbox first (the program
exits if it refuses), then the switch, which may abort.  `Query` runs a
statement, may run a second one for a nullable reference (`gen_reffind()`), and
stamps the object with the role (`gen_fill()`); `PROJECT.json` maps it to
`gen_search()`, which calls both.

`RoleSwitch` is the abstract state machine of the manuals: start as "default",
move to an ancestor, or anywhere out of "default", or to "none", or stop.
`ImplementsRoleSwitch` checks, and `KeepsPromise` proves, that `DbRole`
implements it with the program's end as `Stop`.

### NodeRole

The same variables (`RoleState`) without `box`.  One role, two switches: the
moves printed by `gen_ortctx_dbrole_role()`, the guard printed by
`gen_rolemap()` at the head of each query.

### Audit

No state of its own.  `Follow` is `follow()`, which makes a visit of each structure
and goes down at every one of them, as exported or not; `Enter` is what a visit
leaves: an entry with the marks of the fields when it is the first of its
structure, one path more, and perhaps an entry turned into an exported one.
`Reach` is the entries after the visits of all queries listed.  Both recursions
(the walk, and the export of nested objects) are written as `Depth` levels, one
for each structure: references are acyclic, so no path has more (`LevelsSuffice`,
and `ExportWhole` for the recursion of `db_export_foo()` itself).
`Export` is what a program can print of the object a query gave it, by the
`noexport` of fields and the role stored in objects.  A field goes by the map
that linking left it (`rolemap`), the start of a walk by the map of the
structure's own `noexport;` (`hideall`), as in the code.  Nothing is assumed of
the two together, for they may differ: linking stops at the first role in common
(`RoleMaps!Merged`), so after `roles r1 {noexport z;}; roles r1, r2 {noexport;};`
field `z` is exported to `r2`, while ort-audit starts as not exported.

`AuditExact` compares audit and export in each state of `NodeRole` for the role
in hand, over models of structures with references, shared structures, fields
hidden from some roles, and maps that differ.  What is reported is always shown;
what is shown is reported, unless the walk starts as not exported and the object
is of another structure ("distinct") or `FieldsHave` is false, some field lacking
a role of the structure's map.  Without `noexport` of named fields `FieldsHave`
is true: `AuditedAsLinked` proves it of `RoleMaps`.  That both exceptions are real
shows `ReadOnlyHidden`, which has none of them and fails (below).

### RoleMaps

Role maps are objects with identity: `maps` is the sequence of them, operations
and fields hold an index.  That is the point of the model, since the linker
shares maps ("all" between operations, an unnamed "noexport" between fields) and
adds roles through one holder.  One action per handler of the second pass; the
fields of a "noexport" are linked in one step, since to merge a shared map twice
with the same roles adds nothing.
`Post` is the third pass and the check for duplicate roles in `linker.c`.
History variable `decl` is what the statements said.  `Rewrite` is what
`writer.c` prints of the linked maps, put through parser and linker once more.

### LinkResolve

`config` is a set of statements.  One action per parser of a statement reads
them in any order that keeps the statements of a structure together, refuses
what the parser refuses, and appends to `rq`, the queue, what the parsers of its
clauses name; the end of a structure gives an update without modifiers its
fields (`UpdateAll`).  Then one action per type of entry, with its failure
counted as in the code; the entries of other passes are skipped.  `CheckQueries`
is what `ort_parse_close()` asks of linked queries.  `Good` says without queue
or passes which configurations should link, and `OrderIrrelevant` compares.  Six
operators and three modifiers stand for all, one for each case that is told
apart, as do the types of fields (no blobs, dates and the like).  Left out:
limits of fields, allocation failure, names in other case.

### StructOrder

The two depth-first recursions of `linker_aliases_create()` and `annotate()`,
with their stacks.  Alias names are sequences of numbers made as
`linker_aliases.c` makes its letters; the alphabet is a constant (26 in the
code), so that the limit of its cube is reached.  The order that results is that
of the definitions in the C header.

### Objects

`row` is what a statement returns: one group of columns for each object it joins,
in the order that `gen_sql_stmt_schema()` prints them.  `work` is the stack of
calls of fill, reffind and unfill, each of which recurses over the references by
rules of its own; an object is named by the path of fields that leads to it.  A
nullable reference is to a row, to none, or null.  Memory is allocated by fill
and reffind and released by unfill; the Node.js variant keeps no memory but
returns objects in the same way.  `Defined` and `CalledBy` are which functions
the generator prints and which ones it prints calls of.

### UniqueClauses, EnumItems

Both are loops over lists in which the loop changes what it still has to look
at: the first sorts clauses it goes on comparing, the second counts up to the
end of the integer type while it assigns.  `UniqueClauses` has one action per
turn of the inner loop; a clause it accepted, or a unique field, marks searches
(`IsUnique`), which `OneRow` tries on pairs of rows that the constraints let
into one table.  `EnumItems` has two passes because the code does:
`parse_enum_data()` assigns automatic values and `parse_enum()` again.

### Values

Parsers of a bitfield's items and of a field's limits, one item or limit at a
time, then the validators that `lang-c-source.c` and `lang-nodejs.c` print of the
result.  A request is an integer of the width in hand; for a text it stands for
the length, for an e-mail address that of a good one.  `CStores` and
`NodeStores` are the values that reach the database, none if refused.

### QueryCall

A call of a function that runs a statement.  A term or field to set is a value
(argument and parameter), hashed (a password: hashed before it is bound if set,
verified afterwards and no parameter if searched for), unary (neither) or left
out (`skip`).  The generator counts these in the signature, the statement, the
binding, the hash buffers and the password checks, each by a walk of its own; one
action is one turn of such a walk.  `parms` and `out` are what was bound and
handed out, `p` and `live` the object of the row, `open` the statements that are
not yet finalised.  `NothingLeft` is what callers with a statement of their own
rely on, the callback of `db_foo_iterate()` among them.  In phase "refused" sqlite does not take the statement.  `good` is the choice of
which passwords match the row in hand.

### Diff and ConfigDiff

`Diff` holds operators only.  A configuration is a record of sequences, an
element of it a record of its parts; `Diff(from, into)` is the queue that
`ort_diff()` makes, entry for entry and in its order, since the writer and
`SqlDiff` depend on both.  `Walk` is the shape that most comparisons share
(match by name, then look for what has no match); `SamePart` holds the
exceptions of `ort_diff_field()`, `DiffQueries` the matching of named and unnamed
queries.  Names and pointers are the position of an element and the name of what
it belongs to.  `ConfigDiff` builds the queue in the four steps of `ort_diff()`,
then goes through it as `writer-diff.c` does, in three levels; asserts of the
writer are the phase "abort".  Abstracted: text, headings, and the contents of
comments, rolemaps and search terms, which are compared as values.

### Writer and Reader

`FileText` is `ort_write_file()`, from a configuration to a text, and `ReadFile`
the parser's way back; `FileRefused` says which texts the parser refuses.  A text is a record of blocks, a block a sequence of clauses with their
words; what may change on the way keeps its form: constants are numbers with an
exponent, as "%g" rounds them and as the lexer ends them; labels and comments
keep their white space; languages are numbered in the order the parser meets
them.  `ConfigDiff` starts from two configurations or from one and its rewriting
(`via = "rewritten"`), so that the comparison of `diff.c` is the measure:
`RewriteKeeps` names all that is lost.


### SqlDiff

`table`, `index` and `rows` are the database: its columns and what they demand,
unique indices by name, and which tables hold rows.  `Migrate` is a run of
ort-sqldiff that refuses nothing, with `Script` the statements it prints in the
order of its six loops; then sqlite runs them, one action per statement, until
one fails (`StmtRefused` says when; sqlite is not in the repository).  In between
the application of the current configuration stores rows.  A unique index is
named after its columns and not its table; the name is here the set of them, so
that `a_b` and the pair `a`, `b` are told apart, which sqlite would not.  `left`,
`forced` and `stored` are history: columns that `-d` left behind, whether it was
used, and which item each stored value stood for.

## Runs

All passing runs end with no error.  CHECK_DEADLOCK is FALSE in each because
each system stops: the linker returns, a call returns, a library is stopped by
`exit()` or `abort()`, bounds are used up.

| Run | Bounds | Why they are enough |
| --- | --- | --- |
| `DbRole` | 3 roles in all 16 trees; 2 queries, one on a structure with nullable references; role maps none, "all", a named role with "default" | three roles give chains, siblings and separate trees; proved for all sizes besides |
| `NodeRole` | the same trees and role maps; 8 models of 3 structures | as above; the models have chains, diamonds, shared structures, "distinct", fields hidden from some or all, and fields whose maps lost or gained roles when they were linked |
| `RoleMaps` | 2 roles and an unknown one, 2 operations and a missing one, 2 fields, 4 role names written | four names reach: a map written twice, "all" with an operation that has its own, and three maps merged into one field |
| `LinkResolve` | 20 configurations over 3 structures with a chain of 2 references, 73 over one structure | the chain needs all three passes; each bad configuration breaks one condition of one handler, in every order of its statements |
| `StructOrder` | 3 structures, 2 references each, null or not, 2 file orders; 2 letters, so 8 aliases | all graphs, so cycles through and beside the first structure, diamonds, double references, a null reference above and below others; the limit is both reached and not |
| `UniqueClauses` | 3 fields, 3 clauses; all pairs of rows, as far as they are told apart | three clauses are needed for a duplicate behind one that is none; two rows refute one |
| `EnumItems` | integers -4..3, bitfields of 3 bits, 4 items, 2 limits | what matters of the width is that items and bits reach its end; two limits may exclude each other |
| `QueryCall` | 4 fields and terms, 3 rows | every order of the four kinds of term; rows after a rejected one |
| `ConfigDiff` | 50 configurations, all ordered pairs, and each with its rewriting | each part that is compared differs in some pair; pairs two changes apart meet entries of several owners in one queue; each part has a value that writing changes, if there is one |
| `SqlDiff` | 18 configurations over 3 tables, 3 migrations | what one migration leaves behind meets the next; three bring a column or item back after it went |

The type invariant of `DbRole` is checked and proved.  Other modules state one
that their runs leave out for the sake of other properties; it holds on the same
instances, and is proved of `NodeRole`, `QueryCall`, `EnumItems`,
`UniqueClauses`, `StructOrder`, `RoleMaps` and `LinkResolve`.

What each property says is in the comment above it.  The ones that carry most:
`RoleSync`, `PrivilegesShrink`, `StoredNotAbove`, `ImplementsRoleSwitch` and
`BoxMatchesSwitch` (two hierarchies, generated separately, decide alike over any
sequence of calls); `OpRolesExact` (shared maps end with the roles written);
`OrderIrrelevant` and `AssertsHold` (passes against the order of the file);
`NoneRecursive` and `LinkEnds` (recursion with a test against one structure
only); `BindsTerms` and `NothingLeft` (five walks over one list; each object released
once, each statement finished); `FilledExactly` (columns printed by one recursion
and read by another); `AuditExact` (what is reported against what is shown);
`ValidsAgree` (two generators, one meaning of a limit); `OneRow` (a flag set from
clauses against the rows that they let in); `RewriteKeeps` (writer against
parser); `EmptyIffEqual` and `Mirror` (two loops for the two directions of each comparison); `Converted`
(six loops of statements against the schema asked for) and `KeepsMeaning`
(numbers in a database against a chain of configurations).

**Fairness** is used once: the steps of `StructOrder` are weakly fair, in its own
specification and in that of `Objects`, for the linker is one thread that is not
waiting for anything, and `LinkEnds` says that it ends.
The libraries are driven by an application that may stop calling; they promise
no liveness.

### Where code and documents part

Two runs expect a violation; each refutes what a comment or manual says
(`findings` in `PROJECT.json` quote it).

- `NodeRoleUp`, `OnlyToAncestors`: the Node.js `db_role()` lets a role move to
  its descendants and aborts for its ancestors, the reverse of what its comment
  and manual say; the inner `case` labels are printed downwards.
- `QueryCallBind`, `BindsAlways`: `gen_iterator()` swaps the two counters, so a
  search that verifies a password binds later arguments to the wrong slots, past
  the end of the array.

The modules state further ones, which hold no run of their own; add the
definition to the `INVARIANTS` of the module's passing configuration to see it
fail.

- `RoleMaps!NoexportHonoured`: merging the roles of two "noexport" statements
  stops at the first role in common, and later ones are exported
  (`linker_resolve.c:557`; the comment at 535 says "just skipped").
- `Audit!ReadOnlyHidden`: ort-audit reports a structure as "read" and not
  "readwrite" (`man/ort-audit.1:66`: "whether it may be exported"), of which an
  object shows fields.  It goes by the map of the structure searched
  (`audit.c:181`), whose roles a field may have lost by the above, and which need
  not be the structure that a "distinct" query returns.
- `ConfigDiff!Reproduced`: ort's output is not always read back as
  what it was (`man/ort.1:40`).  A default of a date is written as one integer
  and refused (three are expected); reals go through "%g", which keeps six digits
  and may print an exponent that the lexer does not know; a limit of a bitfield
  field, which the parser takes, ends in an abort (`writer.c:289`).  Blanks
  in labels and the numbers of languages change besides.
- `QueryCall!SearchesPasswords`: the statement of a search for passwords alone
  ends in "WHERE", which sqlite refuses; and a Node.js search passes hashed
  passwords for which its statement has no "?", and never verifies them
  (`lang-nodejs.c:1090`; `man/ort.5:248`).  `RefusedKnown` has these, and the
  update of a structure whose only field is its rowid, with nothing to set.
- `Objects!NeverLooksIntoNull`: in Node.js `db_a_reffind()` goes on to the
  references of an object that is null, and throws
  (`lang-c-source.c:1671` says "IFF they aren't null").
- `Objects!AllDefined`: a structure with a nullable reference to one without
  searches, and none of its own, is given a function that calls one that is not
  printed: its C source does not compile.
- `Objects!AliasesOfLetters`: past 26 * 26 aliases the middle letter runs
  beyond "z" (`linker_aliases.c:82`).  Names differ as long as letters are counted,
  as the model does; those of the code are of type char, and come to the end of a
  string at alias 4134.
- `Audit!AuditLists`: an operation that was given no roles is not listed, though
  Node.js lets any role call it.
- `Values!LimitsHold`: Node.js ignores limits of e-mail addresses
  (`man/ort.5:342`: "all of them must validate").
- `Values!BitsBelowWidth`: the bit validator of Node.js accepts 64
  (`man/ort-nodejs.1:419`: null if "not in 0-63").
- `UniqueClauses!OneRowAlways`: a search with a term on a unique field of a
  referenced structure is marked as of one row, though several rows may refer to
  that one (`linker_aliases.c:162`).
- `UniqueClauses!NoneEqual`: `break` for `continue` in `check_unique_unique()`
  (`linker.c:392`): a duplicate is missed behind a clause of the same size that
  is none.
- `ConfigDiff!AllWritten`, `ConfigDiff!NamedRight`: the writer's list of roles
  has a case for a removed enumeration item where one for a removed role is meant
  (`writer-diff.c:986`): removed roles are not printed, and such an item is
  printed as a role, from the wrong member of a union.
- `ConfigDiff!LabelsSame`: labels are compared by the number of their language
  (`diff.c:107`), which two configurations may give out differently: ort-diff
  exits with 0 for configurations that differ.  Nor does ort-diff go on where
  two updates have one name, which the parser lets through: it stops at an assert
  (`writer-diff.c:462`).
- `SqlDiff!ScriptRuns`: statements of a migration fail for more than the one
  reason the manual gives: an index created before the one of its name is dropped
  (a unique field that moves to another table), a table dropped while another
  refers to it, a column added that `-d` only pretended to drop, a primary key
  added to a table.
- `SqlDiff!InsertsFit`: after `-d` a NOT NULL column is left that no insert names.
- `SqlDiff!DefaultsAgree`: `default` is part of ALTER TABLE and not of CREATE
  TABLE, so a schema depends on how it came about.
- `RoleState!NoneMayBeEntered`, of `DbRole` and of `NodeRole`: no `case` for "none",
  so entering it from a role other than "default" aborts, where
  `lang-c-header.c:997` and the manuals allow it.
- `DbRole!NamedRoleRuns`: a query granted to "default" exits when a nullable
  reference is set, for the follow-up statement is given to the roles below
  "all" only (`lang-c-source.c:824`; `man/ort.5:720`).
- `DbRole!AllHasDefault`: "all" does not include "default"
  (`lang-c-source.c:794`; `man/ort.5:704-718`).
- `NodeRole!DefaultDeny`: an operation without role map has no guard
  (`lang-nodejs.c:178`; `man/ort.5:1034`).
- `RoleMaps!NoexportOnlyNamed`: after `noexport;` all fields share a map, and
  `noexport foo;` adds to all (`linker_resolve.c:545`).
- `StructOrder!EmbeddedFirst`: a structure that two others embed may be defined
  after one of them (`linker.c:84`): heights are summed per round and not
  revisited within it.
- `QueryCall!NeverCrashes`: `db_foo_get()` with two verified passwords reads
  `p->password` after it released `p` (`lang-c-source.c:1397`).
- `EnumItems!OverflowIsReal`: overflow is reported though all values fit, when
  an item with a value follows (`parser_enum.c:218`).
- `EnumItems!DocLimit`: the limits are of 64 bits, in the manual of 32.

Seen while reading, in parts that no module covers: COUNT(DISTINCT ...) is
printed with several columns, which sqlite does not take (`lang.c:519`); "limit 0,
n" prints OFFSET without LIMIT; `db_trans_open_immediate()` of Node.js opens a deferred transaction with a
name, and `db_trans_commit()` depends on an `if` that lacks its `return`
(`lang-nodejs.c:2110`).

## Proofs

Each theorem is of the whole specification, for every value of the constants
that the `ASSUME` of its module admits.  Constants that bound a run (`MaxRows`,
`MaxRefs`, `MaxItems`, `MaxRoles`) are arbitrary natural numbers there.

The shape is the same everywhere: an inductive invariant `IInv`, one lemma for
each action that it is not obvious of (`HashPassIInv`, `AnnotateIInv`), `StepIInv`
for the next-state relation, `Invariance` for the specification, and a theorem for
each property that follows from it.  Each `IInv` was checked by TLC on the
instance of the module's run before it was proved.

### Roles: RoleProofs

The assumptions are that the reserved roles are distinct and not among the named
ones (`ReservedAssumption`), and that role maps hold roles and never "none", which
the grammar reserves (`RolemapAssumption`).

For `DbRole`, `IInv` is `TypeOK`, `RoleSync`, `OnlyGranted` and `StoredNotAbove`.
`OnlyGranted` alone is not inductive, since a query is checked against `box` and
the object stamped with `role`: it needs `RoleSync`.  `StoredNotAbove` needs that
moves go to ancestors (`TargetsAbove`) and that ancestry is transitive
(`AncestorsTransitive`).  `BoxMatches` shows for a single state that the
statement list and the switch mean the same, by `TopRoleAbove`: whoever is below
"all" is below one of its children.  All properties of the run follow:
`GrantedIsRun` looks at the step before `exit`, with `BoxMatches`;
`PrivilegesOnlyShrink` is an action property; `KeepsPromise` is the refinement,
where initial states map to initial states and each step to a move, a stop or a
stutter.

For `NodeRole`, whose names begin with "Node" where `DbRole` has one like it,
`NodeTypeOK`, `Guarded` and `StoredAbove` are inductive together (`NodeIInv`).
Beside the two properties of the run it is proved that the audit lists what may
be called (`AuditListsCallable`, the first conjunct of `AuditExact`), that audit
and export agree on each field (`AuditFieldsExact`), and that lowering the role
never opens a field of an object read before (`LowerShowsLess`): role maps are
inherited down the tree (`MapInherited`).

`AuditIsExact` is `AuditExact` as a whole, for every set of configurations that
`ModelAssumption` admits.  The invariant is small (`NodeTypeOK`, and that the
query just made is one the role may call: `LastCallable`); the argument is about
the walk.  What an exported visit reports below a structure is what an export
writes of it: for one level this is the agreement on each field (`AgreeBelow`),
for all levels it goes up by `UpTo` of `CountLemmas` (`AuditOfQuery`).  Entry by
entry, what is stored after each visit is the list of visits so far of that
structure, with marks that depend on it alone and a flag that is their
disjunction (`EnterNext`, `ReachIs`); so what is reported of one query is what
its own walk found, whatever was visited before (`ReportedIs`).  A walk that
starts as not exported reports nothing; that the export is empty then takes the
hypothesis that the structure returned is the one searched and that its fields
have the roles it goes by (`HiddenAsWhole`).  `RoleMapsProofs` proves the second
of structures without `noexport` of named fields (`AuditedAsLinked`), from the
invariant of role maps and `FieldsWithheld`.

### Calls: QueryCallProofs

`IInv` says where each counter is when a walk has passed `i - 1` terms: at one
more than the number of terms of its kind among them (`Count` of `CountLemmas`).
`HashWalk` has the buffers that are filled by then, `BindWalk` the slots, and in
which of the two walks `pos` counts what; `Settled` carries the slots to the
states in which the statement runs; `CheckWalk` and `Balance` do the same for the
passwords of a row and for what is live or open.  `BindsTerms` is none of these
but follows from them at the end of the walk, with `CountMonotonic`: two terms
have different slots.  `OnlyVerified` needs that Node.js, which verifies nothing,
gets past its statement only if there is nothing to verify, which is in `Settled`
and rests on the count of parameters.

An earlier form of the model stated its type for any number of rows and let a
search with a limit of one row read a row though `MaxRows` was 0; the proof of
`TypeCorrect` failed there, and the guard of `Read` now has both conditions.

### Enumerations and validators: EnumItemsProofs

`IInv` says what each pass has given out up to its position (`Assigned`), from the
greatest value given (`Base`).  That the second pass checks no overflow is right
only because of the first: `Fits` carries that from one to the other.
`ValuesDiffer` follows since automatic values are above `Base`, and differ from
each other as their counts do.  The same invariant holds of `ValuesSpec`, in
which an enumeration is one of the declarations.

`ValidatorsAgree` proves the three conjuncts of `ValidsAgree` for every width: a
limit fails in C where it does not hold in Node.js (`FailsHolds`), a bitfield made
signed fits a signed integer (`SignedFits`), and each bit of an item is found
again in what was stored (`BitKept`), items of other bits apart (`MasksApart`).
The last is about powers of two, of which the provers know nothing: `Pow2` is the
loop that doubles, and `PowerStep` and `PowerDivides` get from its turns what is
needed of it.  `Indexed` is the invariant that bits read are within the width and
differ.

### Unique clauses: UniqueClausesProofs

`IInv` has which clauses are sorted by now (`Normal`), that duplicates counted are
duplicates (`Counted`), and what was compared (`Compared`).  The last is the part
that makes the invariant inductive: only the first clause of a size is compared
with every other, since `break` ends the inner loop at another clause of the same
size.  `SortedFacts` and `SameNames` tie sorted clauses to sets of names, with
`OrderExists`.  `OneRow` is proved from the definition of `IsUnique` and of the
constraints, in any state.  `UniqueInOrder` adds that clauses keep their fields
and end in the order of names.

### Recursion and order: StructOrderProofs

`RecursionFound` is not a matter of one stack: `linker_aliases_create()` compares
a reference with the structure it started from alone.  `Explored` says that
whatever the recursion has returned from is `Bounded`, that is in no set of
structures closed under having a reference into the set; `Linked` that the frames
of the stack refer to one another.  A structure all of whose fields are bounded is
bounded, so that what is left after the loop is not recursive; and a reference
back to the start makes the frames of the stack such a set.

`TreesOrdered` needs an invariant of its own (`HInv`) over the second recursion.
For each reference from a structure to another: if its field is still to come,
the target lacks only the depth of the frame that waits to be the higher
(`Above`); the target has the round's colour only if this reference gave it to it
or the round started there (`Coloured`).  Both need that no structure is on the
stack twice (`StackOnce`), which is where the first theorem comes in, and that
each has one parent (`OneParent`).  The run of this module is of `Objects`, whose
specification adds steps after the sort and leaves the variables of
`StructOrder` alone in them; the theorems are of `StructOrder` by itself.

`Sort`, and `Sorted` of `UniqueClauses`, are stated as the choice of a list in
order, rather than with the sort of the library, which takes the order as an
operator and which no prover expands.

### Role maps: RoleMapsProofs

The assumptions are that unknown roles and missing operations are not among the
real ones, and that no field is named as "no name" is.  The parts of `IInv`:

- `Kinds` and `Holdings`: there is one map for each kind of statement, and it
  holds what the statements said, no more until the linker adds to it; what "all"
  adds to an operation comes in the third pass.
- `LinkedOps` and `LinkedFields`: the entries passed are the ones that are linked,
  and a field has the *first* map that speaks of it.
- `Separate`: maps of fields are merged with each other only where a structure
  says "noexport" both of named fields and of all; elsewhere `FieldsWithheld`
  follows.
- `Shares`: of two maps merged, the second's first role is in the first.  This is
  what makes the early end of the merge harmless the second time: the loop stops
  at the first role in common, so that a map once merged stays as it is.
- `Failures`, `Settled` and `Saved` carry the state after the first link through
  the second, of what ort wrote, and `RewritingKeeps` follows.

`Merged` and `Covered` are loops.  That such a loop has the result its definition
speaks of is `LoopRuns` of `CountLemmas`; what the result is, a least
counterexample among the turns.

### Name resolution: LinkResolveProofs

The assumptions are those on the input: "no name" is no structure
(`NamesAssumption`), and configurations are sets of statements of the four kinds
as the lexer and `parse_struct()` let them through (`ConfigsAssumption`).  Nothing
is assumed of their number, of the number of structures and fields, or of the
length of the chains of names.

The hard one is `AcceptsTheGood`: `Good` looks at a configuration as a whole,
without queue or passes, and is to hold exactly if parser and linker go
through.  The parts of `IInv` on the way:

- `Queue`: the queue holds the entries that the statements read so far call for,
  each once, so that at the end it is the same set in every order of the file.
- `Accepted`: what the parser let through goes together (names differ, one
  rowid, each structure ended with a field, updates without modifiers set all
  columns).
- `Linked`: an entry that was handled without a failure is `Fine`, that is as a good
  configuration has it, and `Set`, that is linked to what it names.  It is
  stated of the entries whose pass is over, or that the pass in hand went by while
  nothing failed (`Safe`), for the linker goes on after a failure to the end of
  the pass.
- `UniqueApart` and `Marked`: the two tables that a later entry or check looks at.
- `FailuresBad`: a failure counted is one of the configuration, whatever else was
  open when it occurred.

`AssertionsHold` follows since the entries that an assertion relies on are of an
earlier pass: for enumerations `Linked`, for chains `TurnHops`, one lemma for the
turn of `resolve_field_chain()`.  Chains are of any length: `WalkIs` ties the
course of the loop, which `LoopRuns` provides, to `Reach`, which speaks of paths,
and a least turn at which they part is none.  There is one lemma for each action
(`ForeignKeeps`, `ColumnKeeps`, ... `ParseKeeps`), and `CheckedIsGood` for what
`ort_parse_close()` asks of queries at the end.

### Only model-checked

- `LinkEnds`: liveness.
- `FilledExactly`, `CallEnds` and `DefinedWhereCalled` of `Objects`: columns and
  nested objects are RECURSIVE operators, which the provers cannot expand.
- `RewriteKeeps`, `EmptyIffEqual`, `Mirror` and `WrittenOnce` of `ConfigDiff`,
  `Converted`, `KeepsMeaning` and `FailuresKnown` of `SqlDiff`: texts, queues and
  scripts are made of lists by selection and concatenation, which take the
  condition or the element's text as an operator.  No prover here can instantiate
  a theorem about such an operator; to write all of these lists as loops, as in
  `RoleMaps`, was not tried.

Induction is by a least counterexample (`LeastNatural`), since the induction
theorems of the library take an operator too.

## Not modelled

- Allocation failure, and the release of a configuration that a failed parse left
  half made (`config.c`): the hazard is which pointers are set where each parser
  stops, for which a model would repeat the parsers statement by statement.
- The lexer's characters, and layout and wording of what is generated.
- JavaScript, JSON and manual printers: functions from a configuration to text
  that nothing in the repository reads back.
- The JSON reader of the generated C, and transactions, which pass a number and
  a mode on to sqlbox.
- XLIFF: the extraction and the join are by text, parsed by expat.
- Rows of grouped queries (`lang.c:591`): planned.
- Third-party code (`compats.c`, `jsmn.c`, `b64_ntop.c`, `gensalt.c`) and the
  tools' `main()`.
- Checks that only warn (`check_unique_roles_tree()`, `check_roleops()`).

## Plan

1. `Converted` without rows, over lists of statements made by loops, so that it
   can be proved.
2. `NodeRole` as an implementation of what the code, not the manual, promises of
   its switch: `RoleSwitch` with the moves reversed.
3. `Grouprow`: the rows that `minrow` and `maxrow` select by a join of the table
   with itself, against the manual's one row per group.
4. Transactions: `db_trans_open()`, commit and rollback beside open statements.
5. `QueryCall` under `DbRole`: a call of a query runs its statements under the
   role.
6. `JsonRead`: the generated JSON reader against what the library prints.
7. `Xliff`: joining translations.
