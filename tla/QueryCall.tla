----------------------------- MODULE QueryCall -----------------------------
(***************************************************************************)
(* A call of a function that runs one SQL statement, in a generated C      *)
(* library or Node.js module: db_foo_{count,get,list,iterate}(), insert,   *)
(* update and delete.  The statement is printed by gen_sql_stmts()         *)
(* (lang.c), the signature by lang-c.c, the body by lang-c-source.c or     *)
(* lang-nodejs.c: each walks the fields and terms of the operation anew,   *)
(* to count arguments, parameters and hash buffers.  What they print is    *)
(* straight-line code, so the walks are modelled as the run.               *)
(***************************************************************************)
EXTENDS Integers, Sequences, SequencesExt, FiniteSetsExt

CONSTANTS
  MaxTerms,   \* bound: fields and terms of the operation
  MaxRows     \* bound: rows the statement finds

ASSUME QueryCallAssumption == MaxTerms \in Nat /\ MaxRows \in Nat

\* "value": has an argument and a parameter of the statement.  "hashed": a
\* password that is set, and hashed before, or one that is searched for, and
\* verified after.  "unary": isnull and notnull, with neither argument nor
\* parameter.  "skip": struct fields and the rowid, which insert leaves out.
Term == {"value", "hashed", "unary", "skip"}

Search == {"count", "search", "list", "iterate"}
Write == {"insert", "update", "delete"}

VARIABLES
  lang,    \* "c" or "node"
  fn,      \* the kind of function
  terms,   \* fields to set, then terms that select rows
  nset,    \* how many of them are fields to set
  nulls,   \* arguments that are NULL, or null
  phase,   \* "hash", "bind", "step", "check", "return", or how else it ended
  i,       \* the term the walk is at
  pos,     \* number of the argument
  idx,     \* number of the parameter
  hpos,    \* number of the hash buffer
  hashes,  \* hash buffers filled: number -> argument
  parms,   \* parameters set: slot -> what with, slots past the end included
  ran,     \* the statement meant, and the one its number stands for
  open,    \* statements prepared and not finalised
  rows,    \* rows read so far
  good,    \* the hashed terms that the row in hand satisfies
  p,       \* the object: "null", "filled", or "none" before the first row
  live,    \* objects filled and not yet released or handed out
  out      \* "good" of each object handed out, by return, list or callback

call == <<lang, fn, terms, nset, nulls>>
statement == <<ran, open>>
result == <<rows, good, p, live, out>>
vars == <<call, phase, i, pos, idx, hpos, hashes, parms, statement, result>>

\* "exit" is exit() and "throw" an exception, for an error of the database;
\* "refused" is either, for what the statement is; "crash" reads p where p is
\* NULL.
Ended == {"return", "exit", "throw", "refused", "crash"}

IsSet(n) == n <= nset
IsBinary(t) == t \notin {"unary", "skip"}     \* OPTYPE_ISBINARY(), or not left out
CountBind(t) == t # "hashed"                  \* count_bind(), of binary terms

Where(test(_)) == {n \in DOMAIN terms : test(n)}

\* Passwords to verify; terms with a "?" in the statement, as gen_sql_stmts()
\* prints it.
Hashed == Where(LAMBDA n : terms[n] = "hashed" /\ ~IsSet(n))
HasParm(n) == IsBinary(terms[n]) /\ (IsSet(n) \/ CountBind(terms[n]))

\* The size given to parms[].
Parms == Cardinality(Where(HasParm))

\* Arguments are numbered by the signature, and those of fields to set that
\* may be null are pointers.
ArgOf(n) == Cardinality({m \in 1..n : IsBinary(terms[m])})
Pointers == {ArgOf(n) : n \in Where(LAMBDA n : IsSet(n) /\ IsBinary(terms[n]))}

Arg(n) == [from |-> "arg", n |-> n]
Hash(n) == [from |-> "hash", n |-> n]
Null == [from |-> "null"]

\* An array with v written at k.
Put(f, k, v) == [x \in DOMAIN f \cup {k} |-> IF x = k THEN v ELSE f[x]]

TypeOK ==
  /\ lang \in {"c", "node"} /\ fn \in Search \cup Write
  /\ terms \in BoundedSeq(Term, MaxTerms) /\ nset \in 0..Len(terms)
  /\ nulls \subseteq Pointers
  /\ phase \in {"hash", "bind", "step", "check"} \cup Ended
  /\ {i, pos, idx, hpos} \subseteq 1..Len(terms) + 1
  /\ DOMAIN hashes \cup DOMAIN parms \subseteq 1..Len(terms)
  /\ Range(hashes) \subseteq Pointers
  /\ open \in {0, 1}
  /\ rows \in 0..MaxRows
  /\ good \subseteq Hashed
  /\ p \in {"none", "null", "filled"}
  /\ live \in {0, 1}
  /\ out \in Seq(SUBSET Hashed) /\ Len(out) <= rows

\* What parser and linker let through: check_searchtype() (linker.c) refuses
\* "count" of hashed terms, resolve_up_const() (linker_resolve.c) hashed
\* constraints of updates and deletes.
WellFormed ==
  /\ \A n \in DOMAIN terms :
       /\ IsSet(n) => terms[n] # "unary"
       /\ terms[n] = "skip" => fn = "insert"
  /\ fn = "insert" => nset = Len(terms)
  /\ fn \in Search \cup {"delete"} => nset = 0
  /\ fn \in Write \cup {"count"} => Hashed = {}

Init ==
  /\ lang \in {"c", "node"} /\ fn \in Search \cup Write
  /\ terms \in BoundedSeq(Term, MaxTerms) /\ nset \in 0..Len(terms)
  /\ WellFormed
  /\ nulls \in SUBSET Pointers
  /\ phase = IF lang = "c" /\ fn \in {"insert", "update"} THEN "hash" ELSE "bind"
  /\ i = 1 /\ pos = 1 /\ idx = 1 /\ hpos = 1
  /\ hashes = [n \in {} |-> 0] /\ parms = [n \in {} |-> Null]
  /\ ran = <<>> /\ open = 0
  /\ rows = 0 /\ good = {} /\ p = "none" /\ live = 0 /\ out = <<>>
------------------------------------------------------------------------------
(* Hashing: insert and update in C. *)

Hashing == phase = "hash" /\ i <= nset

\* Mutant: the next buffer only where this one was needed.
HashPassNonNull ==
  /\ Hashing /\ IsBinary(terms[i])
  /\ i' = i + 1 /\ idx' = idx + 1
  /\ IF terms[i] = "hashed" /\ idx \notin nulls
     THEN hpos' = hpos + 1 /\ hashes' = Put(hashes, hpos, idx)
     ELSE UNCHANGED <<hpos, hashes>>
  /\ UNCHANGED <<call, phase, pos, parms, statement, result>>

\* gen_newpass(), under a test for NULL where the field may be null.
HashPass ==
  /\ Hashing /\ IsBinary(terms[i])
  /\ i' = i + 1 /\ idx' = idx + 1
  /\ hpos' = IF terms[i] = "hashed" THEN hpos + 1 ELSE hpos
  /\ hashes' = IF terms[i] = "hashed" /\ idx \notin nulls
               THEN Put(hashes, hpos, idx) ELSE hashes
  /\ UNCHANGED <<call, phase, pos, parms, statement, result>>

EndHash ==
  /\ phase = "hash" /\ i > nset
  /\ phase' = "bind"
  /\ i' = 1 /\ idx' = 1 /\ hpos' = 1
  /\ UNCHANGED <<call, pos, hashes, parms, statement, result>>
------------------------------------------------------------------------------
(* Binding. *)

Binding == phase = "bind" /\ i <= Len(terms)

\* Mutant: Node.js pushes something for a term without argument.
LeaveOutPushed ==
  /\ Binding \/ Hashing
  /\ ~IsBinary(terms[i])
  /\ i' = i + 1
  /\ IF lang = "node" THEN idx' = idx + 1 /\ parms' = Put(parms, idx, Arg(pos))
     ELSE UNCHANGED <<idx, parms>>
  /\ UNCHANGED <<call, phase, pos, hpos, hashes, statement, result>>

\* Fields that insert leaves out, and unary terms.
LeaveOut ==
  /\ Binding \/ Hashing
  /\ ~IsBinary(terms[i])
  /\ i' = i + 1
  /\ UNCHANGED <<call, phase, pos, idx, hpos, hashes, parms, statement, result>>

\* gen_bind(), gen_bind_hash(): a field to set.  A buffer that was not filled
\* is bound as it is.
BindSet ==
  /\ Binding /\ lang = "c"
  /\ IsSet(i) /\ IsBinary(terms[i])
  /\ i' = i + 1 /\ pos' = pos + 1 /\ idx' = idx + 1
  /\ hpos' = IF terms[i] = "hashed" THEN hpos + 1 ELSE hpos
  /\ parms' = Put(parms, idx,
                  IF (IF fn = "insert" THEN pos ELSE idx) \in nulls THEN Null
                  ELSE IF terms[i] # "hashed" THEN Arg(pos)
                  ELSE Hash(IF hpos \in DOMAIN hashes THEN hashes[hpos] ELSE 0))
  /\ UNCHANGED <<call, phase, hashes, statement, result>>

\* Mutant: every function counts the way gen_iterator() does.
BindSwapped ==
  /\ Binding /\ lang = "c"
  /\ ~IsSet(i) /\ IsBinary(terms[i])
  /\ i' = i + 1
  /\ LET c == IF CountBind(terms[i]) THEN 1 ELSE 0
     IN  /\ parms' = IF c = 1 THEN Put(parms, idx, Arg(pos)) ELSE parms
         /\ idx' = idx + 1
         /\ pos' = pos + c
  /\ UNCHANGED <<call, phase, hpos, hashes, statement, result>>

\* gen_bind_val() returns 1 where it bound the argument.
Bind ==
  /\ Binding /\ lang = "c"
  /\ ~IsSet(i) /\ IsBinary(terms[i])
  /\ i' = i + 1
  /\ LET c == IF CountBind(terms[i]) THEN 1 ELSE 0
     IN  /\ parms' = IF c = 1 THEN Put(parms, idx, Arg(pos)) ELSE parms
         /\ idx' = idx + IF fn = "iterate" THEN 1 ELSE c
         /\ pos' = pos + IF fn = "iterate" THEN c ELSE 1
  /\ UNCHANGED <<call, phase, hpos, hashes, statement, result>>

\* Mutant: the password itself.
PushSetPlain ==
  /\ Binding /\ lang = "node"
  /\ IsSet(i) /\ IsBinary(terms[i])
  /\ i' = i + 1 /\ pos' = pos + 1 /\ idx' = idx + 1
  /\ parms' = Put(parms, idx, IF pos \in nulls THEN Null ELSE Arg(pos))
  /\ UNCHANGED <<call, phase, hpos, hashes, statement, result>>

\* Node.js pushes onto an array, and hashes passwords on the way.
PushSet ==
  /\ Binding /\ lang = "node"
  /\ IsSet(i) /\ IsBinary(terms[i])
  /\ i' = i + 1 /\ pos' = pos + 1 /\ idx' = idx + 1
  /\ parms' = Put(parms, idx, IF pos \in nulls THEN Null
                                ELSE IF terms[i] = "hashed" THEN Hash(pos) ELSE Arg(pos))
  /\ UNCHANGED <<call, phase, hpos, hashes, statement, result>>

\* Those that are searched for, too.
PushTerm ==
  /\ Binding /\ lang = "node"
  /\ ~IsSet(i) /\ IsBinary(terms[i])
  /\ i' = i + 1 /\ pos' = pos + 1 /\ idx' = idx + 1
  /\ parms' = Put(parms, idx, IF terms[i] = "hashed" THEN Hash(pos) ELSE Arg(pos))
  /\ UNCHANGED <<call, phase, hpos, hashes, statement, result>>
------------------------------------------------------------------------------
(* The statement. *)

\* How many statements of each kind a structure has; numbers count from one.
Shape == [unique : 0..1, search : 0..2, insert : 0..1, update : 0..2, delete : 0..2]

Numbered(kind, n) == [k \in 1..n |-> <<kind, k>>]

\* Mutant: deletes before updates.
EnumsDeleteFirst(s) ==
  Numbered("unique", s.unique) \o Numbered("search", s.search)
    \o Numbered("insert", s.insert) \o Numbered("delete", s.delete) \o Numbered("update", s.update)

\* gen_sql_enums() and gen_sql_stmts(): the names and the texts.
Enums(s) ==
  Numbered("unique", s.unique) \o Numbered("search", s.search)
    \o Numbered("insert", s.insert) \o Numbered("update", s.update) \o Numbered("delete", s.delete)

Stmts(s) ==
  Numbered("unique", s.unique) \o Numbered("search", s.search)
    \o Numbered("insert", s.insert) \o Numbered("update", s.update) \o Numbered("delete", s.delete)

Kind == IF fn \in Search THEN "search" ELSE fn

Named(s, k) == <<<<Kind, k>>, Stmts(s)[SelectInSeq(Enums(s), LAMBDA e : e = <<Kind, k>>)]>>

\* "WHERE" is printed for any terms, and "SET" for any update.
Parses ==
  /\ fn \in Search => terms = <<>> \/ Hashed # DOMAIN terms
  /\ fn = "update" => nset > 0

\* The walk is at its end, and the statement is taken by its number.
Bound(l) ==
  /\ lang = l
  /\ phase = "bind" /\ i > Len(terms)
  /\ ran' \in UNION {{Named(s, k) : k \in 1..s[Kind]} : s \in Shape}

\* sqlbox_prepare_bind_async()
Query ==
  /\ Bound("c")
  /\ fn \in Search
  /\ phase' \in IF Parses THEN {"step", "exit"} ELSE {"refused"}
  /\ open' = IF phase' = "step" THEN 1 ELSE 0
  /\ UNCHANGED <<call, i, pos, idx, hpos, hashes, parms, result>>

\* sqlbox_exec()
Exec ==
  /\ Bound("c")
  /\ fn \in Write
  /\ phase' \in IF Parses THEN {"return", "exit"} ELSE {"refused"}
  /\ UNCHANGED <<call, i, pos, idx, hpos, hashes, parms, open, result>>

\* The array given to a statement in Node.js has to be of its length.
Fits == Cardinality(DOMAIN parms) = Parms

\* prepare(), then get(), all() or iterate().
QueryNode ==
  /\ Bound("node")
  /\ fn \in Search
  /\ phase' \in IF Parses /\ Fits THEN {"step", "throw"} ELSE {"refused"}
  /\ UNCHANGED <<call, i, pos, idx, hpos, hashes, parms, open, result>>

\* prepare(), then run(); insert and update catch what run() throws.
RunNode ==
  /\ Bound("node")
  /\ fn \in Write
  /\ phase' \in IF Parses /\ (fn # "delete" \/ Fits) THEN {"return", "throw"} ELSE {"refused"}
  /\ UNCHANGED <<call, i, pos, idx, hpos, hashes, parms, open, result>>
------------------------------------------------------------------------------
(* Rows. *)

Read ==
  /\ phase = "step" /\ fn # "count"
  /\ rows < MaxRows /\ (fn = "search" => rows = 0)
  /\ rows' = rows + 1
  /\ good' \in SUBSET Hashed

\* sqlbox_step() gives a row: an object is filled from it, and its references.
Fill ==
  /\ lang = "c"
  /\ Read
  /\ p' = "filled"
  /\ live' = live + 1
  /\ phase' = "check"
  /\ i' = 1 /\ pos' = 1
  /\ UNCHANGED <<call, idx, hpos, hashes, parms, statement, out>>

\* The same in Node.js, which hands the object out at once.
FillNode ==
  /\ lang = "node"
  /\ Read
  /\ p' = "filled"
  /\ out' = Append(out, good')
  /\ UNCHANGED <<call, phase, i, pos, idx, hpos, hashes, parms, statement, live>>

\* Mutant: finalises in the loop over rows only.
DoneOpen ==
  /\ phase = "step"
  /\ p' = IF p = "none" THEN "null" ELSE p
  /\ phase' \in {"return", IF lang = "c" THEN "exit" ELSE "throw"}
  /\ open' = IF rows > 0 THEN 0 ELSE open
  /\ UNCHANGED <<call, i, pos, idx, hpos, hashes, parms, ran, rows, good, live, out>>

\* No row, or no more; or sqlbox_step() or sqlbox_finalise() fails.
Done ==
  /\ phase = "step"
  /\ p' = IF p = "none" THEN "null" ELSE p
  /\ phase' \in {"return", IF lang = "c" THEN "exit" ELSE "throw"}
  /\ open' = 0
  /\ UNCHANGED <<call, i, pos, idx, hpos, hashes, parms, ran, rows, good, live, out>>

Checking == phase = "check" /\ i <= Len(terms)

\* Mutant: only parameters of the statement count as arguments.
PassOverUnbound ==
  /\ Checking
  /\ terms[i] # "hashed"
  /\ i' = i + 1
  /\ UNCHANGED <<call, phase, pos, idx, hpos, hashes, parms, statement, result>>

PassOver ==
  /\ Checking
  /\ terms[i] # "hashed"
  /\ i' = i + 1
  /\ pos' = IF IsBinary(terms[i]) THEN pos + 1 ELSE pos
  /\ UNCHANGED <<call, phase, idx, hpos, hashes, parms, statement, result>>

Matches ==
  /\ Checking
  /\ terms[i] = "hashed" /\ p = "filled" /\ i \in good
  /\ i' = i + 1 /\ pos' = pos + 1
  /\ UNCHANGED <<call, phase, idx, hpos, hashes, parms, statement, result>>

\* Mutant: the object is not released.
DiffersLeak ==
  /\ Checking
  /\ terms[i] = "hashed" /\ p = "filled" /\ i \notin good
  /\ p' = "null"
  /\ IF fn = "search"
     THEN i' = i + 1 /\ pos' = pos + 1 /\ UNCHANGED phase
     ELSE phase' = "step" /\ UNCHANGED <<i, pos>>
  /\ UNCHANGED <<call, idx, hpos, hashes, parms, statement, rows, good, live, out>>

\* Mutant: released, but not forgotten.
DiffersDangling ==
  /\ Checking
  /\ terms[i] = "hashed" /\ p = "filled" /\ i \notin good
  /\ live' = live - 1
  /\ IF fn = "search"
     THEN i' = i + 1 /\ pos' = pos + 1 /\ UNCHANGED <<p, phase>>
     ELSE phase' = "step" /\ p' = "null" /\ UNCHANGED <<i, pos>>
  /\ UNCHANGED <<call, idx, hpos, hashes, parms, statement, rows, good, out>>

\* The password is another: db_foo_free(p), p = NULL; the loops go on to the
\* next row, db_foo_get() goes on with the next term.
Differs ==
  /\ Checking
  /\ terms[i] = "hashed" /\ p = "filled" /\ i \notin good
  /\ p' = "null"
  /\ live' = live - 1
  /\ IF fn = "search"
     THEN i' = i + 1 /\ pos' = pos + 1 /\ UNCHANGED phase
     ELSE phase' = "step" /\ UNCHANGED <<i, pos>>
  /\ UNCHANGED <<call, idx, hpos, hashes, parms, statement, rows, good, out>>

\* gen_checkpass() reads p->password.
Crash ==
  /\ Checking
  /\ terms[i] = "hashed" /\ p = "null"
  /\ phase' = "crash"
  /\ UNCHANGED <<call, i, pos, idx, hpos, hashes, parms, statement, result>>

\* All terms passed: queued, given to the callback and released, or kept to be
\* returned.
HandOut ==
  /\ phase = "check" /\ i > Len(terms)
  /\ phase' = "step"
  /\ IF p = "filled"
     THEN out' = Append(out, good) /\ live' = live - 1
     ELSE UNCHANGED <<out, live>>
  /\ UNCHANGED <<call, i, pos, idx, hpos, hashes, parms, statement, rows, good, p>>

Next ==
  \/ HashPass \/ EndHash
  \/ LeaveOut \/ BindSet \/ Bind \/ PushSet \/ PushTerm
  \/ Query \/ Exec \/ QueryNode \/ RunNode
  \/ Fill \/ FillNode \/ Done
  \/ PassOver \/ Matches \/ Differs \/ Crash \/ HandOut

Spec == Init /\ [][Next]_vars
------------------------------------------------------------------------------
(* Properties. *)

\* The "?" of term n, counted as gen_sql_stmts() prints them, and what has to
\* be in it.
SlotOf(n) == Cardinality({m \in 1..n : HasParm(m)})

Due(n) ==
  IF ArgOf(n) \in nulls THEN Null
  ELSE IF terms[n] = "hashed" THEN Hash(ArgOf(n)) ELSE Arg(ArgOf(n))

InSlots ==
  /\ DOMAIN parms = 1..Parms
  /\ \A n \in Where(HasParm) : parms[SlotOf(n)] = Due(n)

Accepted == phase \in {"step", "check", "return", "crash"}

\* The walks over an operation agree, that of the signature, that of the
\* statement and those of hashing and binding: every "?" gets the argument of
\* its own field or term, hashed if it is a password to set, null if that is
\* given, and nothing is written outside parms[].  (For db_foo_iterate() if it
\* verifies no password.)
BindsTerms == Accepted /\ (fn = "iterate" => Hashed = {}) => InSlots

\* Objects handed out satisfy every password of the search, in Node.js too,
\* which verifies none; each was verified against the argument of its own
\* term.
OnlyVerified ==
  /\ \A n \in DOMAIN out : out[n] = Hashed
  /\ Checking => pos = ArgOf(i - 1) + 1

\* When the function returns every object it filled was released or handed
\* out, once, and it finalised its statement: the generated code always speaks
\* of statement 0, the last one prepared, so that one left open would be
\* stepped and finalised in the place of its caller's, where the caller is
\* db_foo_reffind() or the callback of db_foo_iterate() while the statement of
\* the iteration is open.
NothingLeft == phase = "return" => live = 0 /\ open = 0

\* A function runs the statement it was generated with: the numbers given by
\* one generator are positions in the list made by another.
OwnStatement == ran # <<>> => ran[1] = ran[2]

\* The database refuses statements for three reasons only: Node.js gives a
\* password to verify to a statement without a parameter for it; a search for
\* passwords alone ends in "WHERE"; an update may have nothing to set, of a
\* structure whose only field is its rowid.
RefusedKnown ==
  phase = "refused" =>
    \/ lang = "node" /\ fn \in Search /\ Hashed # {}
    \/ fn \in Search /\ terms # <<>> /\ Hashed = DOMAIN terms
    \/ fn = "update" /\ nset = 0

\* man/ort.5:248: a search "can properly search for password hashes".
SearchesPasswords == phase = "refused" => fn \notin Search

\* lang-c-source.c:391: the binding is "for a field of type t at index idx
\* referring to variable pos", which "count_bind() [sees] if we should skip".
\* So for all functions.
BindsAlways == Accepted => InSlots

\* lang-c-header.c:574: db_foo_get() "Returns a pointer or NULL on fail", and
\* man/ort.5:248: it "can properly search for password hashes by running the
\* hash verification after extraction".
NeverCrashes == phase # "crash"
==============================================================================
