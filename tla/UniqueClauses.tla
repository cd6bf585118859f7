--------------------------- MODULE UniqueClauses ---------------------------
(***************************************************************************)
(* The "unique" clauses of a structure: check_unique_unique() (linker.c)   *)
(* looks for two that name the same fields, and puts the fields of each in *)
(* the order of their names; linker_aliases_resolve() (linker_aliases.c)   *)
(* then marks the searches that the clauses, or fields that are unique or  *)
(* row identifiers, limit to one row.  A mark only decides on warnings.    *)
(***************************************************************************)
EXTENDS Integers, Sequences, SequencesExt, FiniteSetsExt

CONSTANTS
  Field,       \* fields; numbers stand for names, in their order
  MaxClauses   \* bound: unique clauses

ASSUME UniqueClausesAssumption ==
  Field \subseteq Nat /\ IsFiniteSet(Field) /\ MaxClauses \in Nat

\* resolve_struct_unique() refuses a field named twice; parse_struct_unique()
\* wants two or more.
Clause == {c \in BoundedSeq(Field, Cardinality(Field)) : Len(c) > 1 /\ IsInjective(c)}

VARIABLES
  written,   \* the clauses as written
  clauses,   \* s->nq
  phase,     \* "check", "done" or "fail"
  u, uu,     \* positions of the two loops
  errs       \* duplicates found

vars == <<written, clauses, phase, u, uu, errs>>

\* The fields of a clause, in the order of their names.
Sorted(c) ==
  CHOOSE f \in [1..Cardinality(Range(c)) -> Range(c)] :
    \A i, j \in DOMAIN f : i < j => f[i] < f[j]

TypeOK ==
  /\ written \in Seq(Clause) /\ Len(written) <= MaxClauses
  /\ clauses \in Seq(Seq(Field)) /\ Len(clauses) = Len(written)
  /\ \A i \in DOMAIN clauses : clauses[i] \in {written[i], Sorted(written[i])}
  /\ phase \in {"check", "done", "fail"}
  /\ u \in 1..Len(clauses) + 1 /\ uu \in 1..Len(clauses) + 1
  /\ errs \in 0..Len(clauses)

Init ==
  /\ written \in BoundedSeq(Clause, MaxClauses)
  /\ clauses = written
  /\ phase = "check" /\ u = 1 /\ uu = 1 /\ errs = 0

Inner == phase = "check" /\ u <= Len(clauses) /\ uu <= Len(clauses)

Names(c) == Range(c)

\* "continue": the clause itself, and those of another size.
PassOver ==
  /\ Inner
  /\ uu = u \/ Len(clauses[uu]) # Len(clauses[u])
  /\ uu' = uu + 1
  /\ UNCHANGED <<written, clauses, phase, u, errs>>

\* Mutant: compares the fields one by one.
DuplicateInOrder ==
  /\ Inner
  /\ uu # u /\ Len(clauses[uu]) = Len(clauses[u])
  /\ IF clauses[u] = clauses[uu]
     THEN errs' = errs + 1 /\ uu' = uu + 1
     ELSE uu' = Len(clauses) + 1 /\ UNCHANGED errs
  /\ UNCHANGED <<written, clauses, phase, u>>

\* Mutant: one field in common is enough.
DuplicateSome ==
  /\ Inner
  /\ uu # u /\ Len(clauses[uu]) = Len(clauses[u])
  /\ IF Names(clauses[u]) \cap Names(clauses[uu]) # {}
     THEN errs' = errs + 1 /\ uu' = uu + 1
     ELSE uu' = Len(clauses) + 1 /\ UNCHANGED errs
  /\ UNCHANGED <<written, clauses, phase, u>>

\* A duplicate is counted; a clause that is none ends the inner loop.
Duplicate ==
  /\ Inner
  /\ uu # u /\ Len(clauses[uu]) = Len(clauses[u])
  /\ IF Names(clauses[u]) \subseteq Names(clauses[uu])
     THEN errs' = errs + 1 /\ uu' = uu + 1
     ELSE uu' = Len(clauses) + 1 /\ UNCHANGED errs
  /\ UNCHANGED <<written, clauses, phase, u>>

\* Mutant: the order of the first clause is given to all of them.
NormaliseFirst ==
  /\ phase = "check" /\ u <= Len(clauses) /\ uu > Len(clauses)
  /\ errs = 0
  /\ clauses' = [clauses EXCEPT ![1] = Sorted(@)]
  /\ u' = u + 1 /\ uu' = 1
  /\ UNCHANGED <<written, phase, errs>>

\* The end of the inner loop without errors.
Normalise ==
  /\ phase = "check" /\ u <= Len(clauses) /\ uu > Len(clauses)
  /\ errs = 0
  /\ clauses' = [clauses EXCEPT ![u] = Sorted(@)]
  /\ u' = u + 1 /\ uu' = 1
  /\ UNCHANGED <<written, phase, errs>>

Finish ==
  /\ phase = "check"
  /\ \/ u > Len(clauses) /\ phase' = "done"
     \/ uu > Len(clauses) /\ errs > 0 /\ phase' = "fail"
  /\ UNCHANGED <<written, clauses, u, uu, errs>>

Next == PassOver \/ Duplicate \/ Normalise \/ Finish

Spec == Init /\ [][Next]_vars
------------------------------------------------------------------------------
(* Searches, as they are marked SEARCH_IS_UNIQUE. *)

\* A search: the fields asked for by equality, whatever else is asked, and
\* whether a unique field of a structure referred to is, too.
Search == [equal : SUBSET Field, ref : BOOLEAN]

\* Mutant: takes a clause of which some field is asked for.
ClauseAskedAny(s) == \E i \in DOMAIN clauses : Names(clauses[i]) \cap s.equal # {}

\* check_search_unique()
ClauseAsked(s) == \E i \in DOMAIN clauses : Names(clauses[i]) \subseteq s.equal

\* linker_aliases_resolve(), of a structure whose fields single are unique or
\* row identifiers.
IsUnique(s, single) == s.equal \cap single # {} \/ s.ref \/ ClauseAsked(s)

\* Two rows of a table: which of their values are the same, differ, or are
\* null, and whether they refer to the same row.
Rows == [own : [Field -> {"same", "differ", "null"}], ref : {"same", "differ"}]

\* SQL's unique constraints, for which null is like no other value.
Together(rows, single) ==
  \A key \in {Names(clauses[i]) : i \in DOMAIN clauses} \cup {{f} : f \in single} :
    \E f \in key : rows.own[f] # "same"

\* Both rows can be in one result; terms are joined by "and".
BothFound(rows, s) ==
  /\ \A f \in s.equal : rows.own[f] = "same"
  /\ s.ref => rows.ref = "same"
------------------------------------------------------------------------------
(* Properties. *)

Same(i, j) == i # j /\ Names(written[i]) = Names(written[j])

FirstOfItsSize(i) == \A j \in 1..i - 1 : Len(written[j]) # Len(written[i])

\* Only a structure with a duplicate is refused; a duplicate of the first
\* clause of its size never gets through, whatever the order its fields are
\* named in and though the clauses before it in the list have been put in
\* order by then; and the generators get the fields of each clause in the
\* order of their names, so that the name of its SQL index does not depend on
\* how it was written.
ClausesSettled ==
  /\ phase = "fail" => \E i, j \in DOMAIN written : Same(i, j)
  /\ phase = "done" => \A i, j \in DOMAIN written :
       /\ FirstOfItsSize(i) => ~Same(i, j)
       /\ Names(written[i]) = Names(written[j]) => clauses[i] = clauses[j]

\* A search marked as unique by fields of its own structure has one row at
\* most, in any table that its constraints admit: check_searchtype() warns of
\* marked searches that return many and of others that return one.
OneRow ==
  phase = "done" =>
    \A s \in Search, single \in SUBSET Field :
      IsUnique(s, single) /\ ~s.ref =>
        \A rows \in Rows : BothFound(rows, s) => ~Together(rows, single)

\* The same of all searches, linker_aliases.c:162: "will reduce our search to
\* a singleton result always".  Fails: several rows may refer to one.
OneRowAlways ==
  phase = "done" =>
    \A s \in Search : IsUnique(s, {}) =>
      \A rows \in Rows : BothFound(rows, s) => ~Together(rows, {})

\* linker.c:352: "Make sure that the unique statements noted in u are not
\* equal to any other unique statements"; of clauses, in s->nq.
NoneEqual == phase = "done" => \A i, j \in DOMAIN written : ~Same(i, j)
==============================================================================
