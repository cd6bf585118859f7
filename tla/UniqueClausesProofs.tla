------------------------ MODULE UniqueClausesProofs ------------------------
(***************************************************************************)
(* What the run of UniqueClauses checks with three clauses of three        *)
(* fields, proved for any number of either.                                *)
(***************************************************************************)
EXTENDS UniqueClauses, SequenceTheorems, CountLemmas

\* Clauses are in the order of their names where the outer loop has been.
Normal ==
  \A k \in DOMAIN written :
    clauses[k] = IF k < u THEN Sorted(written[k]) ELSE written[k]

\* What is counted are clauses with the names of the current one.
Counted ==
  /\ errs < uu
  /\ errs > 0 => u <= Len(written) /\ \E j \in DOMAIN written : Same(u, j)

\* The first clause of its size has been compared with all that the outer loop
\* has passed, whichever others ended the inner loop; and with the current
\* one, where the inner loop has passed it.
Compared ==
  errs = 0 =>
    \A i \in DOMAIN written : FirstOfItsSize(i) =>
      /\ \A k \in DOMAIN written : k < u => ~Same(i, k)
      /\ u <= Len(written) /\ i < uu => ~Same(i, u)

Ended ==
  /\ phase = "done" => u > Len(written)
  /\ phase = "fail" => errs > 0

IInv == TypeOK /\ Normal /\ Counted /\ Compared /\ Ended
------------------------------------------------------------------------------
\* A clause is a sequence of fields that are as many as its length.
LEMMA ClauseFacts ==
  ASSUME NEW c \in Clause
  PROVE  /\ Len(c) \in Nat \ {0, 1} /\ c \in [1..Len(c) -> Field] /\ c \in Seq(Field)
         /\ IsFiniteSet(Range(c)) /\ Cardinality(Range(c)) = Len(c)
         /\ Range(c) \subseteq Field
<1>1. PICK m \in 0..Cardinality(Field) : c \in [1..m -> Field]
  BY DEF Clause, BoundedSeq, SeqOf
<1>2. Cardinality(Field) \in Nat
  BY UniqueClausesAssumption, FS_CardinalityType
<1>3. m \in Nat /\ c \in Seq(Field) /\ Len(c) = m
  BY <1>1, <1>2
<1>4. IsInjective(c) /\ Len(c) > 1
  BY DEF Clause
<1>5. Range(c) \subseteq Field /\ \A x \in Range(c) : \E i \in 1..m : c[i] = x
  BY <1>1 DEF Range
<1>6. c \in Bijection(1..m, Range(c))
  <2>1. c \in [1..m -> Range(c)]
    BY <1>1 DEF Range
  <2> QED
    BY <1>4, <1>5, <2>1 DEF Bijection, Injection, Surjection
<1>7. IsFiniteSet(1..m) /\ Cardinality(1..m) = m
  BY <1>3, FS_Interval
<1>8. IsFiniteSet(Range(c)) /\ Cardinality(Range(c)) = m
  BY <1>6, <1>7, FS_Bijection DEF ExistsBijection
<1> QED
  BY <1>1, <1>3, <1>4, <1>5, <1>8

\* Putting a clause in order keeps its names and its length.
LEMMA SortedFacts ==
  ASSUME NEW c \in Clause
  PROVE  /\ Sorted(c) \in Seq(Field)
         /\ Len(Sorted(c)) = Len(c) /\ Names(Sorted(c)) = Names(c)
         /\ \A i, j \in 1..Len(c) : i < j => Sorted(c)[i] < Sorted(c)[j]
<1> DEFINE S == Range(c)
           n == Len(c)
           f == Sorted(c)
<1>1. /\ n \in Nat /\ IsFiniteSet(S) /\ Cardinality(S) = n
      /\ S \in SUBSET Nat /\ S \in SUBSET Field
  BY ClauseFacts, UniqueClausesAssumption
<1>2. f \in [1..n -> S] /\ \A i, j \in 1..n : i < j => f[i] < f[j]
  <2> DEFINE R == {p \in S \X S : p[1] < p[2]}
  <2>1. \A x, y \in S : <<x, y>> \in R <=> x < y
    OBVIOUS
  <2>2. \A x \in S : x \in Nat
    BY <1>1
  <2> HIDE DEF R, S
  <2>3. StrictOrder(S, R)
    BY <2>1, <2>2 DEF StrictOrder
  <2>4. \E g \in [1..n -> S] : \A i, j \in DOMAIN g : i < j => <<g[i], g[j]>> \in R
    <3>1. IsFiniteSet(S)
      BY <1>1
    <3>2. \E g \in [1..Cardinality(S) -> S] : \A i, j \in DOMAIN g : i < j => <<g[i], g[j]>> \in R
      BY <2>3, <3>1, OrderExists
    <3> QED
      BY <1>1, <3>2
  <2>5. \E g \in [1..n -> S] : \A i, j \in DOMAIN g : i < j => g[i] < g[j]
    BY <2>1, <2>4
  <2>6. f = CHOOSE g \in [1..n -> S] : \A i, j \in DOMAIN g : i < j => g[i] < g[j]
    BY <1>1 DEF Sorted, S
  <2> HIDE DEF f, n
  <2> QED
    BY <2>5, <2>6
<1> HIDE DEF f, S, n
<1>3. IsInjective(f)
  <2>1. \A i, j \in 1..n : i # j => i < j \/ j < i
    BY <1>1
  <2>2. \A i \in 1..n : f[i] \in Nat
    BY <1>1, <1>2
  <2>3. \A i, j \in 1..n : i # j => f[i] # f[j]
    BY <1>2, <2>1, <2>2
  <2> QED
    BY <1>2, <2>3 DEF IsInjective
<1>4. \A x \in S : \E i \in 1..n : f[i] = x
  BY <1>1, <1>2, <1>3, OrderedAll
<1>5. Range(f) = S
  BY <1>2, <1>4 DEF Range
<1>6. f \in Seq(Field) /\ Len(f) = n
  <2>1. f \in [1..n -> Field]
    BY <1>1, <1>2
  <2> QED
    BY <1>1, <2>1
<1> QED
  BY <1>2, <1>5, <1>6 DEF Names, S, n, f

\* Of two clauses of one length, one has the names of the other or one more.
LEMMA SameNames ==
  ASSUME NEW c \in Clause, NEW d \in Clause, Len(c) = Len(d)
  PROVE  Names(c) \subseteq Names(d) <=> Names(c) = Names(d)
<1>1. /\ IsFiniteSet(Range(d)) /\ Cardinality(Range(d)) = Len(d)
      /\ Cardinality(Range(c)) = Len(c)
  BY ClauseFacts
<1>2. Range(c) \subseteq Range(d) => Range(c) = Range(d)
  BY <1>1, FS_Subset
<1> QED
  BY <1>2 DEF Names
------------------------------------------------------------------------------
\* Lengths, positions and names, of the clauses as they are now.
LEMMA StateFacts ==
  ASSUME TypeOK, Normal
  PROVE  /\ written \in Seq(Clause) /\ Len(written) \in Nat /\ Len(clauses) = Len(written)
         /\ DOMAIN written = 1..Len(written)
         /\ \A k \in DOMAIN written :
              /\ written[k] \in Clause
              /\ Len(clauses[k]) = Len(written[k]) /\ Len(written[k]) \in Nat
              /\ Names(clauses[k]) = Names(written[k])
         /\ u \in Nat \ {0} /\ u <= Len(written) + 1
         /\ uu \in Nat \ {0} /\ uu <= Len(written) + 1
         /\ errs \in Nat /\ errs <= Len(written)
<1>1. written \in Seq(Clause) /\ Len(written) \in Nat /\ DOMAIN written = 1..Len(written)
  BY DEF TypeOK
<1>2. \A k \in DOMAIN written : written[k] \in Clause
  BY <1>1
<1>3. ASSUME NEW k \in DOMAIN written
      PROVE  /\ Len(clauses[k]) = Len(written[k]) /\ Len(written[k]) \in Nat
             /\ Names(clauses[k]) = Names(written[k])
  <2>1. clauses[k] = written[k] \/ clauses[k] = Sorted(written[k])
    BY <1>3 DEF Normal
  <2> QED
    BY <1>2, <2>1, ClauseFacts, SortedFacts
<1> QED
  BY <1>1, <1>2, <1>3 DEF TypeOK

\* Clauses of the same names have the same length, now as when they were
\* written.
LEMMA SameLength ==
  ASSUME TypeOK, Normal, NEW i \in DOMAIN written, NEW j \in DOMAIN written,
         Len(clauses[i]) # Len(clauses[j]) \/ Len(written[i]) # Len(written[j])
  PROVE  ~Same(i, j)
<1>1. /\ written[i] \in Clause /\ Len(clauses[i]) = Len(written[i])
      /\ written[j] \in Clause /\ Len(clauses[j]) = Len(written[j])
  BY StateFacts
<1>2. /\ Cardinality(Range(written[i])) = Len(written[i])
      /\ Cardinality(Range(written[j])) = Len(written[j])
  BY <1>1, ClauseFacts
<1> QED
  BY <1>1, <1>2 DEF Same, Names

\* Before the loop.
LEMMA InitIInv == Init => IInv
<1> SUFFICES ASSUME Init PROVE IInv
  OBVIOUS
<1>1. /\ clauses = written /\ phase = "check" /\ u = 1 /\ uu = 1 /\ errs = 0
  BY DEF Init
<1>2. /\ written \in Seq(Clause) /\ Len(written) \in Nat /\ Len(written) <= MaxClauses
      /\ DOMAIN written = 1..Len(written)
  <2>1. PICK m \in 0..MaxClauses : written \in [1..m -> Clause]
    BY DEF Init, BoundedSeq, SeqOf
  <2>2. m \in Nat /\ written \in Seq(Clause) /\ Len(written) = m
    BY <2>1, UniqueClausesAssumption
  <2> QED
    BY <2>1, <2>2, UniqueClausesAssumption
<1>3. TypeOK
  <2>1. Clause \subseteq Seq(Field)
    BY ClauseFacts
  <2>2. clauses \in Seq(Seq(Field))
    BY <1>1, <1>2, <2>1
  <2> QED
    BY <1>1, <1>2, <2>2 DEF TypeOK
<1>4. Normal
  BY <1>1, <1>2 DEF Normal
<1>5. Counted /\ Compared /\ Ended
  BY <1>1, <1>2 DEF Counted, Compared, Ended
<1> QED
  BY <1>3, <1>4, <1>5 DEF IInv

\* A clause passed over is the current one or is of another size.
LEMMA PassOverIInv ==
  ASSUME IInv, PassOver
  PROVE  IInv'
<1>1. /\ Inner /\ (uu = u \/ Len(clauses[uu]) # Len(clauses[u]))
      /\ uu' = uu + 1 /\ UNCHANGED <<written, clauses, phase, u, errs>>
  BY DEF PassOver
<1>2. /\ u \in DOMAIN written /\ uu \in DOMAIN written /\ phase = "check"
      /\ Len(clauses) = Len(written) /\ Len(written) \in Nat
      /\ u \in Nat \ {0} /\ uu \in Nat \ {0} /\ errs \in Nat
      /\ u <= Len(written) /\ uu <= Len(written)
  <2>1. u <= Len(written) /\ uu <= Len(written)
    BY <1>1, StateFacts DEF IInv, Inner
  <2> QED
    BY <1>1, <2>1, StateFacts DEF IInv, Inner
<1>3. TypeOK'
  BY <1>1, <1>2 DEF IInv, TypeOK
<1>4. Normal' /\ Ended'
  BY <1>1 DEF IInv, Normal, Ended
<1>5. Counted'
  <2>1. (\E j \in DOMAIN written : Same(u, j)) => (\E j \in DOMAIN written : Same(u, j))'
    BY <1>1 DEF Same
  <2>2. errs' < uu'
    BY <1>1, <1>2 DEF IInv, Counted
  <2> QED
    BY <1>1, <2>1, <2>2 DEF IInv, Counted
<1>6. Compared'
  <2>1. SUFFICES ASSUME errs = 0, NEW i \in DOMAIN written, FirstOfItsSize(i), i < uu + 1
                 PROVE  ~Same(i, u)
    BY <1>1 DEF IInv, Compared, FirstOfItsSize, Same
  <2>2. CASE i = uu
    <3>1. CASE uu = u
      BY <2>2, <3>1 DEF Same
    <3>2. CASE Len(clauses[uu]) # Len(clauses[u])
      <4>1. ~Same(uu, u)
        BY <1>2, <3>2, SameLength DEF IInv
      <4> QED
        BY <2>2, <4>1
    <3> QED
      BY <1>1, <3>1, <3>2
  <2>3. CASE i # uu
    <3>1. i \in Nat /\ i < uu
      BY <1>2, <2>1, <2>3, StateFacts DEF IInv
    <3> QED
      BY <1>2, <2>1, <3>1 DEF IInv, Compared
  <2> QED
    BY <2>2, <2>3
<1> QED
  BY <1>3, <1>4, <1>5, <1>6 DEF IInv

\* The current clause compared with one of its size.
LEMMA DuplicateIInv ==
  ASSUME IInv, Duplicate
  PROVE  IInv'
<1>1. /\ Inner /\ uu # u /\ Len(clauses[uu]) = Len(clauses[u])
      /\ UNCHANGED <<written, clauses, phase, u>>
  BY DEF Duplicate
<1>2. /\ u \in DOMAIN written /\ uu \in DOMAIN written /\ phase = "check"
      /\ Len(clauses) = Len(written) /\ Len(written) \in Nat
      /\ u \in Nat \ {0} /\ uu \in Nat \ {0} /\ errs \in Nat /\ errs < uu
      /\ u <= Len(written) /\ uu <= Len(written)
  <2>1. u <= Len(written) /\ uu <= Len(written)
    BY <1>1, StateFacts DEF IInv, Inner
  <2> QED
    BY <1>1, <2>1, StateFacts DEF IInv, Inner, Counted
<1>3. Len(written[u]) = Len(written[uu])
  BY <1>1, <1>2, StateFacts DEF IInv
<1>4. Names(clauses[u]) \subseteq Names(clauses[uu]) <=> Same(u, uu)
  <2>1. Names(written[u]) \subseteq Names(written[uu]) <=> Names(written[u]) = Names(written[uu])
    BY <1>2, <1>3, StateFacts, SameNames DEF IInv
  <2> QED
    BY <1>1, <1>2, <2>1, StateFacts DEF IInv, Same
<1>5. Normal' /\ Ended' /\ \A i, j : Same(i, j)' <=> Same(i, j)
  <2>1. Ended'
    BY <1>1, <1>2 DEF Ended
  <2> QED
    BY <1>1, <2>1 DEF IInv, Normal, Same
<1>6. CASE Same(u, uu)
  <2>1. errs' = errs + 1 /\ uu' = uu + 1
    BY <1>4, <1>6 DEF Duplicate
  <2>2. TypeOK'
    <3>1. errs' \in 0..Len(written) /\ uu' \in 1..Len(written) + 1
      BY <1>2, <2>1
    <3> QED
      BY <1>1, <1>2, <3>1 DEF IInv, TypeOK
  <2>3. Counted'
    BY <1>1, <1>2, <1>5, <1>6, <2>1 DEF Counted
  <2>4. Compared'
    BY <1>2, <2>1 DEF Compared
  <2> QED
    BY <1>5, <2>2, <2>3, <2>4 DEF IInv
<1>7. CASE ~Same(u, uu)
  <2>1. errs' = errs /\ uu' = Len(written) + 1
    BY <1>2, <1>4, <1>7 DEF Duplicate
  <2>2. TypeOK'
    BY <1>1, <1>2, <2>1 DEF IInv, TypeOK
  <2>3. Counted'
    <3>1. errs' < uu'
      BY <1>2, <2>1
    <3> QED
      BY <1>1, <1>5, <2>1, <3>1 DEF IInv, Counted
  <2>4. Compared'
    <3>1. SUFFICES ASSUME errs = 0, NEW i \in DOMAIN written, FirstOfItsSize(i)
                   PROVE  ~Same(i, u)
      BY <1>1, <1>5, <2>1 DEF IInv, Compared, FirstOfItsSize
    <3>2. i \in Nat
      BY StateFacts DEF IInv
    <3>3. CASE i < uu
      BY <1>2, <3>1, <3>3 DEF IInv, Compared
    <3>4. CASE i = uu
      BY <1>7, <3>4 DEF Same
    <3>5. CASE i > uu
      <4>1. uu \in 1..i - 1
        BY <1>2, <3>2, <3>5
      <4>2. Len(written[uu]) # Len(written[i])
        BY <3>1, <4>1 DEF FirstOfItsSize
      <4> QED
        BY <1>2, <1>3, <4>2, SameLength DEF IInv
    <3> QED
      BY <1>2, <3>2, <3>3, <3>4, <3>5
  <2> QED
    BY <1>5, <2>2, <2>3, <2>4 DEF IInv
<1> QED
  BY <1>6, <1>7

\* The current clause had no duplicate and is put in order.
LEMMA NormaliseIInv ==
  ASSUME IInv, Normalise
  PROVE  IInv'
<1>1. /\ phase = "check" /\ u <= Len(written) /\ uu > Len(written) /\ errs = 0
      /\ clauses' = [clauses EXCEPT ![u] = Sorted(@)]
      /\ u' = u + 1 /\ uu' = 1 /\ UNCHANGED <<written, phase, errs>>
      /\ u \in DOMAIN written /\ u \in Nat \ {0} /\ Len(written) \in Nat
      /\ DOMAIN written = 1..Len(written)
  <2>1. Len(clauses) = Len(written) /\ u \in Nat \ {0} /\ Len(written) \in Nat
        /\ DOMAIN written = 1..Len(written)
    BY StateFacts DEF IInv
  <2> QED
    BY <2>1 DEF Normalise
<1>2. /\ clauses \in Seq(Seq(Field)) /\ Len(clauses) = Len(written)
      /\ DOMAIN clauses = 1..Len(written) /\ clauses[u] = written[u]
      /\ written[u] \in Clause
  <2>1. clauses \in Seq(Seq(Field)) /\ Len(clauses) = Len(written) /\ written[u] \in Clause
    BY <1>1, StateFacts DEF IInv, TypeOK
  <2>2. clauses[u] = written[u]
    BY <1>1 DEF IInv, Normal
  <2> QED
    BY <1>1, <2>1, <2>2
<1>3. /\ clauses' \in Seq(Seq(Field)) /\ Len(clauses') = Len(written)
      /\ DOMAIN clauses' = 1..Len(written)
      /\ clauses'[u] = Sorted(written[u])
      /\ \A k \in DOMAIN written : k # u => clauses'[k] = clauses[k]
  <2>1. Sorted(written[u]) \in Seq(Field)
    BY <1>2, SortedFacts
  <2>2. clauses' = [clauses EXCEPT ![u] = Sorted(written[u])]
    BY <1>1, <1>2
  <2> QED
    BY <1>1, <1>2, <2>1, <2>2, ExceptSeq
<1>4. Normal'
  <2>1. SUFFICES ASSUME NEW k \in DOMAIN written
                 PROVE  clauses'[k] = IF k < u + 1 THEN Sorted(written[k]) ELSE written[k]
    BY <1>1 DEF Normal
  <2>2. k \in Nat
    BY <1>1
  <2>3. CASE k = u
    BY <1>1, <1>3, <2>3
  <2>4. CASE k # u
    <3>1. k < u <=> k < u + 1
      BY <1>1, <2>2, <2>4
    <3> QED
      BY <1>3, <2>4, <3>1 DEF IInv, Normal
  <2> QED
    BY <2>3, <2>4
<1>5. TypeOK'
  <2>1. \A k \in DOMAIN clauses' : clauses'[k] \in {written[k], Sorted(written[k])}
    BY <1>1, <1>3, <1>4 DEF Normal
  <2>2. u' \in 1..Len(clauses') + 1 /\ uu' \in 1..Len(clauses') + 1 /\ errs' \in 0..Len(clauses')
    BY <1>1, <1>3
  <2> QED
    BY <1>1, <1>3, <2>1, <2>2 DEF IInv, TypeOK
<1>6. Counted' /\ Ended'
  BY <1>1 DEF Counted, Ended
<1>7. Compared'
  <2>1. SUFFICES ASSUME NEW i \in DOMAIN written, FirstOfItsSize(i)
                 PROVE  /\ \A k \in DOMAIN written : k < u + 1 => ~Same(i, k)
                        /\ ~(i < 1)
    BY <1>1 DEF Compared, FirstOfItsSize, Same
  <2>2. i \in Nat \ {0} /\ i < uu
    <3>1. uu \in Nat
      BY StateFacts DEF IInv
    <3> QED
      BY <1>1, <3>1
  <2>3. ASSUME NEW k \in DOMAIN written, k < u + 1 PROVE ~Same(i, k)
    <3>1. k < u \/ k = u
      BY <1>1, <2>3
    <3> QED
      BY <1>1, <2>1, <2>2, <3>1 DEF IInv, Compared
  <2> QED
    BY <2>2, <2>3
<1> QED
  BY <1>4, <1>5, <1>6, <1>7 DEF IInv

\* The loop ends, with an error or without.
LEMMA FinishIInv ==
  ASSUME IInv, Finish
  PROVE  IInv'
<1>1. /\ UNCHANGED <<written, clauses, u, uu, errs>>
      /\ \/ phase' = "done" /\ u > Len(written)
         \/ phase' = "fail" /\ errs > 0
  BY StateFacts DEF IInv, Finish
<1>2. TypeOK' /\ Normal' /\ Ended'
  BY <1>1 DEF IInv, TypeOK, Normal, Ended
<1>3. Counted' /\ Compared'
  BY <1>1 DEF IInv, Counted, Compared, FirstOfItsSize, Same
<1> QED
  BY <1>2, <1>3 DEF IInv

\* Each turn of check_unique() keeps the invariant.
LEMMA StepIInv == IInv /\ [Next]_vars => IInv'
<1> SUFFICES ASSUME IInv, [Next]_vars PROVE IInv'
  OBVIOUS
<1>1. CASE UNCHANGED vars
  BY <1>1 DEF vars, IInv, TypeOK, Normal, Counted, Compared, Ended, FirstOfItsSize, Same
<1> QED
  BY <1>1, PassOverIInv, DuplicateIInv, NormaliseIInv, FinishIInv DEF Next
------------------------------------------------------------------------------
\* The invariant of the two loops.
THEOREM Invariance == Spec => []IInv
  BY InitIInv, StepIInv, PTL DEF Spec

\* The loops stay within the list, and each clause is as it was written or in
\* order.
THEOREM TypeCorrect == Spec => []TypeOK
<1>1. IInv => TypeOK
  BY DEF IInv
<1> QED
  BY <1>1, Invariance, PTL

\* check_unique_unique() refuses duplicates only, refuses those of the first
\* clause of a size, and leaves clauses of the same fields alike.
THEOREM UniqueSettled == Spec => []ClausesSettled
<1>1. IInv => ClausesSettled
  <2> SUFFICES ASSUME IInv PROVE ClausesSettled
    OBVIOUS
  <2>1. ASSUME phase = "fail" PROVE \E i, j \in DOMAIN written : Same(i, j)
    <3>1. errs > 0
      BY <2>1 DEF IInv, Ended
    <3>2. u \in DOMAIN written /\ \E j \in DOMAIN written : Same(u, j)
      BY <3>1, StateFacts DEF IInv, Counted
    <3> QED
      BY <3>2
  <2>2. ASSUME phase = "done", NEW i \in DOMAIN written, NEW j \in DOMAIN written
        PROVE  /\ FirstOfItsSize(i) => ~Same(i, j)
               /\ Names(written[i]) = Names(written[j]) => clauses[i] = clauses[j]
    <3>1. u > Len(written) /\ errs = 0 /\ i < u /\ j < u
      <4>1. u > Len(written)
        BY <2>2 DEF IInv, Ended
      <4>2. errs = 0
        BY <4>1, StateFacts DEF IInv, Counted
      <4> QED
        BY <4>1, <4>2, StateFacts DEF IInv
    <3>2. FirstOfItsSize(i) => ~Same(i, j)
      BY <3>1 DEF IInv, Compared
    <3>3. clauses[i] = Sorted(written[i]) /\ clauses[j] = Sorted(written[j])
      BY <3>1 DEF IInv, Normal
    <3>4. Names(written[i]) = Names(written[j]) => Sorted(written[i]) = Sorted(written[j])
      BY DEF Sorted, Names
    <3> QED
      BY <3>2, <3>3, <3>4
  <2> QED
    BY <2>1, <2>2 DEF ClausesSettled
<1> QED
  BY <1>1, Invariance, PTL

\* The fields of each clause that gets through are the ones it was written
\* with, in the order of their names.
InOrder ==
  phase = "done" =>
    \A k \in DOMAIN written :
      /\ Names(clauses[k]) = Names(written[k])
      /\ \A i, j \in 1..Len(written[k]) : i < j => clauses[k][i] < clauses[k][j]

\* What the generators name the indices of the schema by is settled.
THEOREM UniqueInOrder == Spec => []InOrder
<1>1. IInv => InOrder
  <2> SUFFICES ASSUME IInv, phase = "done", NEW k \in DOMAIN written
               PROVE  /\ Names(clauses[k]) = Names(written[k])
                      /\ \A i, j \in 1..Len(written[k]) : i < j => clauses[k][i] < clauses[k][j]
    BY DEF InOrder
  <2>1. k < u
    BY StateFacts DEF IInv, Ended
  <2>2. clauses[k] = Sorted(written[k]) /\ written[k] \in Clause
    BY <2>1, StateFacts DEF IInv, Normal
  <2> QED
    BY <2>2, SortedFacts
<1> QED
  BY <1>1, Invariance, PTL

\* A search that is marked as unique by fields of its own structure has one
\* row at most: two rows that it finds have the same values for some key, and
\* no table has both.
THEOREM UniqueHasOneRow == Spec => []OneRow
<1>1. OneRow
  <2> SUFFICES ASSUME NEW s \in Search, NEW single \in SUBSET Field,
                      IsUnique(s, single), ~s.ref,
                      NEW rows \in Rows, BothFound(rows, s)
               PROVE  ~Together(rows, single)
    BY DEF OneRow
  <2>1. \A f \in s.equal : rows.own[f] = "same"
    BY DEF BothFound
  <2>2. CASE s.equal \cap single # {}
    <3>1. PICK f \in s.equal \cap single : TRUE
      BY <2>2
    <3>2. {f} \in {{g} : g \in single} /\ rows.own[f] = "same"
      BY <2>1, <3>1
    <3> QED
      BY <3>2 DEF Together
  <2>3. CASE ClauseAsked(s)
    <3>1. PICK i \in DOMAIN clauses : Names(clauses[i]) \subseteq s.equal
      BY <2>3 DEF ClauseAsked
    <3> DEFINE key == Names(clauses[i])
    <3>2. key \in {Names(clauses[k]) : k \in DOMAIN clauses}
      OBVIOUS
    <3>3. \A f \in key : rows.own[f] = "same"
      BY <2>1, <3>1
    <3> HIDE DEF key
    <3> QED
      BY <3>2, <3>3 DEF Together
  <2> QED
    BY <2>2, <2>3 DEF IsUnique
<1> QED
  BY <1>1, PTL
==============================================================================
