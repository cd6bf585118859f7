---------------------------- MODULE CountLemmas ----------------------------
(***************************************************************************)
(* Facts that the proofs about walks over lists need: how many members of  *)
(* a set are among the first n positions, which is the least or the        *)
(* greatest of a set of integers, that a loop has its course, and that a   *)
(* set can be put in order.                                                *)
(***************************************************************************)
EXTENDS Integers, FiniteSetsExt, FiniteSetTheorems, WellFoundedInduction, TLAPS

\* How many members of T a walk has met when it has passed n positions.
Count(T, n) == Cardinality({m \in 1..n : m \in T})

\* A walk has met none before it starts, and no more than it has passed.
LEMMA CountType ==
  ASSUME NEW T, NEW n \in Nat
  PROVE  Count(T, n) \in Nat /\ Count(T, n) <= n /\ Count(T, 0) = 0
<1>1. IsFiniteSet(1..n) /\ Cardinality(1..n) = n
  BY FS_Interval
<1>2. {m \in 1..n : m \in T} \in SUBSET (1..n)
  OBVIOUS
<1>3. Count(T, n) \in Nat /\ Count(T, n) <= n
  BY <1>1, <1>2, FS_Subset, FS_CardinalityType DEF Count
<1>4. {m \in 1..0 : m \in T} = {}
  OBVIOUS
<1> QED
  BY <1>3, <1>4, FS_EmptySet DEF Count

\* One step of the walk.
LEMMA CountStep ==
  ASSUME NEW T, NEW n \in Nat \ {0}
  PROVE  Count(T, n) = Count(T, n - 1) + IF n \in T THEN 1 ELSE 0
<1> DEFINE S == {m \in 1..(n-1) : m \in T}
<1>1. IsFiniteSet(S)
  <2>1. IsFiniteSet(1..(n-1))
    BY FS_Interval
  <2> QED
    BY <2>1, FS_Subset
<1>2. CASE n \in T
  <2>1. {m \in 1..n : m \in T} = S \cup {n}
    BY <1>2
  <2>2. n \notin S
    OBVIOUS
  <2> HIDE DEF S
  <2>3. Cardinality(S \cup {n}) = Cardinality(S) + 1
    BY <1>1, <2>2, FS_AddElement
  <2> QED
    BY <1>2, <2>1, <2>3 DEF Count, S
<1>3. CASE n \notin T
  <2>1. {m \in 1..n : m \in T} = S
    BY <1>3
  <2>2. Count(T, n) = Count(T, n - 1)
    BY <2>1 DEF Count
  <2>3. Count(T, n - 1) \in Nat
    BY CountType
  <2> QED
    BY <1>3, <2>2, <2>3
<1> QED
  BY <1>2, <1>3

\* Counts never go down, and go up at each member.
LEMMA CountMonotonic ==
  ASSUME NEW T, NEW m \in Nat, NEW n \in Nat, m < n
  PROVE  /\ Count(T, m) <= Count(T, n)
         /\ n \in T => Count(T, m) < Count(T, n)
<1>1. ASSUME NEW k \in Nat, m <= k PROVE Count(T, m) <= Count(T, k)
  <2>1. IsFiniteSet(1..k)
    BY FS_Interval
  <2>2. IsFiniteSet({x \in 1..k : x \in T})
    BY <2>1, FS_Subset
  <2>3. {x \in 1..m : x \in T} \in SUBSET {x \in 1..k : x \in T}
    BY <1>1
  <2> QED
    BY <2>2, <2>3, FS_Subset DEF Count
<1>2. Count(T, m) <= Count(T, n - 1)
  BY <1>1
<1>3. Count(T, n) = Count(T, n - 1) + IF n \in T THEN 1 ELSE 0
  BY CountStep
<1> QED
  BY <1>1, <1>2, <1>3, CountType
------------------------------------------------------------------------------
\* A set of natural numbers has a least one: the intervals up to its members
\* are ordered by inclusion, which is well-founded.
LEMMA LeastNatural ==
  ASSUME NEW S \in SUBSET Nat, S # {}
  PROVE  Min(S) \in S /\ \A y \in S : Min(S) <= y
<1> DEFINE T == {0..x : x \in S}
<1>1. T \subseteq FiniteSubsetsOf(Nat) /\ T # {}
  <2>1. ASSUME NEW x \in S PROVE 0..x \in FiniteSubsetsOf(Nat)
    <3>1. x \in Int /\ 0 \in Int /\ 0..x \subseteq Nat
      OBVIOUS
    <3> QED
      BY <3>1, FS_Interval DEF FiniteSubsetsOf
  <2> QED
    BY <2>1
<1>2. \E X \in T : \A Y \in T : ~(<<Y, X>> \in StrictSubsetOrdering(Nat))
  <2> HIDE DEF T
  <2> QED
    BY <1>1, FS_StrictSubsetOrderingWellFounded, WFMin
<1>3. PICK x \in S : \A y \in S : ~(<<0..y, 0..x>> \in StrictSubsetOrdering(Nat))
  BY <1>2
<1>4. ASSUME NEW y \in S PROVE x <= y
  <2>1. SUFFICES ASSUME y < x PROVE FALSE
    BY <1>4
  <2>2. 0..y \subseteq 0..x /\ x \in 0..x /\ x \notin 0..y
    BY <2>1
  <2>3. <<0..y, 0..x>> \in StrictSubsetOrdering(Nat)
    BY <2>2 DEF StrictSubsetOrdering
  <2> QED
    BY <1>3, <1>4, <2>3
<1> QED
  BY <1>4 DEF Min

\* What holds at the start and, with a number, of the next one, holds up to n.
LEMMA UpTo ==
  ASSUME NEW n \in Nat, NEW S, 0 \in S, \A i \in 1..n : i - 1 \in S => i \in S
  PROVE  \A i \in 0..n : i \in S
<1> DEFINE T == {i \in 0..n : i \notin S}
<1>1. SUFFICES ASSUME T # {} PROVE FALSE
  OBVIOUS
<1>2. PICK k \in T : \A j \in T : k <= j
  <2>1. T \in SUBSET Nat
    OBVIOUS
  <2> HIDE DEF T
  <2> QED
    BY <1>1, <2>1, LeastNatural
<1>3. k \in 1..n /\ k \notin S
  OBVIOUS
<1>4. k - 1 \in 0..n /\ ~(k <= k - 1)
  BY <1>3
<1>5. k - 1 \in S
  BY <1>2, <1>4
<1> QED
  BY <1>3, <1>5

\* What a loop of n turns comes to after each turn, from s0, by the turn's own
\* step.
Steps(S, n) == [1..n -> [S -> S]]
Courses(S, s0, n, step) == {f \in [0..n -> S] : f[0] = s0 /\ \A i \in 1..n : f[i] = step[i][f[i - 1]]}

\* A loop has its course.
LEMMA LoopRuns ==
  ASSUME NEW S, NEW s0 \in S, NEW n \in Nat, NEW step \in Steps(S, n)
  PROVE  Courses(S, s0, n, step) # {}
<1> USE DEF Steps, Courses
<1> DEFINE Runs(k) == \E f \in [0..k -> S] : f[0] = s0 /\ \A i \in 1..k : f[i] = step[i][f[i - 1]]
           Stuck == {k \in 0..n : ~Runs(k)}
<1>1. SUFFICES ASSUME Stuck # {} PROVE FALSE
  <2>1. SUFFICES ASSUME ~Runs(n) PROVE FALSE
    OBVIOUS
  <2> QED
    BY <1>1, <2>1, n \in 0..n
<1>2. PICK k \in Stuck : \A j \in Stuck : k <= j
  <2>1. Stuck \in SUBSET Nat
    OBVIOUS
  <2> HIDE DEF Stuck
  <2> QED
    BY <1>1, <2>1, LeastNatural
<1>3. k \in 0..n /\ ~Runs(k)
  OBVIOUS
<1>4. k # 0
  <2>1. Runs(0)
    <3> DEFINE f == [i \in 0..0 |-> s0]
    <3>1. f \in [0..0 -> S] /\ f[0] = s0 /\ \A i \in 1..0 : FALSE
      OBVIOUS
    <3> QED
      BY <3>1
  <2> QED
    BY <1>3, <2>1
<1>5. k - 1 \in 0..n /\ ~(k <= k - 1)
  BY <1>3, <1>4
<1>6. Runs(k - 1)
  BY <1>2, <1>5
<1> HIDE DEF Stuck
<1>7. PICK f \in [0..k - 1 -> S] : f[0] = s0 /\ \A i \in 1..k - 1 : f[i] = step[i][f[i - 1]]
  BY <1>6
<1> DEFINE g == [i \in 0..k |-> IF i = k THEN step[k][f[k - 1]] ELSE f[i]]
<1>8. g \in [0..k -> S]
  <2>1. k \in 1..n /\ k - 1 \in 0..k - 1
    BY <1>3, <1>4
  <2>2. step[k][f[k - 1]] \in S
    BY <1>7, <2>1
  <2>3. \A i \in 0..k : i # k => i \in 0..k - 1
    BY <1>3
  <2> QED
    BY <1>7, <2>2, <2>3
<1>9. g[0] = s0
  BY <1>3, <1>4, <1>7
<1>10. ASSUME NEW i \in 1..k PROVE g[i] = step[i][g[i - 1]]
  <2>1. i \in 0..k /\ i - 1 \in 0..k /\ i - 1 # k
    BY <1>3
  <2>2. g[i - 1] = f[i - 1]
    BY <2>1
  <2>3. CASE i = k
    BY <2>1, <2>2, <2>3
  <2>4. CASE i # k
    <3>1. i \in 1..k - 1
      BY <1>3, <2>4
    <3> QED
      BY <1>7, <2>1, <2>2, <2>4, <3>1
  <2> QED
    BY <2>3, <2>4
<1> HIDE DEF g
<1> QED
  BY <1>3, <1>8, <1>9, <1>10

\* A set of integers between two others has a greatest one.
LEMMA GreatestBounded ==
  ASSUME NEW a \in Int, NEW b \in Int, NEW S \in SUBSET (a..b), S # {}
  PROVE  Max(S) \in S /\ \A y \in S : Max(S) >= y
<1> DEFINE T == {b - x : x \in S}
<1>1. T \in SUBSET Nat /\ T # {}
  <2>1. ASSUME NEW x \in S PROVE b - x \in Nat
    OBVIOUS
  <2> QED
    BY <2>1
<1>2. Min(T) \in T /\ \A y \in T : Min(T) <= y
  <2> HIDE DEF T
  <2> QED
    BY <1>1, LeastNatural
<1>3. PICK x \in S : \A y \in S : b - x <= b - y
  BY <1>2
<1>4. \A y \in S : x >= y
  BY <1>3
<1> QED
  BY <1>4 DEF Max
------------------------------------------------------------------------------
\* R orders the members of S: any two one way, none before itself.
StrictOrder(S, R) ==
  /\ \A x, y \in S : x # y => <<x, y>> \in R \/ <<y, x>> \in R
  /\ \A x \in S : <<x, x>> \notin R
  /\ \A x, y, z \in S : <<x, y>> \in R /\ <<y, z>> \in R => <<x, z>> \in R

\* A finite set can be put in an order that is total: each member has its place
\* by how many do not come after it.
LEMMA OrderExists ==
  ASSUME NEW S, IsFiniteSet(S), NEW R, StrictOrder(S, R)
  PROVE  \E f \in [1..Cardinality(S) -> S] :
           \A i, j \in DOMAIN f : i < j => <<f[i], f[j]>> \in R
<1> DEFINE n == Cardinality(S)
           upto(x) == {y \in S : y = x \/ <<y, x>> \in R}
           rank == [x \in S |-> Cardinality(upto(x))]
<1>1. n \in Nat /\ IsFiniteSet(1..n) /\ Cardinality(1..n) = n
  <2>1. n \in Nat
    BY FS_CardinalityType
  <2> QED
    BY <2>1, FS_Interval
<1>2. \A x \in S : upto(x) \in SUBSET S /\ x \in upto(x)
  OBVIOUS
<1>3. ASSUME NEW x \in S
      PROVE  IsFiniteSet(upto(x)) /\ Cardinality(upto(x)) \in 1..n
  <2>1. upto(x) \in SUBSET S /\ upto(x) # {}
    BY <1>2
  <2> HIDE DEF upto
  <2>2. IsFiniteSet(upto(x)) /\ Cardinality(upto(x)) <= n
    BY <2>1, FS_Subset
  <2>3. Cardinality(upto(x)) \in Nat /\ Cardinality(upto(x)) # 0
    BY <2>1, <2>2, FS_CardinalityType, FS_EmptySet
  <2> QED
    BY <1>1, <2>2, <2>3
<1>4. ASSUME NEW x \in S, NEW z \in S, <<x, z>> \in R
      PROVE  rank[x] < rank[z]
  <2>1. upto(x) \cup {z} \in SUBSET upto(z) /\ z \notin upto(x)
    <3>1. z # x /\ <<z, x>> \notin R
      BY <1>4 DEF StrictOrder
    <3>2. \A y \in S : y = x \/ <<y, x>> \in R => <<y, z>> \in R
      BY <1>4 DEF StrictOrder
    <3> QED
      BY <3>1, <3>2
  <2> HIDE DEF upto
  <2>2. IsFiniteSet(upto(x)) /\ IsFiniteSet(upto(z))
        /\ Cardinality(upto(x)) \in 1..n /\ Cardinality(upto(z)) \in 1..n
    BY <1>3
  <2>3. Cardinality(upto(x) \cup {z}) = Cardinality(upto(x)) + 1
    BY <2>1, <2>2, FS_AddElement
  <2>4. Cardinality(upto(x) \cup {z}) <= Cardinality(upto(z))
    BY <2>1, <2>2, FS_Subset
  <2>5. Cardinality(upto(x)) < Cardinality(upto(z))
    BY <1>1, <2>2, <2>3, <2>4
  <2> QED
    BY <2>5
<1>5. rank \in [S -> 1..n]
  BY <1>3
<1> HIDE DEF rank
<1>6. rank \in Injection(S, 1..n)
  <2>1. \A x, z \in S : x # z => rank[x] # rank[z]
    <3>1. ASSUME NEW x \in S, NEW z \in S, x # z PROVE rank[x] # rank[z]
      <4>1. <<x, z>> \in R \/ <<z, x>> \in R
        BY <3>1 DEF StrictOrder
      <4>2. rank[x] \in Int /\ rank[z] \in Int
        BY <1>1, <1>5
      <4> QED
        BY <1>4, <4>1, <4>2
    <3> QED
      BY <3>1
  <2> QED
    BY <1>5, <2>1 DEF Injection, IsInjective
<1>7. \A i \in 1..n : \E x \in S : rank[x] = i
  <2>1. rank \in Surjection(S, 1..n)
    BY <1>1, <1>6, FS_Injection
  <2> QED
    BY <2>1 DEF Surjection
<1> DEFINE f == [i \in 1..n |-> CHOOSE x \in S : rank[x] = i]
<1>8. f \in [1..n -> S] /\ \A i \in 1..n : rank[f[i]] = i
  BY <1>7
<1>9. ASSUME NEW i \in 1..n, NEW j \in 1..n, i < j
      PROVE  <<f[i], f[j]>> \in R
  <2> HIDE DEF f
  <2>1. f[i] \in S /\ f[j] \in S /\ rank[f[i]] = i /\ rank[f[j]] = j
    BY <1>8
  <2>2. i \in Nat /\ j \in Nat /\ i # j
    BY <1>1, <1>9
  <2>3. <<f[j], f[i]>> \in R => j < i
    BY <1>4, <2>1
  <2>4. ~(j < i)
    BY <1>9, <2>2
  <2>5. f[i] # f[j]
    BY <2>1, <2>2
  <2> QED
    BY <2>1, <2>3, <2>4, <2>5 DEF StrictOrder
<1>10. DOMAIN f = 1..n
  BY <1>8
<1> HIDE DEF f
<1> QED
  BY <1>8, <1>9, <1>10

\* A list in order has all members of the set.
LEMMA OrderedAll ==
  ASSUME NEW S, IsFiniteSet(S), NEW f \in [1..Cardinality(S) -> S], IsInjective(f)
  PROVE  \A x \in S : \E i \in 1..Cardinality(S) : f[i] = x
<1>1. Cardinality(S) \in Nat
  BY FS_CardinalityType
<1>2. IsFiniteSet(1..Cardinality(S)) /\ Cardinality(1..Cardinality(S)) = Cardinality(S)
  BY <1>1, FS_Interval
<1>3. f \in Injection(1..Cardinality(S), S)
  BY DEF Injection
<1>4. f \in Surjection(1..Cardinality(S), S)
  BY <1>2, <1>3, FS_Injection
<1> QED
  BY <1>4 DEF Surjection
==============================================================================
