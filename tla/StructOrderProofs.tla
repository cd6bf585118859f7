------------------------- MODULE StructOrderProofs -------------------------
(***************************************************************************)
(* What the run of StructOrder checks with three structures, proved for    *)
(* any number of structures, fields and letters: the linker finds every    *)
(* recursion, and where no structure is referred to twice, its heights     *)
(* order each structure before those that embed it.                        *)
(***************************************************************************)
EXTENDS StructOrder, SequenceTheorems, CountLemmas

\* References from t on come to an end: no set of structures that t is in has
\* a reference from each of them to another.
Bounded(r, t) ==
  ~\E S \in SUBSET Strct : t \in S /\ \A s \in S : Range(r[s]) \cap S # {}

\* A frame waits for the field before its own, which refers to the structure
\* of the frame above it; the first frame is of the list's current structure.
Linked ==
  /\ \A i \in DOMAIN stack : i < Len(stack) =>
       /\ stack[i][2] > 1
       /\ refs[stack[i][1]][stack[i][2] - 1] = stack[i + 1][1]
  /\ stack # <<>> =>
       /\ at <= Len(order) /\ stack[1][1] = order[at]
       /\ phase \in {"alias", "height", "fail"}

\* Fields that the recursion has returned from end, of all its frames, and so
\* do structures that the loop has passed.
Explored ==
  phase = "alias" =>
    /\ \A k \in 1..at - 1 : Bounded(refs, order[k])
    /\ \A i \in DOMAIN stack : \A g \in 1..stack[i][2] - 1 :
         (i < Len(stack) => g < stack[i][2] - 1) => Bounded(refs, refs[stack[i][1]][g])

Rounds ==
  /\ phase \in {"alias", "fail"} => hue = 1
  /\ hue <= at

IInv == TypeOK /\ Linked /\ Explored /\ Rounds /\ NoneRecursive
------------------------------------------------------------------------------
\* The fields of a structure are a list.
LEMMA RefsSeq ==
  ASSUME TypeOK, NEW s \in Strct
  PROVE  /\ refs[s] \in Seq(Strct) /\ Len(refs[s]) \in Nat /\ Len(refs[s]) <= MaxRefs
         /\ DOMAIN refs[s] = 1..Len(refs[s])
         /\ \A g \in 1..Len(refs[s]) : refs[s][g] \in Strct /\ refs[s][g] \in Range(refs[s])
<1>1. refs[s] \in BoundedSeq(Strct, MaxRefs)
  BY DEF TypeOK, Refs
<1>2. PICK m \in 0..MaxRefs : refs[s] \in [1..m -> Strct]
  BY <1>1 DEF BoundedSeq, SeqOf
<1>3. m \in Nat /\ refs[s] \in Seq(Strct) /\ Len(refs[s]) = m /\ m <= MaxRefs
  BY <1>2, StructOrderAssumption
<1> QED
  BY <1>2, <1>3 DEF Range

\* What the state's parts are.
LEMMA StateType ==
  ASSUME TypeOK
  PROVE  /\ stack \in Seq(Strct \X Nat) /\ Len(stack) \in Nat /\ DOMAIN stack = 1..Len(stack)
         /\ stack = <<>> <=> Len(stack) = 0
         /\ \A i \in DOMAIN stack :
              /\ stack[i] = <<stack[i][1], stack[i][2]>> /\ stack[i][1] \in Strct
              /\ stack[i][2] \in Nat \ {0} /\ stack[i][2] <= Len(refs[stack[i][1]]) + 1
         /\ order \in Seq(Strct) /\ Len(order) \in Nat /\ DOMAIN order = 1..Len(order)
         /\ \A k \in 1..Len(order) : order[k] \in Strct
         /\ \A s \in Strct : \E k \in 1..Len(order) : order[k] = s
         /\ at \in Nat \ {0} /\ at <= Len(order) + 1
         /\ hue \in Nat \ {0} /\ hue <= Len(order) + 1
<1>1. stack \in Seq(Strct \X Nat) /\ Len(stack) \in Nat /\ DOMAIN stack = 1..Len(stack)
  BY DEF TypeOK
<1>2. \A i \in DOMAIN stack :
        /\ stack[i] = <<stack[i][1], stack[i][2]>> /\ stack[i][1] \in Strct
        /\ stack[i][2] \in Nat
  <2>1. \A i \in DOMAIN stack : stack[i] \in Strct \X Nat
    BY <1>1, ElementOfSeq
  <2> QED
    BY <2>1
<1>3. \A i \in DOMAIN stack : Len(refs[stack[i][1]]) \in Nat
  BY <1>2, RefsSeq
<1>4. \A i \in DOMAIN stack : stack[i][2] \in Nat \ {0} /\ stack[i][2] <= Len(refs[stack[i][1]]) + 1
  <2>1. \A i \in DOMAIN stack : stack[i][2] \in 1..Len(refs[stack[i][1]]) + 1
    BY DEF TypeOK
  <2> QED
    BY <1>2, <1>3, <2>1
<1>5. order \in Seq(Strct) /\ Len(order) \in Nat /\ DOMAIN order = 1..Len(order)
  BY DEF TypeOK
<1>6. \A s \in Strct : \E k \in 1..Len(order) : order[k] = s
  BY <1>5 DEF TypeOK, Range
<1>7. /\ at \in Nat \ {0} /\ at <= Len(order) + 1
      /\ hue \in Nat \ {0} /\ hue <= Len(order) + 1
  BY <1>5 DEF TypeOK
<1>8. stack = <<>> <=> Len(stack) = 0
  BY <1>1, EmptySeq
<1>9. \A k \in 1..Len(order) : order[k] \in Strct
  BY <1>5
<1> QED
  BY <1>1, <1>2, <1>4, <1>5, <1>6, <1>7, <1>8, <1>9

\* What a recursion does to its stack: the top frame goes on to the next field
\* and a frame is put on top of it, or the top is taken off.
LEMMA Frames ==
  ASSUME TypeOK, stack # <<>>, NEW n, n = Len(stack)
  PROVE  /\ n \in Nat \ {0} /\ Top = stack[n]
         /\ Front(stack) \in Seq(Strct \X Nat) /\ Len(Front(stack)) = n - 1
         /\ \A i \in 1..n - 1 : Front(stack)[i] = stack[i]
         /\ NextField \in Seq(Strct \X Nat) /\ Len(NextField) = n
         /\ \A i \in 1..n - 1 : NextField[i] = stack[i]
         /\ NextField[n] = <<stack[n][1], stack[n][2] + 1>>
<1>1. n \in Nat \ {0} /\ stack \in Seq(Strct \X Nat)
  BY StateType
<1>2. Top = stack[n]
  BY DEF Top, Last
<1>3. /\ Front(stack) \in Seq(Strct \X Nat) /\ Len(Front(stack)) = n - 1
      /\ \A i \in 1..n - 1 : Front(stack)[i] = stack[i]
  <2>1. Front(stack) = SubSeq(stack, 1, n - 1)
    BY DEF Front
  <2> QED
    BY <1>1, <2>1, SubSeqProperties
<1>4. <<stack[n][1], stack[n][2] + 1>> \in Strct \X Nat
  BY <1>1, StateType
<1>5. NextField = Append(Front(stack), <<stack[n][1], stack[n][2] + 1>>)
  BY <1>2 DEF NextField
<1> QED
  BY <1>1, <1>2, <1>3, <1>4, <1>5, AppendProperties

\* The same for a call.
LEMMA Calls ==
  ASSUME TypeOK, stack # <<>>, NEW s \in Strct, NEW n, n = Len(stack)
  PROVE  /\ Call(s) \in Seq(Strct \X Nat) /\ Len(Call(s)) = n + 1
         /\ \A i \in 1..n - 1 : Call(s)[i] = stack[i]
         /\ Call(s)[n] = <<stack[n][1], stack[n][2] + 1>>
         /\ Call(s)[n + 1] = <<s, 1>>
<1>1. /\ n \in Nat \ {0}
      /\ NextField \in Seq(Strct \X Nat) /\ Len(NextField) = n
      /\ \A i \in 1..n - 1 : NextField[i] = stack[i]
      /\ NextField[n] = <<stack[n][1], stack[n][2] + 1>>
  BY Frames
<1>2. Call(s) = Append(NextField, <<s, 1>>) /\ <<s, 1>> \in Strct \X Nat
  BY DEF Call
<1> QED
  BY <1>1, <1>2, AppendProperties

\* The same of the stack that a step with a call leaves.
LEMMA Called ==
  ASSUME TypeOK, stack # <<>>, NEW s \in Strct, stack' = Call(s), NEW n, n = Len(stack)
  PROVE  /\ stack' \in Seq(Strct \X Nat) /\ Len(stack') = n + 1
         /\ \A i \in 1..n - 1 : stack'[i] = stack[i]
         /\ stack'[n] = <<stack[n][1], stack[n][2] + 1>>
         /\ stack'[n + 1] = <<s, 1>>
  BY Calls

\* A structure of the stack that a frame above it, or itself, refers to is
\* recursive.
LEMMA LoopIsRecursive ==
  ASSUME TypeOK, Linked,
         NEW j \in DOMAIN stack, NEW m \in DOMAIN stack, j <= m,
         stack[j][1] \in Range(refs[stack[m][1]])
  PROVE  Recursive
<1> DEFINE S == {stack[k][1] : k \in j..m}
<1>1. j \in Nat /\ m \in Nat /\ Len(stack) \in Nat /\ DOMAIN stack = 1..Len(stack)
      /\ m <= Len(stack) /\ j >= 1
  <2>1. Len(stack) \in Nat /\ DOMAIN stack = 1..Len(stack)
    BY StateType
  <2> QED
    BY <2>1
<1>2. S \in SUBSET Strct /\ stack[j][1] \in S
  <2>1. \A k \in j..m : k \in DOMAIN stack
    BY <1>1
  <2>2. \A k \in j..m : stack[k][1] \in Strct
    BY <2>1, StateType
  <2>3. j \in j..m
    BY <1>1
  <2> QED
    BY <2>2, <2>3
<1>3. ASSUME NEW k \in j..m PROVE Range(refs[stack[k][1]]) \cap S # {}
  <2>1. CASE k = m
    BY <1>2, <2>1
  <2>2. CASE k # m
    <3>1. k \in DOMAIN stack /\ k < Len(stack) /\ k + 1 \in j..m
      BY <1>1, <2>2
    <3>2. stack[k][2] > 1 /\ refs[stack[k][1]][stack[k][2] - 1] = stack[k + 1][1]
      BY <3>1 DEF Linked
    <3>3. /\ stack[k][1] \in Strct /\ stack[k][2] \in Nat
          /\ stack[k][2] <= Len(refs[stack[k][1]]) + 1
      BY <3>1, StateType
    <3>4. Len(refs[stack[k][1]]) \in Nat
      BY <3>3, RefsSeq
    <3>5. stack[k][2] - 1 \in 1..Len(refs[stack[k][1]])
      BY <3>2, <3>3, <3>4
    <3>6. stack[k + 1][1] \in Range(refs[stack[k][1]])
      BY <3>2, <3>3, <3>5, RefsSeq
    <3>7. stack[k + 1][1] \in S
      BY <3>1
    <3> QED
      BY <3>6, <3>7
  <2> QED
    BY <2>1, <2>2
<1>4. \A s \in S : Range(refs[s]) \cap S # {}
  BY <1>3
<1> HIDE DEF S
<1> QED
  BY <1>2, <1>4 DEF Recursive

\* A structure ends when what it refers to does.
LEMMA BoundedStep ==
  ASSUME TypeOK, NEW s \in Strct, \A g \in 1..Len(refs[s]) : Bounded(refs, refs[s][g])
  PROVE  Bounded(refs, s)
<1>1. SUFFICES ASSUME NEW S \in SUBSET Strct, s \in S, \A x \in S : Range(refs[x]) \cap S # {}
               PROVE  FALSE
  BY DEF Bounded
<1>2. PICK t \in Range(refs[s]) \cap S : TRUE
  BY <1>1
<1>3. PICK g \in 1..Len(refs[s]) : refs[s][g] = t
  BY <1>2, RefsSeq DEF Range
<1>4. ~Bounded(refs, t)
  BY <1>1, <1>2 DEF Bounded
<1> QED
  BY <1>3, <1>4

\* References are recursive if those of some structure come to no end.
LEMMA BoundedAll ==
  Recursive <=> \E t \in Strct : ~Bounded(refs, t)
  BY DEF Recursive, Bounded

\* What a sort by height leaves: the structures, each once, the higher before
\* the lower.
LEMMA SortOrders ==
  ASSUME TypeOK, Sort
  PROVE  /\ order' \in Seq(Strct) /\ Range(order') = Strct /\ IsInjective(order')
         /\ Len(order') = Len(order)
         /\ \A i, j \in 1..Len(order) : i < j => Higher(order'[i], order'[j])
<1> DEFINE n == Len(order)
           R == {p \in Strct \X Strct : Higher(p[1], p[2])}
<1>1. n \in Nat /\ IsFiniteSet(Strct) /\ Cardinality(Strct) = n
  <2>1. n \in Nat /\ order \in [1..n -> Strct]
    BY StateType
  <2>2. order \in Bijection(1..n, Strct)
    BY <2>1, StateType DEF TypeOK, Bijection, Injection, Surjection
  <2> HIDE DEF n
  <2>3. IsFiniteSet(1..n) /\ Cardinality(1..n) = n
    <3>1. n \in Int /\ 1 \in Int /\ (n = 0 \/ n >= 1)
      BY <2>1
    <3> QED
      BY <2>1, <3>1, FS_Interval
  <2> QED
    BY <2>1, <2>2, <2>3, FS_Bijection DEF ExistsBijection
<1>2. \A x \in Strct : x \in Nat /\ height[x] \in Nat
  BY StructOrderAssumption DEF TypeOK
<1>3. \A x, y \in Strct : <<x, y>> \in R <=> Higher(x, y)
  OBVIOUS
<1>4. \E f \in [1..n -> Strct] : \A i, j \in DOMAIN f : i < j => Higher(f[i], f[j])
  <2> HIDE DEF R, n
  <2>1. PICK Q : Q = R
    OBVIOUS
  <2>2. StrictOrder(Strct, Q)
    BY <1>2, <1>3, <2>1 DEF Higher, StrictOrder
  <2>3. IsFiniteSet(Strct)
    BY <1>1
  <2>4. \E f \in [1..Cardinality(Strct) -> Strct] :
          \A i, j \in DOMAIN f : i < j => <<f[i], f[j]>> \in Q
    BY <2>2, <2>3, OrderExists
  <2> QED
    BY <1>1, <1>3, <2>1, <2>4
<1>5. order' \in [1..n -> Strct] /\ \A i, j \in 1..n : i < j => Higher(order'[i], order'[j])
  <2>1. order' = CHOOSE o \in [1..n -> Strct] :
                   \A i, j \in DOMAIN o : i < j => Higher(o[i], o[j])
    BY <1>1 DEF Sort
  <2> HIDE DEF n
  <2> QED
    BY <1>4, <2>1
<1>6. IsInjective(order')
  <2> HIDE DEF n
  <2>1. \A i, j \in 1..n : i # j => i < j \/ j < i
    BY <1>1
  <2>2. \A x \in Strct : ~Higher(x, x)
    BY <1>2 DEF Higher
  <2>3. \A i, j \in 1..n : i # j => order'[i] # order'[j]
    BY <1>5, <2>1, <2>2
  <2> QED
    BY <1>5, <2>3 DEF IsInjective
<1>7. order' \in Seq(Strct) /\ Len(order') = n
  <2> HIDE DEF n
  <2> QED
    BY <1>1, <1>5
<1>8. Range(order') = Strct
  <2> HIDE DEF n
  <2>1. IsFiniteSet(Strct) /\ order' \in [1..Cardinality(Strct) -> Strct]
    BY <1>1, <1>5
  <2>2. \A x \in Strct : \E i \in 1..n : order'[i] = x
    BY <1>1, <1>6, <2>1, OrderedAll
  <2> QED
    BY <1>5, <2>2 DEF Range
<1> QED
  BY <1>5, <1>6, <1>7, <1>8
------------------------------------------------------------------------------
\* The limit of aliases is a number.
LEMMA MaxAliasType == MaxAlias \in Nat
<1>1. Letters \in Nat
  BY StructOrderAssumption
<1>2. Letters * Letters \in Nat
  BY <1>1
<1> QED
  BY <1>1, <1>2 DEF MaxAlias

\* Names are resolved, nothing is explored yet.
LEMMA InitIInv == Init => IInv
<1> SUFFICES ASSUME Init PROVE IInv
  OBVIOUS
<1>1. order \in Seq(Strct) /\ Range(order) = Strct /\ IsInjective(order) /\ Len(order) \in Nat
  BY StructOrderAssumption DEF Init
<1>2. TypeOK
  <2>1. /\ at \in 1..Len(order) + 1 /\ hue \in 1..Len(order) + 1
        /\ colour \in [Strct -> 0..hue] /\ height \in [Strct -> Nat]
    BY <1>1 DEF Init
  <2>2. stack \in Seq(Strct \X Nat) /\ DOMAIN stack = {}
    BY DEF Init
  <2>3. offs \in 0..MaxAlias
    BY MaxAliasType DEF Init
  <2> QED
    BY <1>1, <2>1, <2>2, <2>3 DEF Init, TypeOK
<1>3. Linked /\ Explored /\ Rounds
  BY DEF Init, Linked, Explored, Rounds
<1>4. NoneRecursive
  BY DEF Init, NoneRecursive
<1> QED
  BY <1>2, <1>3, <1>4 DEF IInv

\* linker_aliases_create() turns to the next structure.
LEMMA StartAliasIInv ==
  ASSUME IInv, StartAlias
  PROVE  IInv'
<1>1. /\ phase = "alias" /\ at <= Len(order) /\ stack' = <<<<order[at], 1>>>>
      /\ UNCHANGED <<refs, order, phase, at, offs, aq, colour, hue, height>>
  BY DEF StartAlias, Orig
<1>2. order[at] \in Strct /\ Len(refs[order[at]]) \in Nat
  BY <1>1, StateType, RefsSeq DEF IInv
<1>3. /\ stack' \in Seq(Strct \X Nat) /\ Len(stack') = 1 /\ DOMAIN stack' = {1}
      /\ stack'[1] = <<order[at], 1>>
  BY <1>1, <1>2
<1>4. TypeOK'
  <2>1. \A i \in DOMAIN stack' : stack'[i][2] \in 1..Len(refs[stack'[i][1]]) + 1
    BY <1>2, <1>3
  <2> QED
    BY <1>1, <1>3, <2>1 DEF IInv, TypeOK
<1>5. Linked' /\ Explored' /\ Rounds'
  BY <1>1, <1>3 DEF IInv, Linked, Explored, Rounds
<1>6. NoneRecursive'
  BY <1>1 DEF IInv, NoneRecursive
<1> QED
  BY <1>4, <1>5, <1>6 DEF IInv

\* The path of the field that is looked at: of fields of structures.
LEMMA PathType ==
  ASSUME TypeOK, Linked, HasField
  PROVE  Path \in Seq(1..MaxRefs)
<1> DEFINE n == Len(stack)
<1>1. n \in Nat \ {0} /\ DOMAIN stack = 1..n /\ Top = stack[n] /\ MaxRefs \in Nat
  BY StateType, Frames, StructOrderAssumption DEF HasField
<1>2. ASSUME NEW k \in 1..n
      PROVE  (IF k < n THEN stack[k][2] - 1 ELSE stack[k][2]) \in 1..MaxRefs
  <2>1. /\ stack[k][1] \in Strct /\ stack[k][2] \in Nat \ {0}
        /\ stack[k][2] <= Len(refs[stack[k][1]]) + 1
    BY <1>1, StateType
  <2>2. Len(refs[stack[k][1]]) \in Nat /\ Len(refs[stack[k][1]]) <= MaxRefs
    BY <2>1, RefsSeq
  <2>3. CASE k < n
    <3>1. stack[k][2] > 1
      BY <1>1, <2>3 DEF Linked
    <3> QED
      BY <1>1, <2>1, <2>2, <2>3, <3>1
  <2>4. CASE ~(k < n)
    <3>1. k = n
      <4> HIDE DEF n
      <4> QED
        BY <1>1, <2>4
    <3>2. stack[k][2] <= Len(refs[stack[k][1]])
      BY <1>1, <3>1 DEF HasField
    <3> QED
      BY <1>1, <2>1, <2>2, <2>4, <3>2
  <2> QED
    BY <2>3, <2>4
<1>3. Path = [k \in 1..n |-> IF k < n THEN stack[k][2] - 1 ELSE stack[k][2]]
  BY <1>1 DEF Path
<1> HIDE DEF n
<1>4. Path \in [1..n -> 1..MaxRefs]
  BY <1>2, <1>3
<1> QED
  BY <1>1, <1>4

\* The structure that a field refers to.
LEMMA TargetType ==
  ASSUME TypeOK, HasField, NEW n, n = Len(stack)
  PROVE  /\ n \in Nat \ {0} /\ n \in DOMAIN stack /\ Top = stack[n]
         /\ stack[n][1] \in Strct /\ stack[n][2] \in 1..Len(refs[stack[n][1]])
         /\ Len(refs[stack[n][1]]) \in Nat
         /\ Target = refs[stack[n][1]][stack[n][2]]
         /\ Target \in Strct /\ Target \in Range(refs[stack[n][1]])
<1>9. stack # <<>> /\ Top[2] <= Len(refs[Top[1]])
  BY DEF HasField
<1>1. n \in Nat \ {0} /\ n \in DOMAIN stack /\ Top = stack[n]
  <2>1. n \in Nat \ {0} /\ Top = stack[n]
    BY <1>9, Frames
  <2>2. DOMAIN stack = 1..n
    BY StateType
  <2> QED
    BY <2>1, <2>2
<1>2. stack[n][1] \in Strct /\ stack[n][2] \in Nat \ {0} /\ stack[n][2] <= Len(refs[stack[n][1]])
  BY <1>1, <1>9, StateType
<1>3. stack[n][2] \in 1..Len(refs[stack[n][1]]) /\ Len(refs[stack[n][1]]) \in Nat
  BY <1>2, RefsSeq
<1>4. Target = refs[stack[n][1]][stack[n][2]]
  BY <1>1 DEF Target
<1>5. Target \in Strct /\ Target \in Range(refs[stack[n][1]])
  BY <1>2, <1>3, <1>4, RefsSeq
<1> QED
  BY <1>1, <1>2, <1>3, <1>4, <1>5

\* A call leaves frames that are linked, in either recursion.
LEMMA CallLinked ==
  ASSUME TypeOK, Linked, HasField, phase \in {"alias", "height"},
         stack' = Call(Target), UNCHANGED <<refs, order, phase, at>>
  PROVE  /\ stack' \in Seq(Strct \X Nat)
         /\ \A i \in DOMAIN stack' : stack'[i][2] \in 1..Len(refs[stack'[i][1]]) + 1
         /\ Linked'
<1> DEFINE n == Len(stack)
<1>1. /\ n \in Nat \ {0} /\ n \in DOMAIN stack /\ DOMAIN stack = 1..n /\ stack # <<>>
      /\ stack[n][1] \in Strct /\ stack[n][2] \in 1..Len(refs[stack[n][1]])
      /\ Len(refs[stack[n][1]]) \in Nat
      /\ Target = refs[stack[n][1]][stack[n][2]] /\ Target \in Strct
  BY TargetType, StateType DEF HasField
<1>2. /\ stack' \in Seq(Strct \X Nat) /\ Len(stack') = n + 1
      /\ \A i \in 1..n - 1 : stack'[i] = stack[i]
      /\ stack'[n] = <<stack[n][1], stack[n][2] + 1>>
      /\ stack'[n + 1] = <<Target, 1>>
  BY <1>1, Called
<1> HIDE DEF n
<1>8. n \in Nat \ {0} /\ \A k \in 1..n - 1 : k \in DOMAIN stack /\ k < n
  BY <1>1
<1>3. DOMAIN stack' = 1..n + 1
  BY <1>2
<1>4. ASSUME NEW i \in DOMAIN stack'
      PROVE  stack'[i][2] \in 1..Len(refs[stack'[i][1]]) + 1
  <2>1. i \in 1..n - 1 \/ i = n \/ i = n + 1
    BY <1>1, <1>3
  <2>2. CASE i \in 1..n - 1
    <3>1. i \in DOMAIN stack /\ stack'[i] = stack[i]
      BY <1>2, <1>8, <2>2
    <3> QED
      BY <3>1 DEF TypeOK
  <2>3. CASE i = n
    <3>1. stack'[i][1] = stack[n][1] /\ stack'[i][2] = stack[n][2] + 1
      BY <1>2, <2>3
    <3>2. stack[n][2] + 1 \in 1..Len(refs[stack[n][1]]) + 1
      BY <1>1
    <3> QED
      BY <3>1, <3>2
  <2>4. CASE i = n + 1
    <3>1. Len(refs[Target]) \in Nat
      BY <1>1, RefsSeq
    <3> QED
      BY <1>2, <2>4, <3>1
  <2> QED
    BY <2>1, <2>2, <2>3, <2>4
<1>5. ASSUME NEW i \in DOMAIN stack', i < n + 1
      PROVE  stack'[i][2] > 1 /\ refs[stack'[i][1]][stack'[i][2] - 1] = stack'[i + 1][1]
  <2>1. CASE i = n
    <3>1. /\ stack'[i][1] = stack[n][1] /\ stack'[i][2] = stack[n][2] + 1
          /\ stack'[i + 1][1] = Target
      BY <1>2, <2>1
    <3>2. PICK f \in Nat \ {0} : f = stack[n][2]
      BY <1>1
    <3>3. f + 1 > 1 /\ (f + 1) - 1 = f
      OBVIOUS
    <3>4. stack'[i][2] = f + 1
      BY <3>1, <3>2
    <3>5. stack'[i][2] > 1 /\ stack'[i][2] - 1 = f
      BY <3>3, <3>4
    <3> QED
      BY <1>1, <3>1, <3>2, <3>5
  <2>2. CASE i # n
    <3>1. i \in DOMAIN stack /\ i < n /\ i \in 1..n - 1
      BY <1>1, <1>3, <1>5, <2>2
    <3>2. stack[i][2] > 1 /\ refs[stack[i][1]][stack[i][2] - 1] = stack[i + 1][1]
      BY <3>1 DEF Linked, n
    <3>3. i + 1 = n \/ i + 1 \in 1..n - 1
      BY <1>1, <3>1
    <3>4. stack'[i + 1][1] = stack[i + 1][1]
      BY <1>2, <3>3
    <3> QED
      BY <1>2, <3>1, <3>2, <3>4
  <2> QED
    BY <2>1, <2>2
<1>6. stack'[1][1] = stack[1][1]
  <2>1. n = 1 \/ 1 \in 1..n - 1
    BY <1>1
  <2> QED
    BY <1>2, <2>1
<1>7. Linked'
  <2>1. at <= Len(order) /\ stack[1][1] = order[at]
    BY <1>1 DEF Linked
  <2> QED
    BY <1>2, <1>5, <1>6, <2>1 DEF Linked
<1> QED
  BY <1>2, <1>4, <1>7

\* One field for an alias: recursion to the first structure is found here.
LEMMA AliasIInv ==
  ASSUME IInv, Alias
  PROVE  IInv'
<1> DEFINE n == Len(stack)
<1>1. /\ phase = "alias" /\ HasField
      /\ UNCHANGED <<refs, order, at, colour, hue, height>>
      /\ n \in Nat \ {0} /\ n \in DOMAIN stack /\ DOMAIN stack = 1..n /\ stack # <<>>
      /\ stack[n][1] \in Strct /\ stack[n][2] \in 1..Len(refs[stack[n][1]])
      /\ Target = refs[stack[n][1]][stack[n][2]] /\ Target \in Strct
      /\ Target \in Range(refs[stack[n][1]])
  BY TargetType, StateType DEF IInv, Alias, HasField
<1>2. offs \in Nat /\ offs <= MaxAlias /\ MaxAlias \in Nat
  BY MaxAliasType DEF IInv, TypeOK
<1>3. CASE Target = Orig \/ offs >= MaxAlias
  <2>1. phase' = "fail" /\ UNCHANGED <<stack, offs, aq>>
    BY <1>3 DEF Alias
  <2>2. TypeOK' /\ Linked' /\ Explored' /\ Rounds'
    BY <1>1, <2>1 DEF IInv, TypeOK, Linked, Explored, Rounds
  <2>3. Recursive \/ offs = MaxAlias
    <3>1. CASE Target = Orig
      <4>1. stack[1][1] = Target /\ 1 \in DOMAIN stack /\ 1 <= n
        BY <1>1, <3>1 DEF IInv, Linked, Orig
      <4> QED
        BY <1>1, <4>1, LoopIsRecursive DEF IInv
    <3>2. CASE offs >= MaxAlias
      BY <1>2, <3>2
    <3> QED
      BY <1>3, <3>1, <3>2
  <2>4. NoneRecursive'
    BY <1>1, <2>1, <2>3 DEF NoneRecursive, Recursive
  <2> QED
    BY <2>2, <2>4 DEF IInv
<1>4. CASE ~(Target = Orig \/ offs >= MaxAlias)
  <2>1. /\ stack' = Call(Target) /\ offs' = offs + 1 /\ aq' = aq \cup {NewAlias}
        /\ UNCHANGED phase
    BY <1>4 DEF Alias
  <2>2. /\ stack' \in Seq(Strct \X Nat)
        /\ \A i \in DOMAIN stack' : stack'[i][2] \in 1..Len(refs[stack'[i][1]]) + 1
        /\ Linked'
    BY <1>1, <2>1, CallLinked DEF IInv
  <2>3. TypeOK'
    <3>1. offs' \in 0..MaxAlias
      BY <1>2, <1>4, <2>1
    <3>2. NewAlias.of \in Strct /\ NewAlias.path \in Seq(1..MaxRefs)
      BY <1>1, PathType, StateType DEF IInv, Linked, NewAlias, Orig
    <3>3. \A a \in aq' : a.of \in Strct /\ a.path \in Seq(1..MaxRefs)
      BY <2>1, <3>2 DEF IInv, TypeOK
    <3> QED
      BY <1>1, <2>1, <2>2, <3>1, <3>3 DEF IInv, TypeOK
  <2>4. /\ Len(stack') = n + 1
        /\ \A i \in 1..n - 1 : stack'[i] = stack[i]
        /\ stack'[n] = <<stack[n][1], stack[n][2] + 1>>
        /\ stack'[n + 1] = <<Target, 1>>
    BY <1>1, <2>1, Called DEF IInv
  <2>5. Explored'
    <3> HIDE DEF n
    <3>1. ASSUME NEW i \in DOMAIN stack', NEW g \in 1..stack'[i][2] - 1,
                 i < n + 1 => g < stack'[i][2] - 1
          PROVE  Bounded(refs, refs[stack'[i][1]][g])
      <4>1. DOMAIN stack' = 1..n + 1
        BY <1>1, <2>2, <2>4
      <4>2. i \in 1..n - 1 \/ i = n \/ i = n + 1
        BY <1>1, <4>1
      <4>3. CASE i \in 1..n - 1
        <5>1. i \in DOMAIN stack /\ i < n /\ stack'[i] = stack[i]
          BY <1>1, <2>4, <4>3
        <5> QED
          BY <1>1, <3>1, <5>1 DEF IInv, Explored, n
      <4>4. CASE i = n
        <5>1. stack'[i][1] = stack[n][1] /\ stack'[i][2] = stack[n][2] + 1 /\ i < n + 1
          BY <1>1, <2>4, <4>4
        <5>2. g \in 1..stack[n][2] - 1
          BY <1>1, <3>1, <5>1
        <5>3. n = Len(stack) /\ ~(n < n)
          BY <1>1 DEF n
        <5>4. Bounded(refs, refs[stack[n][1]][g])
          BY <1>1, <5>2, <5>3 DEF IInv, Explored
        <5> QED
          BY <5>1, <5>4
      <4>5. CASE i = n + 1
        <5>1. stack'[i][2] - 1 = 0
          BY <2>4, <4>5
        <5> QED
          BY <5>1
      <4> QED
        BY <4>2, <4>3, <4>4, <4>5
    <3>2. \A k \in 1..at - 1 : Bounded(refs, order[k])
      BY <1>1 DEF IInv, Explored
    <3> QED
      BY <1>1, <2>4, <3>1, <3>2 DEF Explored
  <2>6. Rounds' /\ NoneRecursive'
    BY <1>1, <2>1 DEF IInv, Rounds, NoneRecursive
  <2> QED
    BY <2>2, <2>3, <2>5, <2>6 DEF IInv
<1> QED
  BY <1>3, <1>4

\* Every structure was explored.
LEMMA EndAliasIInv ==
  ASSUME IInv, EndAlias
  PROVE  IInv'
<1>1. /\ phase = "alias" /\ at > Len(order) /\ phase' = "height" /\ at' = 1
      /\ UNCHANGED <<refs, order, stack, offs, aq, colour, hue, height>>
  BY DEF EndAlias
<1>2. at \in Nat /\ Len(order) \in Nat /\ ~(at <= Len(order))
  BY <1>1, StateType DEF IInv
<1>3. stack = <<>>
  BY <1>2 DEF IInv, Linked
<1>4. TypeOK'
  BY <1>1, <1>2 DEF IInv, TypeOK
<1>5. Linked' /\ Explored' /\ Rounds'
  BY <1>1, <1>3 DEF IInv, Linked, Explored, Rounds
<1>6. ~Recursive
  <2>1. ASSUME NEW t \in Strct PROVE Bounded(refs, t)
    <3>1. PICK k \in 1..Len(order) : order[k] = t
      BY StateType DEF IInv
    <3>2. k \in 1..at - 1
      BY <1>1, <1>2
    <3> QED
      BY <1>1, <3>1, <3>2 DEF IInv, Explored
  <2> QED
    BY <2>1, BoundedAll
<1>7. NoneRecursive'
  BY <1>1, <1>6 DEF NoneRecursive, Recursive
<1> QED
  BY <1>4, <1>5, <1>7 DEF IInv

\* All fields of the top frame were explored, and so its structure was.
LEMMA ReturnIInv ==
  ASSUME IInv, Return
  PROVE  IInv'
<1> DEFINE n == Len(stack)
<1>1. /\ phase \in {"alias", "height"} /\ stack # <<>> /\ ~HasField
      /\ stack' = Front(stack)
      /\ at' = IF n = 1 THEN at + 1 ELSE at
      /\ hue' = IF n = 1 /\ phase = "height" THEN hue + 1 ELSE hue
      /\ UNCHANGED <<refs, order, phase, offs, aq, colour, height>>
  BY DEF Return
<1>2. /\ n \in Nat \ {0} /\ n \in DOMAIN stack /\ DOMAIN stack = 1..n /\ Top = stack[n]
      /\ stack' \in Seq(Strct \X Nat) /\ Len(stack') = n - 1
      /\ \A i \in 1..n - 1 : stack'[i] = stack[i]
  <2>1. n \in Nat \ {0} /\ n \in DOMAIN stack /\ DOMAIN stack = 1..n /\ Top = stack[n]
    <3>1. TypeOK /\ stack # <<>>
      BY <1>1 DEF IInv
    <3>2. n \in Nat \ {0} /\ Top = stack[n]
      BY <3>1, Frames
    <3>3. DOMAIN stack = 1..n
      BY <3>1, StateType
    <3> QED
      BY <3>2, <3>3
  <2>2. /\ Front(stack) \in Seq(Strct \X Nat) /\ Len(Front(stack)) = n - 1
        /\ \A i \in 1..n - 1 : Front(stack)[i] = stack[i]
    BY <1>1, Frames DEF IInv
  <2> HIDE DEF n
  <2> QED
    BY <1>1, <2>1, <2>2
<1>3. n \in Nat \ {0} /\ DOMAIN stack' = 1..n - 1
      /\ \A i \in 1..n - 1 : i \in DOMAIN stack /\ i < n
  BY <1>2
<1>4. /\ stack[n][1] \in Strct /\ Len(refs[stack[n][1]]) \in Nat
      /\ stack[n][2] = Len(refs[stack[n][1]]) + 1
  <2>1. /\ stack[n][1] \in Strct /\ stack[n][2] \in Nat
        /\ stack[n][2] <= Len(refs[stack[n][1]]) + 1
    BY <1>2, StateType DEF IInv
  <2>2. ~(stack[n][2] <= Len(refs[stack[n][1]]))
    BY <1>1, <1>2 DEF HasField
  <2>3. Len(refs[stack[n][1]]) \in Nat
    BY <2>1, RefsSeq DEF IInv
  <2> QED
    BY <2>1, <2>2, <2>3
<1>5. /\ at \in Nat \ {0} /\ Len(order) \in Nat /\ at <= Len(order)
      /\ hue \in Nat \ {0} /\ hue <= at /\ stack[1][1] = order[at]
  BY <1>1, StateType DEF IInv, Linked, Rounds
<1> HIDE DEF n
<1>6. TypeOK'
  <2>1. \A i \in DOMAIN stack' : stack'[i][2] \in 1..Len(refs[stack'[i][1]]) + 1
    BY <1>2, <1>3 DEF IInv, TypeOK
  <2>2. at' \in 1..Len(order) + 1 /\ hue' \in 1..Len(order) + 1 /\ hue <= hue'
    BY <1>1, <1>5
  <2>3. colour \in [Strct -> 0..hue']
    <3>1. \A s \in Strct : colour[s] \in 0..hue /\ colour[s] \in 0..hue'
      BY <1>5, <2>2 DEF IInv, TypeOK
    <3> QED
      BY <3>1 DEF IInv, TypeOK
  <2> QED
    BY <1>1, <1>2, <2>1, <2>2, <2>3 DEF IInv, TypeOK
<1>7. Linked'
  <2>1. ASSUME NEW i \in DOMAIN stack', i < n - 1
        PROVE  stack'[i][2] > 1 /\ refs[stack'[i][1]][stack'[i][2] - 1] = stack'[i + 1][1]
    <3>1. i \in 1..n - 1 /\ i + 1 \in 1..n - 1
      BY <1>3, <2>1
    <3>2. stack[i][2] > 1 /\ refs[stack[i][1]][stack[i][2] - 1] = stack[i + 1][1]
      BY <1>3, <3>1 DEF IInv, Linked, n
    <3> QED
      BY <1>2, <3>1, <3>2
  <2>2. stack' # <<>> => at' = at /\ stack'[1] = stack[1]
    <3>1. stack' # <<>> => 1 \in DOMAIN stack'
      BY <1>2, <1>3, EmptySeq
    <3>2. stack' # <<>> => n # 1 /\ 1 \in 1..n - 1
      BY <1>3, <3>1
    <3> QED
      BY <1>1, <1>2, <3>2
  <2> QED
    BY <1>1, <1>2, <1>5, <2>1, <2>2 DEF Linked
<1>8. Explored'
  <2>1. SUFFICES ASSUME phase = "alias" PROVE Explored'
    BY <1>1 DEF Explored
  <2>2. Bounded(refs, stack[n][1])
    <3>1. ASSUME NEW g \in 1..Len(refs[stack[n][1]])
          PROVE  Bounded(refs, refs[stack[n][1]][g])
      <4>1. g \in 1..stack[n][2] - 1
        BY <1>4
      <4>2. ~(n < Len(stack)) /\ n \in DOMAIN stack
        BY <1>2 DEF n
      <4> QED
        BY <2>1, <4>1, <4>2 DEF IInv, Explored
    <3> QED
      BY <1>4, <3>1, BoundedStep DEF IInv
  <2>3. ASSUME NEW k \in 1..at' - 1 PROVE Bounded(refs, order[k])
    <3>1. CASE k \in 1..at - 1
      BY <2>1, <3>1 DEF IInv, Explored
    <3>2. CASE k \notin 1..at - 1
      <4>1. n = 1 /\ k = at
        BY <1>1, <1>5, <2>3, <3>2
      <4> QED
        BY <1>5, <2>2, <4>1
    <3> QED
      BY <3>1, <3>2
  <2>4. ASSUME NEW i \in DOMAIN stack', NEW g \in 1..stack'[i][2] - 1,
               i < n - 1 => g < stack'[i][2] - 1
        PROVE  Bounded(refs, refs[stack'[i][1]][g])
    <3>1. i \in 1..n - 1 /\ i \in DOMAIN stack /\ i < Len(stack) /\ stack'[i] = stack[i]
      BY <1>2, <1>3 DEF n
    <3>2. CASE g < stack[i][2] - 1
      BY <2>1, <2>4, <3>1, <3>2 DEF IInv, Explored
    <3>3. CASE ~(g < stack[i][2] - 1)
      <4>1. i + 1 = n
        BY <1>3, <2>4, <3>1, <3>3
      <4>2. refs[stack[i][1]][stack[i][2] - 1] = stack[n][1]
        BY <3>1, <4>1 DEF IInv, Linked
      <4>3. stack[i][2] \in Nat
        BY <3>1, StateType DEF IInv
      <4>4. g = stack[i][2] - 1
        BY <2>4, <3>1, <3>3, <4>3
      <4> QED
        BY <2>2, <3>1, <4>2, <4>4
    <3> QED
      BY <3>2, <3>3
  <2> QED
    BY <1>1, <1>2, <2>3, <2>4 DEF Explored
<1>9. Rounds' /\ NoneRecursive'
  <2>1. hue' <= at'
    BY <1>1, <1>5
  <2>2. phase \in {"alias", "fail"} => hue' = 1
    BY <1>1 DEF IInv, Rounds
  <2> QED
    BY <1>1, <2>1, <2>2 DEF IInv, Rounds, NoneRecursive, Recursive
<1> QED
  BY <1>6, <1>7, <1>8, <1>9 DEF IInv

\* A structure without a colour starts a round.
LEMMA StartHeightIInv ==
  ASSUME IInv, StartHeight
  PROVE  IInv'
<1>1. /\ phase = "height" /\ stack = <<>> /\ at <= Len(order)
      /\ UNCHANGED <<refs, order, phase, offs, aq, hue, height>>
      /\ at \in Nat \ {0} /\ Len(order) \in Nat /\ order[at] \in Strct
      /\ hue \in Nat \ {0} /\ hue <= at
  <2>1. /\ phase = "height" /\ stack = <<>> /\ at <= Len(order)
        /\ UNCHANGED <<refs, order, phase, offs, aq, hue, height>>
    BY DEF StartHeight
  <2> QED
    BY <2>1, StateType DEF IInv, Rounds
<1>2. Explored' /\ NoneRecursive'
  BY <1>1 DEF IInv, Explored, NoneRecursive, Recursive
<1>3. CASE colour[Orig] # 0
  <2>1. at' = at + 1 /\ UNCHANGED <<stack, colour>>
    BY <1>3 DEF StartHeight
  <2>2. at' \in 1..Len(order) + 1 /\ hue <= at'
    BY <1>1, <2>1
  <2>3. TypeOK'
    BY <1>1, <2>1, <2>2 DEF IInv, TypeOK
  <2>4. Linked' /\ Rounds'
    BY <1>1, <2>1, <2>2 DEF IInv, Linked, Rounds
  <2> QED
    BY <1>2, <2>3, <2>4 DEF IInv
<1>4. CASE colour[Orig] = 0
  <2>1. /\ stack' = <<<<order[at], 1>>>> /\ at' = at
        /\ colour' = IF refs[Orig] = <<>> THEN colour ELSE [colour EXCEPT ![Orig] = hue]
    BY <1>4 DEF StartHeight, Orig
  <2>2. /\ stack' \in Seq(Strct \X Nat) /\ Len(stack') = 1 /\ DOMAIN stack' = {1}
        /\ stack'[1] = <<order[at], 1>> /\ Len(refs[order[at]]) \in Nat
    BY <1>1, <2>1, RefsSeq DEF IInv
  <2>3. colour' \in [Strct -> 0..hue]
    <3>1. colour \in [Strct -> 0..hue] /\ hue \in 0..hue
      BY <1>1 DEF IInv, TypeOK
    <3> QED
      BY <2>1, <3>1
  <2>4. TypeOK'
    <3>1. \A i \in DOMAIN stack' : stack'[i][2] \in 1..Len(refs[stack'[i][1]]) + 1
      BY <2>2
    <3> QED
      BY <1>1, <2>1, <2>2, <2>3, <3>1 DEF IInv, TypeOK
  <2>5. Linked' /\ Rounds'
    BY <1>1, <2>1, <2>2 DEF IInv, Linked, Rounds
  <2> QED
    BY <1>2, <2>4, <2>5 DEF IInv
<1> QED
  BY <1>3, <1>4

\* annotate() turns to the next field.
LEMMA AnnotateIInv ==
  ASSUME IInv, Annotate
  PROVE  IInv'
<1> DEFINE n == Len(stack)
<1>1. /\ phase = "height" /\ HasField
      /\ UNCHANGED <<refs, order, phase, at, offs, aq, hue>>
      /\ n \in Nat \ {0} /\ n \in DOMAIN stack /\ DOMAIN stack = 1..n /\ stack # <<>>
      /\ stack[n][1] \in Strct /\ stack[n][2] \in 1..Len(refs[stack[n][1]])
      /\ Len(refs[stack[n][1]]) \in Nat /\ Target \in Strct
  BY TargetType, StateType DEF IInv, Annotate, HasField
<1>2. Explored' /\ Rounds' /\ NoneRecursive'
  BY <1>1 DEF IInv, Explored, Rounds, NoneRecursive, Recursive
<1>3. CASE colour[Target] = hue
  <2>1. stack' = NextField /\ UNCHANGED <<colour, height>>
    BY <1>3 DEF Annotate
  <2>2. /\ stack' \in Seq(Strct \X Nat) /\ Len(stack') = n
        /\ \A i \in 1..n - 1 : stack'[i] = stack[i]
        /\ stack'[n] = <<stack[n][1], stack[n][2] + 1>>
    BY <1>1, <2>1, Frames DEF IInv
  <2> HIDE DEF n
  <2>3. n \in Nat \ {0} /\ DOMAIN stack' = 1..n /\ \A i \in 1..n - 1 : i \in DOMAIN stack /\ i < n
    BY <1>1, <2>2
  <2>4. TypeOK'
    <3>1. stack'[n][1] = stack[n][1] /\ stack'[n][2] = stack[n][2] + 1
      BY <2>2
    <3>2. stack[n][2] + 1 \in 1..Len(refs[stack[n][1]]) + 1
      BY <1>1
    <3>3. \A i \in 1..n - 1 : stack'[i][2] \in 1..Len(refs[stack'[i][1]]) + 1
      BY <2>2, <2>3 DEF IInv, TypeOK
    <3>4. \A i \in DOMAIN stack' : i \in 1..n - 1 \/ i = n
      BY <2>3
    <3>5. \A i \in DOMAIN stack' : stack'[i][2] \in 1..Len(refs[stack'[i][1]]) + 1
      BY <3>1, <3>2, <3>3, <3>4
    <3> QED
      BY <1>1, <2>1, <2>2, <3>5 DEF IInv, TypeOK
  <2>5. Linked'
    <3>1. \A i \in DOMAIN stack' : stack'[i][1] = stack[i][1] /\ (i < n => stack'[i] = stack[i])
      <4>1. \A i \in DOMAIN stack' : (i \in 1..n - 1 /\ i < n) \/ (i = n /\ ~(i < n))
        BY <2>3
      <4> QED
        BY <2>2, <4>1
    <3>2. \A i \in DOMAIN stack' : i < n => i \in DOMAIN stack /\ i + 1 \in DOMAIN stack'
      BY <2>3
    <3>3. 1 \in DOMAIN stack'
      BY <2>3
    <3>4. n = Len(stack)
      BY DEF n
    <3>5. \A i \in DOMAIN stack' : i < Len(stack') =>
            stack'[i][2] > 1 /\ refs[stack'[i][1]][stack'[i][2] - 1] = stack'[i + 1][1]
      BY <2>2, <3>1, <3>2, <3>4 DEF IInv, Linked
    <3>6. at <= Len(order) /\ stack'[1][1] = order[at]
      BY <1>1, <3>1, <3>3 DEF IInv, Linked
    <3> QED
      BY <1>1, <3>5, <3>6 DEF Linked
  <2> QED
    BY <1>2, <2>4, <2>5 DEF IInv
<1>4. CASE colour[Target] # hue
  <2>1. /\ stack' = Call(Target)
        /\ colour' = [colour EXCEPT ![Target] = hue]
        /\ height' = [height EXCEPT ![Target] = @ + n]
    BY <1>4 DEF Annotate
  <2>2. /\ stack' \in Seq(Strct \X Nat)
        /\ \A i \in DOMAIN stack' : stack'[i][2] \in 1..Len(refs[stack'[i][1]]) + 1
        /\ Linked'
    BY <1>1, <2>1, CallLinked DEF IInv
  <2>3. colour' \in [Strct -> 0..hue]
    <3>1. colour \in [Strct -> 0..hue] /\ hue \in 0..hue
      BY StateType DEF IInv, TypeOK
    <3> QED
      BY <2>1, <3>1
  <2>4. height' \in [Strct -> Nat]
    <3>1. height \in [Strct -> Nat]
      BY DEF IInv, TypeOK
    <3>2. n \in Nat /\ Target \in Strct
      BY <1>1
    <3>3. height[Target] + n \in Nat
      BY <3>1, <3>2
    <3> QED
      BY <2>1, <3>1, <3>3
  <2>5. TypeOK'
    BY <1>1, <2>2, <2>3, <2>4 DEF IInv, TypeOK
  <2> QED
    BY <1>2, <2>2, <2>5 DEF IInv
<1> QED
  BY <1>3, <1>4

\* All structures have their heights.
LEMMA EndHeightIInv ==
  ASSUME IInv, EndHeight
  PROVE  IInv'
<1>1. /\ phase = "height" /\ at > Len(order) /\ phase' = "sort"
      /\ UNCHANGED <<refs, order, at, stack, offs, aq, colour, hue, height>>
  BY DEF EndHeight
<1>2. stack = <<>>
  <2>1. ~(at <= Len(order))
    BY <1>1, StateType DEF IInv
  <2> QED
    BY <2>1 DEF IInv, Linked
<1>3. TypeOK'
  BY <1>1 DEF IInv, TypeOK
<1>4. Linked' /\ Explored' /\ Rounds' /\ NoneRecursive'
  BY <1>1, <1>2 DEF IInv, Linked, Explored, Rounds, NoneRecursive, Recursive
<1> QED
  BY <1>3, <1>4 DEF IInv

\* The sort by height keeps every structure, once.
LEMMA SortIInv ==
  ASSUME IInv, Sort
  PROVE  IInv'
<1>1. /\ phase = "sort" /\ phase' = "done"
      /\ UNCHANGED <<refs, at, stack, offs, aq, colour, hue, height>>
  BY DEF Sort
<1>2. /\ order' \in Seq(Strct) /\ Range(order') = Strct /\ IsInjective(order')
      /\ Len(order') = Len(order)
  BY SortOrders DEF IInv
<1>3. stack = <<>>
  BY <1>1 DEF IInv, Linked
<1>4. TypeOK'
  BY <1>1, <1>2 DEF IInv, TypeOK
<1>5. Linked' /\ Explored' /\ Rounds' /\ NoneRecursive'
  BY <1>1, <1>3 DEF IInv, Linked, Explored, Rounds, NoneRecursive, Recursive
<1> QED
  BY <1>4, <1>5 DEF IInv

\* Each step of the linker keeps the invariant.
LEMMA StepIInv == IInv /\ [Next]_vars => IInv'
<1> SUFFICES ASSUME IInv, [Next]_vars PROVE IInv'
  OBVIOUS
<1>1. CASE UNCHANGED vars
  <2>1. UNCHANGED <<refs, order, phase, at, stack, offs, aq, colour, hue, height>>
    BY <1>1 DEF vars
  <2>2. TypeOK' /\ Linked' /\ Explored' /\ Rounds' /\ NoneRecursive'
    BY <2>1 DEF IInv, TypeOK, Linked, Explored, Rounds, NoneRecursive, Recursive
  <2> QED
    BY <2>2 DEF IInv
<1> QED
  BY <1>1, StartAliasIInv, AliasIInv, EndAliasIInv, ReturnIInv,
     StartHeightIInv, AnnotateIInv, EndHeightIInv, SortIInv DEF Next

\* The invariant of both recursions.
THEOREM Invariance == Spec => []IInv
  BY InitIInv, StepIInv, PTL DEF Spec

\* Stacks, colours, aliases and the list have their types; the list is always
\* of all structures.
THEOREM TypeCorrect == Spec => []TypeOK
<1>1. IInv => TypeOK
  BY DEF IInv
<1> QED
  BY <1>1, Invariance, PTL

\* linker_aliases_create() lets no recursive structure through, though it
\* compares only with the structure it started from, and refuses nothing else
\* while there are aliases left.
THEOREM RecursionFound == Spec => []NoneRecursive
<1>1. IInv => NoneRecursive
  BY DEF IInv
<1> QED
  BY <1>1, Invariance, PTL
------------------------------------------------------------------------------
(* Heights, where no structure is referred to twice. *)

Tree == \A t \in Strct : ~Shared(t)

\* The round has not come to field g of p yet, whose frame is on the stack.
Waiting(p, g) == \E i \in DOMAIN stack : stack[i][1] = p /\ stack[i][2] <= g

\* What a field refers to is higher than its structure once a round has passed
\* both; while it waits, p has been raised by its depth in the stack and what it
\* refers to has not.
Above(p, g) ==
  /\ \A i \in DOMAIN stack :
       stack[i][1] = p /\ stack[i][2] <= g => height[refs[p][g]] + i > height[p]
  /\ ~Waiting(p, g) =>
       /\ height[refs[p][g]] >= height[p]
       /\ colour[p] # 0 => height[refs[p][g]] > height[p]

\* A structure has the round's colour as the first, or from the field that
\* refers to it.
Coloured(p, g) ==
  colour[refs[p][g]] = hue =>
    \/ stack # <<>> /\ stack[1][1] = refs[p][g]
    \/ colour[p] = hue /\ ~Waiting(p, g)

Heights ==
  phase \in {"height", "sort"} /\ Tree =>
    \A p \in Strct : \A g \in DOMAIN refs[p] :
      Above(p, g) /\ (phase = "height" => Coloured(p, g))

Colours ==
  /\ phase = "alias" => \A s \in Strct : colour[s] = 0 /\ height[s] = 0
  /\ phase = "height" =>
       /\ stack = <<>> => \A s \in Strct : colour[s] < hue
       /\ \A i \in DOMAIN stack : colour[stack[i][1]] = hue \/ refs[stack[i][1]] = <<>>
       /\ \A k \in 1..at - 1 : colour[order[k]] # 0 \/ refs[order[k]] = <<>>
  /\ phase = "sort" => \A s \in Strct : colour[s] # 0 \/ refs[s] = <<>>

HInv == Colours /\ Heights /\ TreeOrdered

\* In a tree, a structure is referred to by one field.
LEMMA OneParent ==
  ASSUME TypeOK, Tree, NEW p \in Strct, NEW q \in Strct,
         NEW g \in DOMAIN refs[p], NEW h \in DOMAIN refs[q], refs[p][g] = refs[q][h]
  PROVE  p = q /\ g = h
<1>1. /\ refs[p][g] \in Strct /\ refs[p][g] \in Embedded(p)
      /\ refs[q][h] \in Embedded(q)
  BY RefsSeq DEF Embedded
<1>2. ~Shared(refs[p][g])
  BY <1>1 DEF Tree
<1> QED
  BY <1>1, <1>2 DEF Shared

\* Without recursion, each structure of the stack is there once, and what the
\* top frame refers to is not.
LEMMA StackOnce ==
  ASSUME TypeOK, Linked, ~Recursive
  PROVE  /\ \A i, j \in DOMAIN stack : stack[i][1] = stack[j][1] => i = j
         /\ HasField => \A i \in DOMAIN stack : stack[i][1] # Target
<1>1. /\ Len(stack) \in Nat /\ DOMAIN stack = 1..Len(stack)
  BY StateType
<1>2. ASSUME NEW i \in DOMAIN stack, NEW j \in DOMAIN stack, i < j
      PROVE  stack[i][1] # stack[j][1]
  <2>1. j - 1 \in DOMAIN stack /\ i <= j - 1 /\ j - 1 < Len(stack) /\ j - 1 + 1 = j
    BY <1>1, <1>2
  <2>2. PICK m \in DOMAIN stack : m = j - 1
    BY <2>1
  <2>3. stack[m][2] > 1 /\ refs[stack[m][1]][stack[m][2] - 1] = stack[j][1]
    BY <2>1, <2>2 DEF Linked
  <2>4. /\ stack[m][1] \in Strct /\ stack[m][2] \in Nat
        /\ stack[m][2] <= Len(refs[stack[m][1]]) + 1
    BY <2>2, StateType
  <2>5. Len(refs[stack[m][1]]) \in Nat
    BY <2>4, RefsSeq
  <2>6. stack[m][2] - 1 \in 1..Len(refs[stack[m][1]])
    BY <2>3, <2>4, <2>5
  <2>7. stack[j][1] \in Range(refs[stack[m][1]])
    BY <2>3, <2>4, <2>6, RefsSeq
  <2> QED
    BY <2>1, <2>2, <2>7, LoopIsRecursive
<1>3. ASSUME NEW i \in DOMAIN stack, NEW j \in DOMAIN stack, i # j
      PROVE  stack[i][1] # stack[j][1]
  <2>1. i < j \/ j < i
    BY <1>1, <1>3
  <2> QED
    BY <1>2, <2>1
<1>4. ASSUME HasField, NEW i \in DOMAIN stack PROVE stack[i][1] # Target
  <2>1. PICK n \in DOMAIN stack : n = Len(stack) /\ Target \in Range(refs[stack[n][1]])
    BY <1>4, TargetType
  <2>2. i <= n
    BY <1>1, <2>1
  <2> QED
    BY <2>1, <2>2, LoopIsRecursive
<1> QED
  BY <1>3, <1>4

\* The heights of two structures are numbers.
LEMMA HeightType ==
  ASSUME TypeOK, NEW p \in Strct, NEW g \in DOMAIN refs[p]
  PROVE  /\ refs[p][g] \in Strct /\ g \in Nat \ {0} /\ g <= Len(refs[p])
         /\ height[p] \in Nat /\ height[refs[p][g]] \in Nat
         /\ colour[p] \in Nat /\ colour[p] <= hue /\ hue \in Nat \ {0}
         /\ colour[refs[p][g]] \in Nat /\ colour[refs[p][g]] <= hue
<1>1. refs[p][g] \in Strct /\ g \in Nat \ {0} /\ g <= Len(refs[p])
  BY RefsSeq
<1>2. hue \in Nat \ {0} /\ colour \in [Strct -> 0..hue] /\ height \in [Strct -> Nat]
  BY StateType DEF TypeOK
<1>3. \A s \in Strct : height[s] \in Nat /\ colour[s] \in Nat /\ colour[s] <= hue
  BY <1>2
<1> QED
  BY <1>1, <1>2, <1>3
------------------------------------------------------------------------------
\* No round before the first.
LEMMA EndAliasHInv ==
  ASSUME IInv, HInv, EndAlias
  PROVE  HInv'
<1>1. /\ phase = "alias" /\ at > Len(order) /\ phase' = "height" /\ at' = 1 /\ hue = 1
      /\ UNCHANGED <<refs, order, stack, offs, aq, colour, hue, height>>
  BY DEF EndAlias, IInv, Rounds
<1>2. stack = <<>>
  <2>1. ~(at <= Len(order))
    BY <1>1, StateType DEF IInv
  <2> QED
    BY <2>1 DEF IInv, Linked
<1>3. \A s \in Strct : colour[s] = 0 /\ height[s] = 0
  BY <1>1 DEF HInv, Colours
<1>4. Colours'
  BY <1>1, <1>2, <1>3 DEF Colours
<1>5. Heights'
  <2>1. ASSUME NEW p \in Strct, NEW g \in DOMAIN refs[p]
        PROVE  (Above(p, g) /\ Coloured(p, g))'
    <3>1. refs[p][g] \in Strct
      BY HeightType DEF IInv
    <3> QED
      BY <1>1, <1>2, <1>3, <3>1 DEF Above, Coloured, Waiting
  <2> QED
    BY <1>1, <2>1 DEF Heights
<1>6. TreeOrdered'
  BY <1>1 DEF TreeOrdered
<1> QED
  BY <1>4, <1>5, <1>6 DEF HInv

\* A round starts with a structure that none came to before.
LEMMA StartHeightHInv ==
  ASSUME IInv, HInv, StartHeight
  PROVE  HInv'
<1>1. /\ phase = "height" /\ stack = <<>> /\ at <= Len(order)
      /\ UNCHANGED <<refs, order, phase, offs, aq, hue, height>>
      /\ at \in Nat \ {0} /\ order[at] \in Strct /\ hue \in Nat \ {0}
  <2>1. /\ phase = "height" /\ stack = <<>> /\ at <= Len(order)
        /\ UNCHANGED <<refs, order, phase, offs, aq, hue, height>>
    BY DEF StartHeight
  <2> QED
    BY <2>1, StateType DEF IInv
<1>2. TreeOrdered'
  BY <1>1 DEF TreeOrdered
<1>3. Tree' = Tree
  BY <1>1 DEF Tree, Shared, Embedded
<1>4. /\ \A s \in Strct : colour[s] < hue
      /\ \A k \in 1..at - 1 : colour[order[k]] # 0 \/ refs[order[k]] = <<>>
  BY <1>1 DEF HInv, Colours
<1>5. CASE colour[Orig] # 0
  <2>1. at' = at + 1 /\ UNCHANGED <<stack, colour>>
    BY <1>5 DEF StartHeight
  <2>2. \A k \in 1..at' - 1 : k \in 1..at - 1 \/ k = at
    BY <1>1, <2>1
  <2>3. Colours'
    BY <1>1, <1>4, <1>5, <2>1, <2>2 DEF Colours, Orig
  <2>4. Heights'
    BY <1>1, <1>3, <2>1 DEF HInv, Heights, Above, Coloured, Waiting
  <2> QED
    BY <1>2, <2>3, <2>4 DEF HInv
<1>6. CASE colour[Orig] = 0
  <2> DEFINE o == order[at]
  <2>1. /\ stack' = <<<<o, 1>>>> /\ at' = at /\ colour[o] = 0
        /\ colour' = IF refs[o] = <<>> THEN colour ELSE [colour EXCEPT ![o] = hue]
    BY <1>6 DEF StartHeight, Orig
  <2> HIDE DEF o
  <2>2. o \in Strct
    BY <1>1 DEF o
  <2>3. /\ \A s \in Strct : s # o => colour'[s] = colour[s]
        /\ refs[o] # <<>> => colour'[o] = hue
        /\ refs[o] = <<>> => colour'[o] = colour[o]
    BY <2>1, <2>2 DEF IInv, TypeOK
  <2>4. DOMAIN stack' = {1} /\ stack'[1] = <<o, 1>> /\ stack' # <<>>
    BY <2>1
  <2>5. Colours'
    <3>1. \A i \in DOMAIN stack' : colour'[stack'[i][1]] = hue \/ refs[stack'[i][1]] = <<>>
      BY <2>3, <2>4
    <3>2. \A s \in Strct : colour[s] # 0 => colour'[s] # 0
      BY <2>1, <2>3
    <3>3. \A k \in 1..at - 1 : order[k] \in Strct
      BY <1>1, StateType DEF IInv
    <3>4. \A k \in 1..at - 1 : colour'[order[k]] # 0 \/ refs[order[k]] = <<>>
      BY <1>4, <3>2, <3>3
    <3> QED
      BY <1>1, <2>1, <2>4, <3>1, <3>4 DEF Colours
  <2>6. Heights'
    <3>1. ASSUME Tree, NEW p \in Strct, NEW g \in DOMAIN refs[p]
          PROVE  (Above(p, g) /\ Coloured(p, g))'
      <4>1. Above(p, g) /\ ~Waiting(p, g)
        BY <1>1, <3>1 DEF HInv, Heights, Waiting
      <4>2. height[refs[p][g]] >= height[p] /\ (colour[p] # 0 => height[refs[p][g]] > height[p])
        BY <4>1 DEF Above
      <4>3. /\ refs[p][g] \in Strct /\ g \in Nat \ {0}
            /\ height[p] \in Nat /\ height[refs[p][g]] \in Nat
        BY HeightType DEF IInv
      <4>4. Coloured(p, g)'
        <5>1. colour'[refs[p][g]] = hue => refs[p][g] = o
          BY <1>1, <1>4, <2>3, <4>3
        <5> QED
          BY <1>1, <2>4, <5>1 DEF Coloured
      <4>5. CASE p = o
        <5>1. Waiting(p, g)'
          BY <1>1, <2>4, <4>3, <4>5 DEF Waiting
        <5>2. \A i \in DOMAIN stack' : height[refs[p][g]] + i > height[p]
          BY <2>4, <4>2, <4>3
        <5> QED
          BY <1>1, <4>4, <5>1, <5>2 DEF Above
      <4>6. CASE p # o
        <5>1. \A i \in DOMAIN stack' : stack'[i][1] # p
          BY <2>4, <4>6
        <5> QED
          BY <1>1, <2>3, <4>2, <4>4, <4>6, <5>1 DEF Above
      <4> QED
        BY <4>5, <4>6
    <3> QED
      BY <1>1, <1>3, <3>1 DEF Heights
  <2> QED
    BY <1>2, <2>5, <2>6 DEF HInv
<1> QED
  BY <1>5, <1>6

\* A frame returned from waits for no field, so that nothing changes for those
\* that are left; the first one ends the round.
LEMMA ReturnHInv ==
  ASSUME IInv, HInv, Return
  PROVE  HInv'
<1> DEFINE n == Len(stack)
<1>1. /\ phase \in {"alias", "height"} /\ stack # <<>> /\ ~HasField
      /\ stack' = Front(stack)
      /\ at' = IF n = 1 THEN at + 1 ELSE at
      /\ hue' = IF n = 1 /\ phase = "height" THEN hue + 1 ELSE hue
      /\ UNCHANGED <<refs, order, phase, offs, aq, colour, height>>
  BY DEF Return
<1>2. TreeOrdered'
  BY <1>1 DEF TreeOrdered
<1>3. CASE phase = "alias"
  BY <1>1, <1>2, <1>3 DEF HInv, Colours, Heights
<1>4. CASE phase = "height"
  <2>1. TypeOK /\ stack # <<>>
    BY <1>1 DEF IInv
  <2>2. /\ n \in Nat \ {0} /\ Top = stack[n]
        /\ Len(Front(stack)) = n - 1 /\ Front(stack) \in Seq(Strct \X Nat)
        /\ \A i \in 1..n - 1 : Front(stack)[i] = stack[i]
    BY <2>1, Frames
  <2>3. DOMAIN stack = 1..n /\ n \in DOMAIN stack
    BY <2>1, <2>2, StateType
  <2>4. n = 1 => stack[n][1] = order[at]
    BY <2>1 DEF IInv, Linked
  <2> HIDE DEF n
  <2>5. /\ DOMAIN stack' = 1..n - 1 /\ \A i \in 1..n - 1 : stack'[i] = stack[i] /\ i \in DOMAIN stack
        /\ stack' = <<>> <=> n = 1
    <3>1. /\ Len(stack') = n - 1 /\ stack' \in Seq(Strct \X Nat)
          /\ \A i \in 1..n - 1 : stack'[i] = stack[i]
      BY <1>1, <2>2
    <3>2. \A i \in 1..n - 1 : i \in DOMAIN stack
      BY <2>2, <2>3
    <3>3. stack' = <<>> <=> n = 1
      BY <2>2, <3>1, EmptySeq
    <3> QED
      BY <3>1, <3>2, <3>3
  <2>6. /\ at \in Nat \ {0} /\ hue \in Nat \ {0}
        /\ \A s \in Strct : colour[s] \in Nat /\ colour[s] <= hue
    <3>1. at \in Nat \ {0} /\ hue \in Nat \ {0} /\ colour \in [Strct -> 0..hue]
      BY StateType DEF IInv, TypeOK
    <3> QED
      BY <3>1
  <2>7. Colours'
    <3>1. /\ \A i \in DOMAIN stack : colour[stack[i][1]] = hue \/ refs[stack[i][1]] = <<>>
          /\ \A k \in 1..at - 1 : colour[order[k]] # 0 \/ refs[order[k]] = <<>>
      BY <1>4 DEF HInv, Colours
    <3>2. CASE n = 1
      <4>1. stack' = <<>> /\ DOMAIN stack' = {} /\ at' = at + 1 /\ hue' = hue + 1
        BY <1>1, <1>4, <2>5, <3>2
      <4>2. \A s \in Strct : colour[s] < hue'
        BY <2>6, <4>1
      <4>3. colour[order[at]] # 0 \/ refs[order[at]] = <<>>
        BY <2>3, <2>4, <2>6, <3>1, <3>2
      <4>4. \A k \in 1..at' - 1 : k \in 1..at - 1 \/ k = at
        BY <2>6, <4>1
      <4>5. \A k \in 1..at' - 1 : colour[order[k]] # 0 \/ refs[order[k]] = <<>>
        BY <3>1, <4>3, <4>4
      <4> QED
        BY <1>1, <1>4, <4>1, <4>2, <4>5 DEF Colours
    <3>3. CASE n # 1
      <4>1. stack' # <<>> /\ at' = at /\ hue' = hue
        BY <1>1, <2>5, <3>3
      <4>2. \A i \in DOMAIN stack' : colour[stack'[i][1]] = hue \/ refs[stack'[i][1]] = <<>>
        BY <2>5, <3>1
      <4> QED
        BY <1>1, <1>4, <3>1, <4>1, <4>2 DEF Colours
    <3> QED
      BY <3>2, <3>3
  <2>8. Heights'
    <3>1. Tree' = Tree
      BY <1>1 DEF Tree, Shared, Embedded
    <3>2. ASSUME Tree, NEW p \in Strct, NEW g \in DOMAIN refs[p]
          PROVE  (Above(p, g) /\ Coloured(p, g))'
      <4>1. Above(p, g) /\ Coloured(p, g)
        BY <1>4, <3>2 DEF HInv, Heights
      <4>2. /\ refs[p][g] \in Strct /\ g \in Nat /\ g <= Len(refs[p])
            /\ Len(refs[p]) \in Nat
        BY HeightType, RefsSeq DEF IInv
      <4>3. ~(stack[n][1] = p /\ stack[n][2] <= g)
        <5>1. stack[n][1] = p => ~(stack[n][2] <= Len(refs[p]))
          BY <1>1, <2>2 DEF HasField
        <5>2. stack[n][2] \in Nat
          BY <2>3, StateType DEF IInv
        <5> QED
          BY <4>2, <5>1, <5>2
      <4>4. \A i \in DOMAIN stack : i \in 1..n - 1 \/ i = n
        BY <2>2, <2>3
      <4>5. Waiting(p, g)' <=> Waiting(p, g)
        BY <2>5, <4>3, <4>4 DEF Waiting
      <4>6. Above(p, g)'
        BY <1>1, <2>5, <4>1, <4>5 DEF Above
      <4>7. Coloured(p, g)'
        <5>1. CASE n = 1
          <6>1. hue' = hue + 1
            BY <1>1, <1>4, <5>1
          <6>2. colour[refs[p][g]] # hue'
            BY <2>6, <4>2, <6>1
          <6> QED
            BY <1>1, <6>2 DEF Coloured
        <5>2. CASE n # 1
          <6>1. hue' = hue /\ 1 \in 1..n - 1
            BY <1>1, <2>2, <5>2
          <6>2. stack' # <<>> /\ stack'[1] = stack[1]
            BY <2>5, <5>2, <6>1
          <6> QED
            BY <1>1, <4>1, <4>5, <6>1, <6>2 DEF Coloured
        <5> QED
          BY <5>1, <5>2
      <4> QED
        BY <4>6, <4>7
    <3> QED
      BY <1>1, <3>1, <3>2 DEF Heights
  <2> QED
    BY <1>2, <2>7, <2>8 DEF HInv
<1> QED
  BY <1>1, <1>3, <1>4

\* All structures with fields have a colour.
LEMMA EndHeightHInv ==
  ASSUME IInv, HInv, EndHeight
  PROVE  HInv'
<1>1. /\ phase = "height" /\ at > Len(order) /\ phase' = "sort"
      /\ UNCHANGED <<refs, order, at, stack, offs, aq, colour, hue, height>>
  BY DEF EndHeight
<1>2. \A s \in Strct : colour[s] # 0 \/ refs[s] = <<>>
  <2>1. ASSUME NEW s \in Strct PROVE colour[s] # 0 \/ refs[s] = <<>>
    <3>1. PICK k \in 1..Len(order) : order[k] = s
      BY StateType DEF IInv
    <3>2. k \in 1..at - 1
      BY <1>1, StateType DEF IInv
    <3> QED
      BY <1>1, <3>1, <3>2 DEF HInv, Colours
  <2> QED
    BY <2>1
<1>3. Colours' /\ TreeOrdered'
  BY <1>1, <1>2 DEF Colours, TreeOrdered
<1>4. Heights'
  <2>1. Tree' = Tree
    BY <1>1 DEF Tree, Shared, Embedded
  <2>2. \A p, g : Above(p, g)' <=> Above(p, g)
    BY <1>1 DEF Above, Waiting
  <2> QED
    BY <1>1, <2>1, <2>2 DEF HInv, Heights
<1> QED
  BY <1>3, <1>4 DEF HInv

\* Higher structures are first.
LEMMA SortHInv ==
  ASSUME IInv, HInv, Sort
  PROVE  HInv'
<1>1. /\ phase = "sort" /\ phase' = "done"
      /\ UNCHANGED <<refs, at, stack, offs, aq, colour, hue, height>>
  BY DEF Sort
<1>2. /\ order' \in Seq(Strct) /\ Range(order') = Strct /\ IsInjective(order')
      /\ Len(order') = Len(order) /\ Len(order) \in Nat
      /\ \A i, j \in 1..Len(order) : i < j => Higher(order'[i], order'[j])
  BY SortOrders, StateType DEF IInv
<1>3. DOMAIN order' = 1..Len(order)
  BY <1>2
<1>4. stack = <<>>
  BY <1>1 DEF IInv, Linked
<1>5. Colours' /\ Heights'
  BY <1>1 DEF Colours, Heights
<1>6. TreeOrdered'
  <2>1. Tree' = Tree
    BY <1>1 DEF Tree, Shared, Embedded
  <2>2. \A s \in Strct : Position(s)' \in DOMAIN order' /\ order'[Position(s)'] = s
    <3>1. \A s \in Strct : \E i \in DOMAIN order' : order'[i] = s
      BY <1>2 DEF Range
    <3> QED
      BY <3>1 DEF Position
  <2>3. ASSUME Tree, NEW s \in Strct, NEW t \in Embedded(s)
        PROVE  Position(t)' < Position(s)'
    <3>1. PICK g \in DOMAIN refs[s] : refs[s][g] = t
      BY <2>3 DEF Embedded, Range
    <3>2. t \in Strct /\ height[s] \in Nat /\ height[t] \in Nat
      BY <3>1, HeightType DEF IInv
    <3>3. colour[s] # 0
      <4>1. refs[s] # <<>>
        BY <3>1
      <4> QED
        BY <1>1, <4>1 DEF HInv, Colours
    <3>4. height[t] > height[s]
      <4>1. ~Waiting(s, g)
        BY <1>4 DEF Waiting
      <4> QED
        BY <1>1, <2>3, <3>1, <3>3, <4>1 DEF HInv, Heights, Above
    <3>5. PICK i \in 1..Len(order), j \in 1..Len(order) :
            /\ i = Position(t)' /\ order'[i] = t
            /\ j = Position(s)' /\ order'[j] = s
      BY <1>3, <2>2, <3>2
    <3>6. ~Higher(s, t) /\ s # t
      BY <3>2, <3>4 DEF Higher
    <3>7. i < j
      BY <1>2, <3>5, <3>6
    <3> QED
      BY <3>5, <3>7
  <2>4. SUFFICES ASSUME Tree PROVE \A s \in Strct : \A t \in Embedded(s) : Position(t)' < Position(s)'
    BY <1>1, <2>1 DEF TreeOrdered, Tree, Embedded
  <2> QED
    BY <2>3, <2>4
<1> QED
  BY <1>5, <1>6 DEF HInv

\* The target of the top frame is raised above its one parent, and waits on top
\* of it; in a tree it never has the round's colour already.
LEMMA AnnotateHInv ==
  ASSUME IInv, HInv, Annotate
  PROVE  HInv'
<1> DEFINE n == Len(stack)
           p == stack[n][1]
           f == stack[n][2]
           t == Target
<1>1. /\ phase = "height" /\ HasField
      /\ UNCHANGED <<refs, order, phase, at, offs, aq, hue>>
  BY DEF Annotate
<1>2. TreeOrdered' /\ Tree' = Tree
  BY <1>1 DEF TreeOrdered, Tree, Shared, Embedded
<1>3. TypeOK /\ Linked /\ ~Recursive /\ stack # <<>>
  BY <1>1 DEF IInv, NoneRecursive, HasField
<1>4. /\ n \in Nat \ {0} /\ n \in DOMAIN stack /\ p \in Strct
      /\ f \in 1..Len(refs[p]) /\ Len(refs[p]) \in Nat
      /\ t = refs[p][f] /\ t \in Strct
  BY <1>1, <1>3, TargetType
<1>5. DOMAIN stack = 1..n
  BY <1>3, StateType
<1>6. /\ \A i \in DOMAIN stack : stack[i][1] = p => i = n
      /\ \A i \in DOMAIN stack : stack[i][1] # t
  BY <1>1, <1>3, <1>4, StackOnce
<1>7. f \in DOMAIN refs[p] /\ f \in Nat /\ refs[p] # <<>>
  BY <1>3, <1>4, RefsSeq
<1>8. /\ \A i \in DOMAIN stack : colour[stack[i][1]] = hue \/ refs[stack[i][1]] = <<>>
      /\ \A k \in 1..at - 1 : colour[order[k]] # 0 \/ refs[order[k]] = <<>>
      /\ colour[p] = hue
  BY <1>1, <1>4, <1>7 DEF HInv, Colours
<1>9. hue \in Nat \ {0}
  BY <1>3, StateType
<1>10. CASE colour[t] = hue
  <2>1. stack' = NextField /\ UNCHANGED <<colour, height>>
    BY <1>10 DEF Annotate
  <2>2. /\ Len(stack') = n /\ stack' \in Seq(Strct \X Nat)
        /\ \A i \in 1..n - 1 : stack'[i] = stack[i]
        /\ stack'[n] = <<p, f + 1>>
    BY <1>3, <2>1, Frames
  <2>3. ~Tree
    <3>1. SUFFICES ASSUME Tree PROVE FALSE
      OBVIOUS
    <3>2. Coloured(p, f)
      BY <1>1, <1>4, <1>7, <3>1 DEF HInv, Heights
    <3>3. Waiting(p, f)
      BY <1>4, <1>7 DEF Waiting
    <3>4. 1 \in DOMAIN stack
      BY <1>4, <1>5
    <3> QED
      BY <1>4, <1>6, <1>10, <3>2, <3>3, <3>4 DEF Coloured
  <2> HIDE DEF n, p, f, t
  <2>4. /\ stack' # <<>> /\ \A i \in DOMAIN stack' : i \in DOMAIN stack /\ stack'[i][1] = stack[i][1]
    <3>1. DOMAIN stack' = 1..n
      BY <2>2
    <3>2. \A i \in 1..n : i \in 1..n - 1 \/ i = n
      BY <1>4
    <3>3. stack'[n][1] = stack[n][1]
      BY <2>2 DEF p
    <3> QED
      BY <1>4, <1>5, <2>2, <3>1, <3>2, <3>3
  <2>5. Colours'
    BY <1>1, <1>8, <2>1, <2>4 DEF Colours
  <2>6. Heights'
    BY <1>2, <2>3 DEF Heights
  <2> QED
    BY <1>2, <2>5, <2>6 DEF HInv
<1>11. CASE colour[t] # hue
  <2>1. /\ stack' = Call(t)
        /\ colour' = [colour EXCEPT ![t] = hue]
        /\ height' = [height EXCEPT ![t] = @ + n]
    BY <1>11 DEF Annotate
  <2>2. /\ Len(stack') = n + 1 /\ stack' \in Seq(Strct \X Nat)
        /\ \A i \in 1..n - 1 : stack'[i] = stack[i]
        /\ stack'[n] = <<p, f + 1>> /\ stack'[n + 1] = <<t, 1>>
    BY <1>3, <1>4, <2>1, Called
  <2>3. /\ colour'[t] = hue /\ height'[t] = height[t] + n
        /\ \A s \in Strct : s # t => colour'[s] = colour[s] /\ height'[s] = height[s]
    BY <1>3, <1>4, <2>1 DEF TypeOK
  <2> HIDE DEF n, p, f, t
  <2>4. /\ DOMAIN stack' = 1..n + 1
        /\ \A i \in DOMAIN stack' : i \in 1..n - 1 \/ i = n \/ i = n + 1
        /\ \A i \in 1..n - 1 : i \in DOMAIN stack /\ i # n
        /\ n \in DOMAIN stack' /\ n + 1 \in DOMAIN stack' /\ stack' # <<>>
    BY <1>4, <1>5, <2>2
  <2>5. p # t /\ p = stack[n][1] /\ f = stack[n][2]
    BY <1>4, <1>6 DEF p, f
  <2>6. Colours'
    <3>0. \A i \in DOMAIN stack : stack[i][1] \in Strct
      BY <1>3, StateType
    <3>1. \A i \in 1..n - 1 :
             i \in DOMAIN stack /\ stack'[i] = stack[i] /\ stack[i][1] # t /\ stack[i][1] \in Strct
      BY <1>6, <2>2, <2>4, <3>0
    <3>9. \A i \in 1..n - 1 : colour[stack[i][1]] = hue \/ refs[stack[i][1]] = <<>>
      BY <1>8, <2>4
    <3>10. \A i \in 1..n - 1 : colour'[stack[i][1]] = colour[stack[i][1]]
      BY <2>3, <3>1
    <3>2. \A i \in 1..n - 1 : colour'[stack'[i][1]] = hue \/ refs[stack'[i][1]] = <<>>
      BY <3>1, <3>9, <3>10
    <3>3. colour'[p] = hue /\ colour'[t] = hue
      BY <1>4, <1>8, <2>3, <2>5
    <3>11. stack'[n][1] = p /\ stack'[n + 1][1] = t
      BY <2>2
    <3>12. (colour'[stack'[n][1]] = hue) /\ (colour'[stack'[n + 1][1]] = hue)
      BY <3>3, <3>11
    <3>4. \A i \in DOMAIN stack' : colour'[stack'[i][1]] = hue \/ refs[stack'[i][1]] = <<>>
      BY <2>4, <3>2, <3>12
    <3>5. \A s \in Strct : colour[s] # 0 => colour'[s] # 0
      BY <1>9, <2>3
    <3>6. \A k \in 1..at - 1 : order[k] \in Strct
      BY <1>3, StateType
    <3>7. \A k \in 1..at - 1 : colour'[order[k]] # 0 \/ refs[order[k]] = <<>>
      BY <1>8, <3>5, <3>6
    <3> QED
      BY <1>1, <2>4, <3>4, <3>7 DEF Colours
  <2>7. ASSUME Tree, NEW q \in Strct, NEW h \in DOMAIN refs[q]
        PROVE  (Above(q, h) /\ Coloured(q, h))'
    <3> DEFINE v == refs[q][h]
    <3>1. Above(q, h) /\ Coloured(q, h)
      BY <1>1, <2>7 DEF HInv, Heights
    <3>2. /\ v \in Strct /\ h \in Nat \ {0}
          /\ height[q] \in Nat /\ height[v] \in Nat
      BY <1>3, HeightType
    <3>3. stack'[1][1] = stack[1][1]
      <4>1. n = 1 \/ 1 \in 1..n - 1
        BY <1>4
      <4> QED
        BY <2>2, <2>5, <4>1
    <3>4. v = t <=> q = p /\ h = f
      BY <1>3, <1>4, <1>7, <2>7, OneParent
    <3> HIDE DEF v
    <3>5. CASE v = t
      <4>1. q = p /\ h = f
        BY <3>4, <3>5
      <4>2. ~Waiting(q, h)'
        <5>1. ASSUME NEW i \in DOMAIN stack', stack'[i][1] = p PROVE ~(stack'[i][2] <= f)
          <6>1. i \notin 1..n - 1
            BY <1>6, <2>2, <2>4, <5>1
          <6>2. i # n + 1
            BY <2>2, <2>5, <5>1
          <6>3. stack'[i][2] = f + 1
            BY <2>2, <2>4, <6>1, <6>2
          <6> QED
            BY <1>7, <6>3
        <5> QED
          BY <4>1, <5>1 DEF Waiting
      <4>3. height[t] + n > height[p]
        <5>1. stack[n][2] <= f
          BY <1>7, <2>5
        <5> QED
          BY <1>4, <2>5, <3>1, <4>1, <5>1 DEF Above
      <4>4. height'[t] > height'[p] /\ height'[t] >= height'[p]
        <5>1. height'[p] = height[p] /\ height'[t] = height[t] + n
          BY <1>4, <2>3, <2>5
        <5>2. height[p] \in Nat /\ height[t] \in Nat
          BY <3>2, <3>5, <4>1
        <5> QED
          BY <1>4, <4>3, <5>1, <5>2
      <4>5. \A i \in DOMAIN stack' : ~(stack'[i][1] = q /\ stack'[i][2] <= h)
        BY <4>2 DEF Waiting
      <4>6. Above(q, h)'
        BY <1>1, <1>4, <4>1, <4>4, <4>5 DEF Above
      <4>7. Coloured(q, h)'
        BY <1>1, <1>4, <1>8, <2>3, <2>5, <4>1, <4>2 DEF Coloured
      <4> QED
        BY <4>6, <4>7
    <3>6. CASE v # t /\ q = t
      <4>1. ~Waiting(q, h)
        BY <1>6, <3>6 DEF Waiting
      <4>2. height[v] >= height[q]
        BY <3>1, <4>1 DEF Above, v
      <4>3. \A i \in DOMAIN stack' : stack'[i][1] = q => i = n + 1
        <5>1. \A i \in 1..n - 1 : stack'[i][1] # q
          BY <1>6, <2>2, <2>4, <3>6
        <5>2. stack'[n][1] # q
          BY <2>2, <2>5, <3>6
        <5> QED
          BY <2>4, <5>1, <5>2
      <4>4. height'[v] = height[v] /\ height'[q] = height[q] + n
        BY <2>3, <3>2, <3>6
      <4>5. height'[v] + (n + 1) > height'[q]
        BY <1>4, <3>2, <4>2, <4>4
      <4>6. Waiting(q, h)'
        <5>1. stack'[n + 1][1] = q /\ stack'[n + 1][2] <= h
          BY <2>2, <3>2, <3>6
        <5> QED
          BY <1>1, <2>4, <5>1 DEF Waiting
      <4>7. Above(q, h)'
        BY <1>1, <4>3, <4>5, <4>6 DEF Above, v
      <4>8. Coloured(q, h)'
        <5>1. colour'[v] = hue => stack[1][1] = v
          BY <1>11, <2>3, <3>1, <3>2, <3>6 DEF Coloured, v
        <5> QED
          BY <1>1, <2>4, <3>3, <5>1 DEF Coloured, v
      <4> QED
        BY <4>7, <4>8
    <3>7. CASE v # t /\ q # t
      <4>1. /\ height'[v] = height[v] /\ height'[q] = height[q]
            /\ colour'[v] = colour[v] /\ colour'[q] = colour[q]
        BY <2>3, <3>2, <3>7
      <4>2. \A i \in DOMAIN stack' :
              stack'[i][1] = q /\ stack'[i][2] <= h =>
                i \in DOMAIN stack /\ stack[i][1] = q /\ stack[i][2] <= h
        <5>1. \A i \in 1..n - 1 : stack'[i] = stack[i] /\ i \in DOMAIN stack
          BY <2>2, <2>4
        <5>2. stack'[n][1] = q /\ stack'[n][2] <= h => stack[n][1] = q /\ stack[n][2] <= h
          BY <1>7, <2>2, <2>5, <3>2
        <5>3. stack'[n + 1][1] # q
          BY <2>2, <3>7
        <5> QED
          BY <1>4, <2>4, <5>1, <5>2, <5>3
      <4>3. \A i \in DOMAIN stack :
              stack[i][1] = q /\ stack[i][2] <= h =>
                i \in DOMAIN stack' /\ stack'[i][1] = q /\ stack'[i][2] <= h
        <5>1. \A i \in 1..n - 1 : stack'[i] = stack[i] /\ i \in DOMAIN stack'
          BY <1>4, <2>2, <2>4
        <5>2. stack[n][1] = q /\ stack[n][2] <= h => stack'[n][1] = q /\ stack'[n][2] <= h
          <6>1. SUFFICES ASSUME p = q, f <= h PROVE f + 1 <= h
            BY <2>2, <2>5
          <6>2. h # f
            BY <3>4, <3>7, <6>1
          <6> QED
            BY <1>7, <3>2, <6>1, <6>2
        <5>3. \A i \in DOMAIN stack : i \in 1..n - 1 \/ i = n
          BY <1>4, <1>5
        <5> QED
          BY <2>4, <5>1, <5>2, <5>3
      <4>4. Waiting(q, h)' <=> Waiting(q, h)
        BY <1>1, <4>2, <4>3 DEF Waiting
      <4>5. Above(q, h)'
        BY <1>1, <3>1, <4>1, <4>2, <4>4 DEF Above, v
      <4>6. Coloured(q, h)'
        BY <1>1, <1>3, <2>4, <3>1, <3>3, <4>1, <4>4 DEF Coloured, v
      <4> QED
        BY <4>5, <4>6
    <3> QED
      BY <3>5, <3>6, <3>7
  <2>8. Heights'
    BY <1>1, <1>2, <2>7 DEF Heights
  <2> QED
    BY <1>2, <2>6, <2>8 DEF HInv
<1> QED
  BY <1>10, <1>11

\* There are no heights while aliases are made.
LEMMA AliasHInv ==
  ASSUME HInv, StartAlias \/ Alias
  PROVE  HInv'
<1>1. /\ phase = "alias" /\ phase' \in {"alias", "fail"}
      /\ UNCHANGED <<refs, order, at, colour, hue, height>>
  BY DEF StartAlias, Alias
<1> QED
  BY <1>1 DEF HInv, Colours, Heights, TreeOrdered

\* Each step of the linker keeps what the heights rest on.
LEMMA StepHInv == IInv /\ HInv /\ [Next]_vars => HInv'
<1> SUFFICES ASSUME IInv, HInv, [Next]_vars PROVE HInv'
  OBVIOUS
<1>1. CASE UNCHANGED vars
  <2>1. UNCHANGED <<refs, order, phase, at, stack, offs, aq, colour, hue, height>>
    BY <1>1 DEF vars
  <2>2. Colours' /\ TreeOrdered' /\ Tree' = Tree
    <3>1. Colours'
      BY <2>1 DEF HInv, Colours
    <3>2. \A t : Shared(t)' <=> Shared(t)
      BY <2>1 DEF Shared, Embedded
    <3>3. Tree' = Tree
      BY <3>2 DEF Tree
    <3>4. \A s, t : (Position(s)' = Position(s)) /\ (Embedded(s)' = Embedded(s))
      BY <2>1 DEF Position, Embedded
    <3>5. TreeOrdered'
      BY <2>1, <3>2, <3>4 DEF HInv, TreeOrdered
    <3> QED
      BY <3>1, <3>3, <3>5
  <2>3. \A p, g : (Above(p, g)' <=> Above(p, g)) /\ (Coloured(p, g)' <=> Coloured(p, g))
    BY <2>1 DEF Above, Coloured, Waiting
  <2>4. Heights'
    BY <2>1, <2>2, <2>3 DEF HInv, Heights
  <2> QED
    BY <2>2, <2>4 DEF HInv
<1> QED
  BY <1>1, AliasHInv, EndAliasHInv, ReturnHInv, StartHeightHInv, AnnotateHInv,
     EndHeightHInv, SortHInv DEF Next

\* The structures that ort_parse_close() leaves are each after those that they
\* embed, where none is referred to twice: the header that is printed from them
\* compiles.
THEOREM TreesOrdered == Spec => []TreeOrdered
<1>1. Init => HInv
  <2> SUFFICES ASSUME Init PROVE HInv
    OBVIOUS
  <2>1. Colours
    BY DEF Init, Colours
  <2> QED
    BY <2>1 DEF Init, HInv, Heights, TreeOrdered
<1>2. HInv => TreeOrdered
  BY DEF HInv
<1> QED
  BY <1>1, <1>2, Invariance, StepHInv, PTL DEF Spec
==============================================================================
