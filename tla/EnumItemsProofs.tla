-------------------------- MODULE EnumItemsProofs --------------------------
(***************************************************************************)
(* What the run of EnumItems checks with four items and integers of three  *)
(* bits, proved for enumerations of any length and integers of any width.  *)
(***************************************************************************)
EXTENDS Values, SequenceTheorems, CountLemmas

\* The value before the first automatic one.
Base == Max({-1} \cup Given)

\* The automatic values of the first k items, as they have to be.
Assigned(k) == \A i \in Autos : i <= k => items[i].value = Base + Count(Autos, i)

\* Values given differ, and the greatest integer is none of them.
GivenDiffer ==
  err = "no" =>
    /\ \A i, j \in DOMAIN items \ Autos : i # j => items[i].value # items[j].value
    /\ MaxInt \notin Given

\* Where the two passes are when they have passed n - 1 items.
Passing ==
  phase \in {"first", "second"} /\ err = "no" =>
    max = Base + 1 + Count(Autos, n - 1) /\ Assigned(n - 1)

\* The second pass is only without error where the first came to its end
\* within the integers: so it meets no overflow, though it looks for none.
Fits ==
  phase = "second" /\ err = "no" => Base + 1 + Count(Autos, Len(items)) <= MaxInt

Settled == phase = "done" /\ err = "no" => Assigned(Len(items))

IInv ==
  /\ TypeOK
  /\ GivenDiffer /\ Passing /\ Fits /\ Settled
  /\ overflow => err # "no"
------------------------------------------------------------------------------
\* What the type invariant says of the items, in the form the proofs use.
LEMMA ItemsType ==
  ASSUME TypeOK
  PROVE  /\ Len(items) \in Nat /\ DOMAIN items = 1..Len(items)
         /\ \A i \in DOMAIN items : items[i] \in Item
         /\ Given \in SUBSET Int64 /\ Autos \subseteq DOMAIN items
         /\ n \in Nat \ {0} /\ n <= Len(items) + 1
<1>1. Len(items) \in Nat /\ DOMAIN items = 1..Len(items)
  BY LenProperties DEF TypeOK
<1>2. \A i \in DOMAIN items : items[i] \in Item
  BY <1>1, ElementOfSeq DEF TypeOK
<1>3. Given \in SUBSET Int64
  BY <1>2 DEF Item, Given
<1>4. n \in 1..Len(items) + 1
  BY DEF TypeOK
<1> QED
  BY <1>1, <1>2, <1>3, <1>4 DEF Autos

\* The greatest value given decides where to start, in both passes and in the
\* property.
LEMMA StartBase ==
  ASSUME TypeOK
  PROVE  /\ Base \in -1..MaxInt /\ \A v \in Given : v <= Base
         /\ Start(Max(Given \cup {MinInt})) \in Int64
         /\ MaxInt \notin Given =>
              /\ Start(Max(Given \cup {MinInt})) = Base + 1
              /\ Max(Given \cup {MinInt}) # MaxInt
<1> DEFINE A == Given \cup {MinInt}
           B == {-1} \cup Given
<1>1. MinInt \in Int /\ MaxInt \in Nat /\ MinInt < 0
  BY EnumItemsAssumption
<1>2. A \in SUBSET (MinInt..MaxInt) /\ A # {} /\ B \in SUBSET (MinInt..MaxInt) /\ B # {}
  BY <1>1, ItemsType DEF Int64
<1>3. /\ Max(A) \in A /\ \A y \in A : Max(A) >= y
      /\ Max(B) \in B /\ \A y \in B : Max(B) >= y
  <2>1. MaxInt \in Int
    BY <1>1
  <2>2. \A S \in SUBSET (MinInt..MaxInt) : S # {} => Max(S) \in S /\ \A y \in S : Max(S) >= y
    BY <1>1, <2>1, GreatestBounded
  <2> HIDE DEF A, B
  <2> QED
    BY <1>2, <2>2
<1>4. Max(B) \in B /\ \A y \in B : Max(B) >= y
  BY <1>3
<1>5. Base = Max(B)
  BY DEF Base
<1>6. Base \in -1..MaxInt /\ \A v \in Given : v <= Base
  BY <1>1, <1>2, <1>4, <1>5
<1>7. Start(Max(A)) \in Int64
  BY <1>1, <1>2, <1>3 DEF Start, Wrap, Int64
<1>8. ASSUME MaxInt \notin Given
      PROVE  Start(Max(A)) = Base + 1 /\ Max(A) # MaxInt
  <2>1. Max(A) # MaxInt /\ Max(A) \in Int /\ Max(B) \in Int
    BY <1>1, <1>2, <1>3, <1>4, <1>8
  <2>2. CASE Max(A) < 0
    <3>1. Max(B) = -1
      BY <1>3, <1>4, <2>1, <2>2
    <3> QED
      BY <1>5, <2>1, <2>2, <3>1 DEF Start
  <2>3. CASE Max(A) >= 0
    <3>1. Max(A) \in Given
      BY <1>1, <1>3, <2>1, <2>3
    <3>2. Max(B) \in Given
      BY <1>4, <2>1, <2>3, <3>1
    <3>3. Max(A) = Max(B)
      BY <1>3, <1>4, <2>1, <3>1, <3>2
    <3> QED
      BY <1>5, <2>1, <2>3, <3>3 DEF Start, Wrap
  <2> QED
    BY <2>1, <2>2, <2>3
<1> QED
  BY <1>6, <1>7, <1>8

\* An automatic value changes no other item.
LEMMA AssignKeeps ==
  ASSUME TypeOK, n \in Autos, NEW v \in Int64, items' = [items EXCEPT ![n].value = v]
  PROVE  /\ items' \in Seq(Item) /\ Len(items') = Len(items) /\ DOMAIN items' = DOMAIN items
         /\ items'[n].value = v /\ \A i \in DOMAIN items : i # n => items'[i] = items[i]
         /\ Autos' = Autos /\ Given' = Given /\ Base' = Base
<1>1. n \in DOMAIN items /\ items[n] \in Item /\ items \in Seq(Item)
  BY ItemsType DEF Autos, TypeOK
<1>2. /\ items' \in Seq(Item) /\ Len(items') = Len(items) /\ DOMAIN items' = DOMAIN items
      /\ items'[n].value = v /\ items'[n].auto = items[n].auto
      /\ \A i \in DOMAIN items : i # n => items'[i] = items[i]
  <2>1. [items[n] EXCEPT !.value = v] \in Item
    BY <1>1 DEF Item
  <2> QED
    BY <1>1, <2>1, ExceptSeq DEF Item
<1>3. Autos' = Autos
  BY <1>2 DEF Autos
<1>4. Given' = Given
  BY <1>2, <1>3 DEF Given
<1> QED
  BY <1>2, <1>3, <1>4 DEF Base
------------------------------------------------------------------------------
\* No item is read yet.
LEMMA InitIInv == Init => IInv
<1> SUFFICES ASSUME Init PROVE IInv
  OBVIOUS
<1>1. items = <<>> /\ phase = "read" /\ n = 1 /\ max = MinInt /\ err = "no" /\ overflow = FALSE
  BY DEF Init
<1>2. Len(items) = 0 /\ DOMAIN items = {} /\ items \in Seq(Item)
  BY <1>1
<1>3. Autos = {} /\ Given = {}
  BY <1>2 DEF Autos, Given
<1>4. TypeOK
  <2>1. n \in 1..Len(items) + 1
    BY <1>1, <1>2
  <2>2. max \in Int64
    BY <1>1, EnumItemsAssumption DEF Int64
  <2> QED
    BY <1>1, <1>2, <2>1, <2>2 DEF TypeOK
<1>5. GivenDiffer /\ Passing /\ Fits /\ Settled
  BY <1>1, <1>2, <1>3 DEF GivenDiffer, Passing, Fits, Settled
<1> QED
  BY <1>1, <1>4, <1>5 DEF IInv

\* An item more.
LEMMA ReadIInv ==
  ASSUME IInv, ReadAuto \/ \E v \in Int64 : ReadValue(v)
  PROVE  IInv'
<1>1. PICK x \in Item :
        /\ Reading /\ items' = Append(items, x) /\ UNCHANGED <<phase, n, max, overflow>>
        /\ err' = IF ~x.auto /\ Refused(x.value) THEN "value" ELSE err
  <2>1. CASE ReadAuto
    <3>1. [auto |-> TRUE, value |-> 0] \in Item
      BY EnumItemsAssumption DEF Item, Int64
    <3> QED
      BY <2>1, <3>1 DEF ReadAuto
  <2>2. ASSUME NEW v \in Int64, ReadValue(v)
        PROVE  \E x \in Item :
                 /\ Reading /\ items' = Append(items, x) /\ UNCHANGED <<phase, n, max, overflow>>
                 /\ err' = IF ~x.auto /\ Refused(x.value) THEN "value" ELSE err
    <3>1. [auto |-> FALSE, value |-> v] \in Item
      BY <2>2 DEF Item
    <3> QED
      BY <2>2, <3>1 DEF ReadValue
  <2> QED
    BY <2>1, <2>2
<1>2. /\ items' \in Seq(Item) /\ Len(items') = Len(items) + 1 /\ Len(items) \in Nat
      /\ items'[Len(items) + 1] = x /\ DOMAIN items = 1..Len(items)
      /\ DOMAIN items' = 1..Len(items) + 1
      /\ \A i \in DOMAIN items : items'[i] = items[i]
  BY <1>1, AppendProperties DEF IInv, TypeOK
<1>3. TypeOK'
  BY <1>1, <1>2 DEF IInv, TypeOK, Reading
<1>4. GivenDiffer'
  <2>1. SUFFICES ASSUME err' = "no" PROVE GivenDiffer'
    BY DEF GivenDiffer
  <2>2. err = "no" /\ (~x.auto => ~Refused(x.value))
    BY <1>1, <2>1
  <2>3. ASSUME NEW i \in DOMAIN items', NEW j \in DOMAIN items', i # j,
               ~items'[i].auto, ~items'[j].auto
        PROVE  items'[i].value # items'[j].value
    <3>1. CASE i \in DOMAIN items /\ j \in DOMAIN items
      BY <1>2, <2>2, <2>3, <3>1 DEF IInv, GivenDiffer, Autos
    <3>2. CASE i \in DOMAIN items /\ j \notin DOMAIN items
      BY <1>2, <2>2, <2>3, <3>2 DEF Refused
    <3>3. CASE i \notin DOMAIN items /\ j \in DOMAIN items
      BY <1>2, <2>2, <2>3, <3>3 DEF Refused
    <3>4. CASE i \notin DOMAIN items /\ j \notin DOMAIN items
      BY <1>2, <2>3, <3>4
    <3> QED
      BY <3>1, <3>2, <3>3, <3>4
  <2>4. ASSUME NEW i \in DOMAIN items', ~items'[i].auto
        PROVE  items'[i].value # MaxInt
    <3>1. CASE i \in DOMAIN items
      BY <1>2, <2>2, <2>4, <3>1 DEF IInv, GivenDiffer, Given, Autos
    <3>2. CASE i \notin DOMAIN items
      BY <1>2, <2>2, <2>4, <3>2 DEF Refused
    <3> QED
      BY <3>1, <3>2
  <2> QED
    BY <2>3, <2>4 DEF GivenDiffer, Given, Autos
<1>5. Passing' /\ Fits' /\ Settled'
  BY <1>1 DEF Passing, Fits, Settled, Reading
<1>6. overflow' => err' # "no"
  BY <1>1 DEF IInv
<1> QED
  BY <1>3, <1>4, <1>5, <1>6 DEF IInv

\* A pass begins, with items that stay.
LEMMA BeginIInv ==
  ASSUME IInv, NEW next \in {"first", "second"}, BeginPass(next), UNCHANGED items,
         err' = "no" => err = "no", err' \in {"no", "value", "overflow"},
         next = "second" /\ err' = "no" => Base + 1 + Count(Autos, Len(items)) <= MaxInt
  PROVE  IInv'
<1>1. /\ phase' = next /\ n' = 1 /\ max' = Start(Max(Given \cup {MinInt}))
      /\ overflow' = (overflow \/ Max(Given \cup {MinInt}) = MaxInt)
  BY DEF BeginPass
<1>2. Autos' = Autos /\ Given' = Given /\ Base' = Base
  BY DEF Autos, Given, Base
<1>3. TypeOK'
  BY <1>1, ItemsType, StartBase DEF IInv, TypeOK
<1>4. GivenDiffer'
  BY <1>2 DEF IInv, GivenDiffer
<1>5. err' = "no" => max' = Base + 1 /\ Max(Given \cup {MinInt}) # MaxInt /\ Base \in Int
  BY <1>1, StartBase DEF IInv, GivenDiffer
<1>6. Passing'
  <2>1. n' - 1 = 0 /\ Count(Autos, 0) = 0
    BY <1>1, CountType
  <2>2. Assigned(n - 1)'
    BY <1>2, <2>1, ItemsType DEF Assigned, IInv
  <2> QED
    BY <1>2, <1>5, <2>1, <2>2 DEF Passing
<1>7. Fits' /\ Settled'
  BY <1>1, <1>2 DEF Fits, Settled
<1>8. overflow' => err' # "no"
  BY <1>1, <1>5 DEF IInv
<1> QED
  BY <1>3, <1>4, <1>6, <1>7, <1>8 DEF IInv

\* The end of the block: parse_enum() assigns automatic values again, or is
\* done.
LEMMA EndReadIInv ==
  ASSUME IInv, EndRead
  PROVE  IInv'
<1>1. CASE Autos # {}
  BY <1>1, BeginIInv DEF EndRead, IInv, TypeOK
<1>2. CASE Autos = {}
  <2>1. phase' = "done" /\ UNCHANGED <<items, n, max, err, overflow>>
    BY <1>2 DEF EndRead
  <2>2. Autos' = Autos /\ Given' = Given /\ Base' = Base
    BY <2>1 DEF Autos, Given, Base
  <2>3. TypeOK' /\ GivenDiffer' /\ Passing' /\ Fits'
    BY <2>1, <2>2 DEF IInv, TypeOK, GivenDiffer, Passing, Fits
  <2>4. Settled'
    BY <1>2, <2>2 DEF Settled, Assigned
  <2> QED
    BY <2>1, <2>3, <2>4 DEF IInv
<1> QED
  BY <1>1, <1>2

\* One item passed, in either pass.
LEMMA PassIInv ==
  ASSUME IInv, First \/ Second
  PROVE  IInv'
<1>1. /\ n \in Nat \ {0} /\ n <= Len(items) /\ n \in DOMAIN items /\ Len(items) \in Nat
      /\ Autos \subseteq DOMAIN items /\ DOMAIN items = 1..Len(items)
      /\ n' = n + 1 /\ UNCHANGED <<phase, err>> /\ phase \in {"first", "second"}
      /\ max \in Int64 /\ Base \in -1..MaxInt /\ MinInt \in Int /\ MaxInt \in Nat
  BY ItemsType, StartBase, EnumItemsAssumption DEF First, Second, IInv, TypeOK
<1>2. /\ Count(Autos, n) = Count(Autos, n - 1) + IF n \in Autos THEN 1 ELSE 0
      /\ Count(Autos, n) \in Nat /\ Count(Autos, n - 1) \in Nat
  BY <1>1, CountStep, CountType
<1>3. err = "no" /\ n \in Autos => max < MaxInt
  <2>1. CASE First
    BY <1>1, <2>1, EnumItemsAssumption DEF First, Int64
  <2>2. CASE Second
    <3>1. SUFFICES ASSUME err = "no", n \in Autos PROVE max < MaxInt
      OBVIOUS
    <3>2. /\ max = Base + 1 + Count(Autos, n - 1)
          /\ Base + 1 + Count(Autos, Len(items)) <= MaxInt
      BY <2>2, <3>1 DEF Second, IInv, Passing, Fits
    <3>3. Count(Autos, n - 1) < Count(Autos, Len(items))
      <4>1. \A k, m \in Nat : k < m => Count(Autos, k) <= Count(Autos, m)
        BY CountMonotonic
      <4>2. PICK k \in Nat, m \in Nat : k = n /\ m = Len(items) /\ k <= m
        BY <1>1
      <4>3. Count(Autos, k) <= Count(Autos, m)
        <5>1. k = m \/ k < m
          BY <4>2
        <5>2. Count(Autos, m) \in Nat
          BY CountType
        <5> QED
          BY <4>1, <5>1, <5>2
      <4>4. Count(Autos, Len(items)) \in Nat
        BY <1>1, CountType
      <4> QED
        BY <1>2, <3>1, <4>2, <4>3, <4>4
    <3>4. Count(Autos, Len(items)) \in Nat
      BY <1>1, CountType
    <3> QED
      BY <1>1, <1>2, <3>2, <3>3, <3>4
  <2> QED
    BY <2>1, <2>2
<1>4. /\ Autos' = Autos /\ Given' = Given /\ Base' = Base
      /\ items' \in Seq(Item) /\ Len(items') = Len(items) /\ DOMAIN items' = DOMAIN items
      /\ \A i \in DOMAIN items : i # n => items'[i] = items[i]
      /\ n \in Autos => items'[n].value = max
      /\ n \notin Autos => items' = items
  <2>1. CASE n \in Autos
    <3>1. items' = [items EXCEPT ![n].value = max]
      BY <2>1 DEF First, Second
    <3> QED
      BY <1>1, <2>1, <3>1, AssignKeeps DEF IInv
  <2>2. CASE n \notin Autos
    <3>1. items' = items
      BY <2>2 DEF First, Second
    <3> QED
      BY <2>2, <3>1 DEF Autos, Given, Base, IInv, TypeOK
  <2> QED
    BY <2>1, <2>2
<1>5. /\ max' \in Int64
      /\ err = "no" => max' = max + IF n \in Autos THEN 1 ELSE 0
      /\ err = "no" => overflow' = overflow
      /\ overflow' \in BOOLEAN /\ (overflow => overflow')
  <2>1. CASE n \in Autos
    <3>1. overflow \in BOOLEAN
      BY DEF IInv, TypeOK
    <3>2. CASE First
      <4>1. max' = max + 1 /\ overflow' = overflow /\ max # MaxInt
        BY <2>1, <3>2 DEF First
      <4>2. max' \in Int64
        BY <1>1, <4>1 DEF Int64
      <4> QED
        BY <2>1, <3>1, <4>1, <4>2
    <3>3. CASE Second
      <4>1. max' = Wrap(max) /\ overflow' = (overflow \/ max = MaxInt)
        BY <2>1, <3>3 DEF Second
      <4>2. max' \in Int64 /\ (max # MaxInt => max' = max + 1)
        BY <1>1, <4>1 DEF Int64, Wrap
      <4>3. err = "no" => max # MaxInt
        BY <1>1, <1>3, <2>1
      <4>4. overflow' \in BOOLEAN /\ (overflow => overflow')
        BY <4>1
      <4>5. err = "no" => overflow' = overflow
        BY <3>1, <4>1, <4>3
      <4> QED
        BY <2>1, <4>2, <4>3, <4>4, <4>5
    <3> QED
      BY <3>2, <3>3
  <2>2. CASE n \notin Autos
    BY <1>1, <2>2 DEF First, Second, IInv, TypeOK, Int64
  <2> QED
    BY <2>1, <2>2
<1>6. TypeOK'
  BY <1>1, <1>4, <1>5 DEF IInv, TypeOK
<1>7. GivenDiffer'
  <2>1. \A i \in DOMAIN items \ Autos : items'[i] = items[i]
    BY <1>4
  <2> QED
    BY <1>1, <1>4, <2>1 DEF IInv, GivenDiffer
<1>8. Passing'
  <2>1. SUFFICES ASSUME err = "no"
                 PROVE  /\ max' = Base + 1 + Count(Autos, n)
                        /\ \A i \in Autos : i <= n => items'[i].value = Base + Count(Autos, i)
    <3>1. n' - 1 = n
      BY <1>1
    <3> QED
      BY <1>1, <1>4, <3>1 DEF Passing, Assigned
  <2>2. max = Base + 1 + Count(Autos, n - 1) /\ Assigned(n - 1)
    BY <1>1, <2>1 DEF IInv, Passing
  <2>3. max' = Base + 1 + Count(Autos, n)
    <3>1. max' = max + IF n \in Autos THEN 1 ELSE 0
      BY <1>5, <2>1
    <3>2. Base \in Int
      BY <1>1
    <3> QED
      BY <1>2, <2>2, <3>1, <3>2
  <2>4. ASSUME NEW i \in Autos, i <= n PROVE items'[i].value = Base + Count(Autos, i)
    <3>1. CASE i = n
      BY <1>1, <1>2, <1>4, <2>2, <2>4, <3>1
    <3>2. CASE i # n
      <4>1. i <= n - 1 /\ i \in DOMAIN items
        BY <1>1, <2>4, <3>2
      <4> QED
        BY <1>4, <2>2, <2>4, <3>2, <4>1 DEF Assigned
    <3> QED
      BY <3>1, <3>2
  <2> QED
    BY <2>3, <2>4
<1>9. Fits' /\ Settled'
  BY <1>1, <1>4 DEF IInv, Fits, Settled
<1> QED
  BY <1>1, <1>5, <1>6, <1>7, <1>8, <1>9 DEF IInv

\* The first pass ends: at the end of the items, or where no value is left.
LEMMA EndFirstIInv ==
  ASSUME IInv, EndFirst
  PROVE  IInv'
<1>1. /\ phase = "first" /\ UNCHANGED items
      /\ n > Len(items) \/ max = MaxInt
      /\ err' = IF n <= Len(items) THEN "overflow" ELSE err
      /\ n \in Nat \ {0} /\ Len(items) \in Nat /\ n <= Len(items) + 1
      /\ err \in {"no", "value", "overflow"}
  BY ItemsType DEF EndFirst, IInv, TypeOK
<1>2. /\ err' = "no" => err = "no"
      /\ err' \in {"no", "value", "overflow"}
  BY <1>1
<1>3. ASSUME err' = "no"
      PROVE  /\ Base + 1 + Count(Autos, Len(items)) <= MaxInt
             /\ Assigned(Len(items))
  <2>1. n - 1 = Len(items) /\ err = "no"
    BY <1>1, <1>3
  <2>2. max = Base + 1 + Count(Autos, n - 1) /\ Assigned(n - 1)
    BY <1>1, <2>1 DEF IInv, Passing
  <2>3. max <= MaxInt
    BY EnumItemsAssumption DEF IInv, TypeOK, Int64
  <2> QED
    BY <2>1, <2>2, <2>3
<1>4. CASE Given # {}
  <2>1. BeginPass("second")
    BY <1>4 DEF EndFirst
  <2> QED
    BY <1>1, <1>2, <1>3, <2>1, BeginIInv
<1>5. CASE Given = {}
  <2>1. phase' = "done" /\ UNCHANGED <<n, max, overflow>>
    BY <1>5 DEF EndFirst
  <2>2. Autos' = Autos /\ Given' = Given /\ Base' = Base
    BY <1>1 DEF Autos, Given, Base
  <2>3. TypeOK'
    BY <1>1, <1>2, <2>1 DEF IInv, TypeOK
  <2>4. GivenDiffer'
    BY <1>1, <1>2, <2>2 DEF IInv, GivenDiffer
  <2>5. Passing' /\ Fits'
    BY <2>1 DEF Passing, Fits
  <2>6. Settled'
    BY <1>1, <1>3, <2>2 DEF Settled, Assigned
  <2>7. overflow' => err' # "no"
    BY <1>2, <2>1 DEF IInv
  <2> QED
    BY <2>3, <2>4, <2>5, <2>6, <2>7 DEF IInv
<1> QED
  BY <1>4, <1>5

\* The second pass ends, and so the enumeration.
LEMMA EndSecondIInv ==
  ASSUME IInv, EndSecond
  PROVE  IInv'
<1>1. /\ phase = "second" /\ n > Len(items) /\ phase' = "done"
      /\ UNCHANGED <<items, n, max, err, overflow>>
      /\ n \in Nat \ {0} /\ Len(items) \in Nat /\ n <= Len(items) + 1
  BY ItemsType DEF EndSecond, IInv
<1>2. Autos' = Autos /\ Given' = Given /\ Base' = Base
  BY <1>1 DEF Autos, Given, Base
<1>3. TypeOK' /\ GivenDiffer' /\ Passing' /\ Fits'
  BY <1>1, <1>2 DEF IInv, TypeOK, GivenDiffer, Passing, Fits
<1>4. Settled'
  <2>1. SUFFICES ASSUME err = "no" PROVE Assigned(Len(items))
    BY <1>1, <1>2 DEF Settled, Assigned
  <2>2. n - 1 = Len(items)
    BY <1>1
  <2> QED
    BY <1>1, <2>1, <2>2 DEF IInv, Passing
<1> QED
  BY <1>1, <1>3, <1>4 DEF IInv

\* A step that changes nothing of the enumeration.
LEMMA StillIInv ==
  ASSUME IInv, UNCHANGED vars
  PROVE  IInv'
<1>1. UNCHANGED <<items, phase, n, max, err, overflow>>
  BY DEF vars
<1>2. Autos' = Autos /\ Given' = Given /\ Base' = Base
  BY <1>1 DEF Autos, Given, Base
<1> QED
  BY <1>1, <1>2
  DEF IInv, TypeOK, GivenDiffer, Passing, Fits, Settled, Assigned

\* Each step of parse_enum() keeps the invariant.
LEMMA StepIInv == IInv /\ [Next]_vars => IInv'
<1> SUFFICES ASSUME IInv, [Next]_vars PROVE IInv'
  OBVIOUS
<1>1. CASE ReadAuto \/ \E v \in Int64 : ReadValue(v)
  BY <1>1, ReadIInv
<1>2. CASE EndRead
  BY <1>2, EndReadIInv
<1>3. CASE First \/ Second
  BY <1>3, PassIInv
<1>4. CASE EndFirst
  BY <1>4, EndFirstIInv
<1>5. CASE EndSecond
  BY <1>5, EndSecondIInv
<1>6. CASE UNCHANGED vars
  BY <1>6, StillIInv
<1> QED
  BY <1>1, <1>2, <1>3, <1>4, <1>5, <1>6 DEF Next
------------------------------------------------------------------------------
\* Automatic values: after the items given, and one more at each.
LEMMA IInvAutosFollow == IInv => AutosFollow
<1> SUFFICES ASSUME IInv PROVE AutosFollow
  OBVIOUS
<1>1. ASSUME phase = "done", err = "no", NEW i \in Autos
      PROVE  items[i].value = Base + Cardinality({j \in Autos : j <= i})
  <2>1. i \in Nat /\ i <= Len(items) /\ Autos \subseteq 1..Len(items) /\ Len(items) \in Nat
    BY ItemsType DEF IInv
  <2>2. {j \in Autos : j <= i} = {m \in 1..i : m \in Autos}
    <3>1. \A j \in Autos : j \in Nat \ {0}
      BY <2>1
    <3>2. \A j \in Autos : j <= i <=> j \in 1..i
      BY <2>1, <3>1
    <3> QED
      BY <3>2
  <2> QED
    BY <1>1, <2>1, <2>2 DEF IInv, Settled, Assigned, Count
<1> QED
  BY <1>1 DEF AutosFollow, IInv, Base

\* Given or automatic, values differ.
LEMMA IInvValuesDiffer == IInv => ValuesDiffer
<1> SUFFICES ASSUME IInv, phase = "done", err = "no" PROVE ValuesDiffer
  BY DEF ValuesDiffer
<1>1. /\ Len(items) \in Nat /\ DOMAIN items = 1..Len(items)
      /\ Autos \subseteq DOMAIN items
      /\ Base \in Int /\ \A v \in Given : v \in Int /\ v <= Base
  BY ItemsType, StartBase, EnumItemsAssumption DEF IInv, Int64
<1>2. \A i \in Autos : items[i].value = Base + Count(Autos, i)
  BY <1>1 DEF IInv, Settled, Assigned
<1>3. \A i \in DOMAIN items : Count(Autos, i) \in Nat
  BY <1>1, CountType
<1>4. \A k, m \in Nat : k < m /\ m \in Autos => Count(Autos, k) < Count(Autos, m)
  BY CountMonotonic
<1>5. \A i \in Autos : Count(Autos, i) > 0
  <2>1. Count(Autos, 0) = 0
    BY CountType
  <2> QED
    BY <1>1, <1>4, <2>1
<1>6. ASSUME NEW i \in DOMAIN items, NEW j \in DOMAIN items, i < j
      PROVE  items[i].value # items[j].value
  <2>1. CASE i \in Autos /\ j \in Autos
    <3>1. Count(Autos, i) < Count(Autos, j)
      BY <1>1, <1>4, <1>6, <2>1
    <3> QED
      BY <1>1, <1>2, <1>3, <2>1, <3>1
  <2>2. CASE i \in Autos /\ j \notin Autos
    <3>1. items[j].value \in Given
      BY <2>2 DEF Given
    <3> QED
      BY <1>1, <1>2, <1>3, <1>5, <2>2, <3>1
  <2>3. CASE i \notin Autos /\ j \in Autos
    <3>1. items[i].value \in Given
      BY <2>3 DEF Given
    <3> QED
      BY <1>1, <1>2, <1>3, <1>5, <2>3, <3>1
  <2>4. CASE i \notin Autos /\ j \notin Autos
    BY <1>1, <1>6, <2>4 DEF IInv, GivenDiffer
  <2> QED
    BY <2>1, <2>2, <2>3, <2>4
<1> QED
  BY <1>1, <1>6 DEF ValuesDiffer

\* A step of one of the three declarations is a step of the enumeration or
\* leaves it alone, so that the invariant is one of both specifications.
THEOREM Invariance == ValuesSpec => []IInv
<1>1. ValuesInit => IInv
  BY InitIInv DEF ValuesInit
<1>2. IInv /\ [ValuesNext]_<<vars, declVars>> => IInv'
  BY StepIInv DEF ValuesNext
<1> QED
  BY <1>1, <1>2, PTL DEF ValuesSpec

\* The items, their values and the loop's position are what the C code has
\* them be, in both passes.
THEOREM TypeCorrect == ValuesSpec => []TypeOK
<1>1. IInv => TypeOK
  BY DEF IInv
<1> QED
  BY <1>1, Invariance, PTL

\* The values of a finished enumeration are different, so that the switches
\* generated for it have no case twice.
THEOREM EnumValuesDiffer == ValuesSpec => []ValuesDiffer
  BY IInvValuesDiffer, Invariance, PTL

\* Automatic values are what the manual promises, in order and from the
\* greatest value given, and a signed overflow is always on the way to an
\* error.
THEOREM EnumAutosFollow == ValuesSpec => []AutosFollow
  BY IInvAutosFollow, Invariance, PTL

\* The same of enumerations by themselves.
THEOREM EnumItemsCorrect == Spec => [](ValuesDiffer /\ AutosFollow)
<1>1. Spec => []IInv
  BY InitIInv, StepIInv, PTL DEF Spec
<1> QED
  BY <1>1, IInvValuesDiffer, IInvAutosFollow, PTL
------------------------------------------------------------------------------
(* The validators printed of the declarations. *)

\* Limits are declared of fields only, each of an operator and an integer.
Declared ==
  /\ decl \in {"enum", "bits", "field"}
  /\ ftype \in FieldType \cup {"enum"}
  /\ ftype = "enum" => decl = "enum"
  /\ limits \in Seq(Limit)
  /\ decl # "field" => limits = <<>>

\* No step declares a limit of anything but a field.
LEMMA StepDeclared == Declared /\ [ValuesNext]_<<vars, declVars>> => Declared'
<1> SUFFICES ASSUME Declared, [ValuesNext]_<<vars, declVars>> PROVE Declared'
  OBVIOUS
<1>1. CASE UNCHANGED declVars
  BY <1>1 DEF Declared, declVars
<1>2. ASSUME NEW l \in Limit, ReadLimit(l) PROVE Declared'
  <2>1. limits' = Append(limits, l) /\ decl = "field" /\ UNCHANGED <<decl, ftype>>
    BY <1>2 DEF ReadLimit, Open
  <2>2. limits' \in Seq(Limit)
    BY <2>1 DEF Declared
  <2> QED
    BY <2>1, <2>2 DEF Declared
<1>3. CASE CloseBits \/ CloseField \/ \E v \in -1..Width : ReadBit(v)
  <2>1. UNCHANGED <<decl, ftype, limits>>
    BY <1>3 DEF CloseBits, CloseField, ReadBit
  <2> QED
    BY <2>1 DEF Declared
<1> QED
  BY <1>1, <1>2, <1>3 DEF ValuesNext, declVars

\* A limit is checked by the clause it is or by the one it fails by.
LEMMA FailsHolds ==
  ASSUME NEW l \in Limit, NEW x \in Int
  PROVE  Fails(l.op, x, l.value) <=> ~Holds(l.op, x, l.value)
<1>1. l.value \in Int /\ l.op \in {"ge", "le", "gt", "lt", "eq"}
  BY EnumItemsAssumption DEF Limit, Int64
<1> QED
  BY <1>1 DEF Fails, Holds

\* A request is an integer, and what BigInt.asIntN() makes of one that fits
\* 64 bits, signed or not, fits them signed.
LEMMA SignedFits ==
  /\ \A x \in Requests : x \in Int
  /\ \A x \in MinInt..MaxUint : AsInt(x) \in Int64
  /\ \A x \in MinInt..MaxUint : x <= MaxInt => AsInt(x) = x /\ x \in Int64
<1>1. MinInt \in Int /\ MaxInt \in Nat /\ MaxInt + MinInt = -1 /\ MaxUint = MaxInt - MinInt
  BY EnumItemsAssumption, ValuesAssumption DEF MaxUint
<1>2. \A x \in Requests : x \in Int
  BY <1>1 DEF Requests
<1> HIDE DEF MaxUint
<1>3. \A x \in MinInt..MaxUint : AsInt(x) = IF x > MaxInt THEN x - MaxUint - 1 ELSE x
  BY DEF AsInt
<1> QED
  BY <1>1, <1>2, <1>3 DEF Int64

\* Limits hold where none of them fails.
LEMMA LimitsAlike ==
  ASSUME Declared, NEW x \in Int
  PROVE  NodeLimits(x) <=> (ftype \notin {"enum", "email"} =>
           \A i \in DOMAIN limits : ~Fails(limits[i].op, x, limits[i].value))
<1>1. \A i \in DOMAIN limits : limits[i] \in Limit
  BY DEF Declared
<1>2. \A i \in DOMAIN limits :
        Holds(limits[i].op, x, limits[i].value) <=> ~Fails(limits[i].op, x, limits[i].value)
  BY <1>1, FailsHolds
<1> QED
  BY <1>2 DEF NodeLimits

\* The two validators agree, with values that are those of the items.
LEMMA DeclaredSame == IInv /\ Declared => SameStored /\ StoredStays
<1> SUFFICES ASSUME IInv, Declared PROVE SameStored /\ StoredStays
  OBVIOUS
<1> DEFINE met(y) == \A i \in DOMAIN limits : ~Fails(limits[i].op, y, limits[i].value)
<1>1. Values \subseteq Int64
  <2>1. \A i \in DOMAIN items : items[i].value \in Int64
    BY ItemsType DEF IInv, Item
  <2> QED
    BY <2>1 DEF Values
<1>2. \A x : CStores(x) = IF KValid(x) /\ (ftype = "enum" => x \in Values) /\ met(x)
                          THEN {x} ELSE {}
  BY DEF CStores
<1>3. \A x \in Int : NodeLimits(x) <=> (ftype \notin {"enum", "email"} => met(x))
  BY LimitsAlike
<1>4. limits = <<>> => \A x : met(x)
  OBVIOUS
<1> HIDE DEF met
<1>5. ftype = "enum" => limits = <<>>
  BY DEF Declared
<1>6. ASSUME NEW x \in Requests, Common(x) PROVE CStores(x) = NodeStores(x)
  <2>1. x \in Int
    BY SignedFits
  <2>2. MaxInt \in Int /\ MinInt \in Int /\ MaxUint \in Int /\ MaxInt < MaxUint
    BY EnumItemsAssumption DEF MaxUint
  <2>3. ftype = "bits" => ~(x > MaxInt) /\ (x \in MinInt..MaxUint <=> x \in Int64)
    BY <1>6, <2>1, <2>2 DEF Common, Int64
  <2>4. NodeTakes(x) => NodeMakes(x) = x
    BY <2>1, <2>2, <2>3, SignedFits DEF NodeTakes, NodeMakes
  <2>5. NodeTakes(x) <=> KValid(x) /\ (ftype = "enum" => x \in Values)
    BY <1>1, <2>3 DEF NodeTakes, KValid
  <2>6. NodeLimits(x) <=> met(x)
    BY <1>3, <1>4, <1>5, <1>6, <2>1 DEF Common
  <2> QED
    BY <1>2, <2>4, <2>5, <2>6 DEF NodeStores
<1>7. ASSUME ftype = "bits", NEW x \in Requests, NEW y \in NodeStores(x)
      PROVE  CStores(y) = {y}
  <2>1. NodeTakes(x) /\ NodeLimits(y) /\ y = AsInt(x)
    BY <1>7 DEF NodeStores, NodeMakes
  <2>2. y \in Int64 /\ y \in Int
    BY <1>7, <2>1, SignedFits, EnumItemsAssumption DEF NodeTakes, Int64
  <2>3. met(y)
    BY <1>3, <1>7, <2>1, <2>2
  <2> QED
    BY <1>2, <1>7, <2>2, <2>3 DEF KValid
<1> QED
  BY <1>6, <1>7 DEF SameStored, StoredStays

------------------------------------------------------------------------------
(* Bits.  Powers of two are not known to the provers: what is needed of them *)
(* comes from the loop that doubles.                                         *)

\* The loop for n is the one for n - 1, and one more turn.
LEMMA PowerStep ==
  /\ Pow2(0) = 1
  /\ \A e \in Nat : Pow2(e) \in Nat \ {0} /\ Pow2(e + 1) = 2 * Pow2(e)
<1> DEFINE Body(e, g) == [i \in 0..e |-> IF i = 0 THEN 1 ELSE 2 * g[i - 1]]
           Power(e) == CHOOSE g : g = Body(e, g)
<1>1. \A e \in Nat : Pow2(e) = Power(e)[e]
  BY DEF Pow2
<1>2. ASSUME NEW e \in Nat
      PROVE  Power(e)[0] = 1 /\ \A i \in 1..e : Power(e)[i] = 2 * Power(e)[i - 1]
  <2> DEFINE double == [i \in 1..e |-> [x \in Nat |-> 2 * x]]
  <2>1. double \in Steps(Nat, e)
    BY DEF Steps
  <2> HIDE DEF double
  <2>2. Courses(Nat, 1, e, double) # {}
    BY <2>1, LoopRuns
  <2>3. PICK f \in [0..e -> Nat] : f[0] = 1 /\ \A i \in 1..e : f[i] = double[i][f[i - 1]]
    BY <2>2 DEF Courses
  <2>4. ASSUME NEW i \in 0..e PROVE f[i] = IF i = 0 THEN 1 ELSE 2 * f[i - 1]
    <3>1. CASE i = 0
      BY <2>3, <3>1
    <3>2. CASE i # 0
      <4>1. i \in 1..e /\ i - 1 \in 0..e
        BY <3>2
      <4>2. f[i] = double[i][f[i - 1]] /\ f[i - 1] \in Nat
        BY <2>3, <4>1
      <4> QED
        BY <3>2, <4>1, <4>2 DEF double
    <3> QED
      BY <3>1, <3>2
  <2>5. f = Body(e, f)
    BY <2>4
  <2> DEFINE u == Power(e)
  <2>6. u = Body(e, u)
    <3> HIDE DEF Body
    <3> QED
      BY <2>5
  <2> HIDE DEF u, Power
  <2>7. u[0] = 1
    BY <2>6
  <2>8. ASSUME NEW i \in 1..e PROVE u[i] = 2 * u[i - 1]
    <3>1. i \in 0..e /\ i # 0
      OBVIOUS
    <3> QED
      BY <2>6, <3>1
  <2> QED
    BY <2>7, <2>8 DEF u
<1> HIDE DEF Power
<1>3. ASSUME NEW e \in Nat, NEW m \in Nat, e <= m
      PROVE  \A i \in 0..e : Power(m)[i] = Power(e)[i] /\ Power(e)[i] \in Nat \ {0}
  <2> DEFINE Bad == {i \in 0..e : ~(Power(m)[i] = Power(e)[i] /\ Power(e)[i] \in Nat \ {0})}
  <2>1. SUFFICES ASSUME Bad # {} PROVE FALSE
    OBVIOUS
  <2>2. PICK k \in Bad : \A j \in Bad : k <= j
    <3>1. Bad \in SUBSET Nat
      OBVIOUS
    <3> HIDE DEF Bad
    <3> QED
      BY <2>1, <3>1, LeastNatural
  <2>3. k # 0
    BY <1>2
  <2>4. k \in 1..e /\ k \in 1..m /\ k - 1 \in 0..e /\ ~(k <= k - 1)
    BY <1>3, <2>3
  <2>5. Power(m)[k - 1] = Power(e)[k - 1] /\ Power(e)[k - 1] \in Nat \ {0}
    BY <2>2, <2>4
  <2>6. Power(m)[k] = 2 * Power(m)[k - 1] /\ Power(e)[k] = 2 * Power(e)[k - 1]
    BY <1>2, <2>4
  <2>7. Power(m)[k] = Power(e)[k] /\ Power(e)[k] \in Nat \ {0}
    BY <2>5, <2>6
  <2> QED
    BY <2>2, <2>7
<1>4. ASSUME NEW e \in Nat PROVE Pow2(e) \in Nat \ {0} /\ Pow2(e + 1) = 2 * Pow2(e)
  <2>1. e \in 0..e /\ e + 1 \in Nat /\ e <= e + 1 /\ e + 1 \in 1..e + 1 /\ e + 1 - 1 = e
    OBVIOUS
  <2>2. Power(e + 1)[e] = Power(e)[e] /\ Power(e)[e] \in Nat \ {0}
    BY <1>3, <2>1
  <2>3. Power(e + 1)[e + 1] = 2 * Power(e + 1)[e]
    BY <1>2, <2>1
  <2> QED
    BY <1>1, <2>1, <2>2, <2>3
<1> QED
  BY <1>1, <1>2, <1>4

\* A higher power is an even multiple of a lower one.
LEMMA PowerDivides ==
  ASSUME NEW m \in Nat, NEW e \in Nat, m < e
  PROVE  \E k \in Nat \ {0} : Pow2(e) = Pow2(m) * (2 * k)
<1> DEFINE Even(j) == \E k \in Nat \ {0} : Pow2(j) = Pow2(m) * (2 * k)
           Bad == {j \in Nat : j > m /\ ~Even(j)}
<1>1. SUFFICES ASSUME Bad # {} PROVE FALSE
  OBVIOUS
<1>2. PICK j \in Bad : \A i \in Bad : j <= i
  <2>1. Bad \in SUBSET Nat
    OBVIOUS
  <2> HIDE DEF Bad
  <2> QED
    BY <1>1, <2>1, LeastNatural
<1>3. j - 1 \in Nat /\ j - 1 + 1 = j /\ j - 1 >= m /\ ~(j <= j - 1)
  OBVIOUS
<1>4. Pow2(j) = 2 * Pow2(j - 1) /\ Pow2(m) \in Nat /\ Pow2(j - 1) \in Nat
  BY <1>3, PowerStep
<1>5. CASE j - 1 = m
  <2>1. Pow2(j) = Pow2(m) * (2 * 1)
    BY <1>4, <1>5
  <2> QED
    BY <2>1
<1>6. CASE j - 1 # m
  <2>1. Even(j - 1)
    BY <1>2, <1>3, <1>6
  <2>2. PICK k \in Nat \ {0} : Pow2(j - 1) = Pow2(m) * (2 * k)
    BY <2>1
  <2>3. Pow2(j) = Pow2(m) * (2 * (2 * k)) /\ 2 * k \in Nat \ {0}
    BY <1>4, <2>2
  <2> QED
    BY <2>3
<1> QED
  BY <1>5, <1>6

\* Division has a result, and but one.
LEMMA Divides ==
  ASSUME NEW x \in Int, NEW d \in Nat \ {0}
  PROVE  x \div d \in Int /\ x % d \in 0..d - 1 /\ x = d * (x \div d) + (x % d)
OBVIOUS

LEMMA DivisionIs ==
  ASSUME NEW x \in Int, NEW d \in Nat \ {0}, NEW q \in Int, NEW r \in 0..d - 1, x = d * q + r
  PROVE  x \div d = q /\ x % d = r
OBVIOUS

\* The bit below the width is that of the number itself, which may be given or
\* taken the range of integers, as a signed number is made of an unsigned one.
LEMMA BitKept ==
  ASSUME NEW x \in Int, NEW y \in Int, y = x \/ y = x - Pow2(Width), NEW v \in 0..Width - 1
  PROVE  HasBit(y, Mask(v)) <=> (x \div Pow2(v)) % 2 = 1
<1>1. Width \in Nat /\ v \in Nat /\ v < Width
  BY ValuesAssumption
<1>2. PICK W \in Nat \ {0} : W = Pow2(Width)
  BY <1>1, PowerStep
<1>3. PICK V \in Nat \ {0} : V = Pow2(v)
  BY <1>1, PowerStep
<1>4. PICK k \in Nat \ {0} : W = V * (2 * k)
  BY <1>1, <1>2, <1>3, PowerDivides
<1>5. PICK q \in Int, r \in 0..W - 1 : y = W * q + r /\ y % W = r
  BY Divides
<1>6. PICK p \in Int : x = W * p + r
  <2>1. CASE y = x
    BY <1>5, <2>1
  <2>2. CASE y = x - W
    <3>1. x = W * (q + 1) + r
      BY <1>5, <2>2
    <3> QED
      BY <3>1
  <2> QED
    BY <1>2, <2>1, <2>2
<1>7. PICK a \in Int, b \in 0..V - 1 : r = V * a + b /\ r \div V = a
  <2>1. r \in Int
    OBVIOUS
  <2>2. r \div V \in Int /\ r % V \in 0..V - 1 /\ r = V * (r \div V) + (r % V)
    BY <2>1, Divides
  <2> QED
    BY <2>2
<1>8. x = V * ((2 * k) * p + a) + b
  <2>1. W * p = V * ((2 * k) * p)
    BY <1>4
  <2>2. V * ((2 * k) * p + a) = V * ((2 * k) * p) + V * a
    OBVIOUS
  <2>3. (2 * k) * p \in Int /\ V * ((2 * k) * p) \in Int /\ V * a \in Int /\ W * p \in Int
    OBVIOUS
  <2> QED
    BY <1>6, <1>7, <2>1, <2>2, <2>3
<1>9. x \div V = (2 * k) * p + a
  <2>1. (2 * k) * p + a \in Int
    OBVIOUS
  <2> QED
    BY <1>8, <2>1, DivisionIs
<1>10. ((2 * k) * p + a) % 2 = a % 2
  <2>1. PICK e \in Int : e = k * p
    OBVIOUS
  <2>2. (2 * k) * p = 2 * e
    BY <2>1
  <2>3. (2 * e + a) % 2 = a % 2
    OBVIOUS
  <2> QED
    BY <2>2, <2>3
<1>11. HasBit(y, Mask(v)) <=> a % 2 = 1
  BY <1>2, <1>3, <1>5, <1>7 DEF HasBit, Mask
<1> QED
  BY <1>3, <1>9, <1>10, <1>11

\* The masks of two items have no bit in common.
LEMMA MasksApart ==
  ASSUME NEW v \in 0..Width - 1, NEW w \in 0..Width - 1, v # w
  PROVE  ~HasBit(Mask(v), Mask(w))
<1>1. Width \in Nat /\ v \in Nat /\ w \in Nat /\ v < Width
  BY ValuesAssumption
<1>2. PICK W \in Nat \ {0} : W = Pow2(Width)
  BY <1>1, PowerStep
<1>3. PICK V \in Nat \ {0}, U \in Nat \ {0} : V = Pow2(v) /\ U = Pow2(w)
  BY <1>1, PowerStep
<1>4. V % W = V
  <2>1. PICK k \in Nat \ {0} : W = V * (2 * k)
    BY <1>1, <1>2, <1>3, PowerDivides
  <2>2. V < W
    BY <2>1
  <2>3. V \in 0..W - 1 /\ V = W * 0 + V
    BY <2>2
  <2>4. 0 \in Int /\ V \in Int
    OBVIOUS
  <2> QED
    BY <2>3, <2>4, DivisionIs
<1>5. CASE v < w
  <2>1. PICK k \in Nat \ {0} : U = V * (2 * k)
    BY <1>1, <1>3, <1>5, PowerDivides
  <2>2. V < U
    BY <2>1
  <2>3. V \in 0..U - 1 /\ V = U * 0 + V
    BY <2>2
  <2>4. V \div U = 0
    BY <2>3, DivisionIs
  <2> QED
    BY <1>2, <1>3, <1>4, <2>4 DEF HasBit, Mask
<1>6. CASE w < v
  <2>1. PICK k \in Nat \ {0} : V = U * (2 * k)
    BY <1>1, <1>3, <1>6, PowerDivides
  <2>2. V \div U = 2 * k
    <3>1. 2 * k \in Int /\ 0 \in 0..U - 1 /\ V = U * (2 * k) + 0
      BY <2>1
    <3> QED
      BY <3>1, DivisionIs
  <2>3. (2 * k) % 2 = 0
    OBVIOUS
  <2> QED
    BY <1>2, <1>3, <1>4, <2>2, <2>3 DEF HasBit, Mask
<1> QED
  BY <1>1, <1>5, <1>6

\* Indices that were not refused are below the width.
Indexed ==
  /\ decl # "bits" => bits = <<>>
  /\ ~bad => bits \in Seq(0..Width - 1)

\* Each step that reads an index takes it or has an error.
LEMMA StepIndexed == Indexed /\ [ValuesNext]_<<vars, declVars>> => Indexed'
<1> SUFFICES ASSUME Indexed, [ValuesNext]_<<vars, declVars>> PROVE Indexed'
  OBVIOUS
<1>1. CASE UNCHANGED declVars
  BY <1>1 DEF Indexed, declVars
<1>2. ASSUME NEW v \in -1..Width, ReadBit(v) PROVE Indexed'
  <2>1. decl = "bits" /\ decl' = decl /\ ~bad /\ bits' = Append(bits, v) /\ bad' = BadIndex(v)
    BY <1>2 DEF ReadBit, Open
  <2>2. ~BadIndex(v) => v \in 0..Width - 1
    BY ValuesAssumption DEF BadIndex
  <2>3. ~BadIndex(v) => bits' \in Seq(0..Width - 1)
    BY <2>1, <2>2, AppendProperties DEF Indexed
  <2> QED
    BY <2>1, <2>3 DEF Indexed
<1>3. CASE CloseBits \/ CloseField \/ \E l \in Limit : ReadLimit(l)
  <2>1. UNCHANGED <<decl, bits>> /\ ~bad
    BY <1>3 DEF CloseBits, CloseField, ReadLimit, Open
  <2> QED
    BY <2>1 DEF Indexed
<1> QED
  BY <1>1, <1>2, <1>3 DEF ValuesNext, declVars

\* Every item finds its bit.
LEMMA IndexedFound == Declared /\ Indexed => BitsFound
<1> SUFFICES ASSUME Declared, Indexed, Accepted PROVE BitsFound
  BY DEF BitsFound
<1>1. \A v \in Range(bits) : v \in 0..Width - 1
  <2>1. bits \in Seq(0..Width - 1)
    <3>1. CASE decl = "enum"
      <4>1. bits = <<>>
        BY <3>1 DEF Indexed
      <4> QED
        BY <4>1, EmptySeq
    <3>2. CASE decl # "enum"
      BY <3>2 DEF Indexed, Accepted
    <3> QED
      BY <3>1, <3>2
  <2>2. PICK s \in Seq(0..Width - 1) : s = bits
    BY <2>1
  <2>3. \A j \in DOMAIN s : s[j] \in 0..Width - 1
    BY ElementOfSeq, LenProperties
  <2> QED
    BY <2>2, <2>3 DEF Range
<1>2. ASSUME ftype = "bits", NEW x \in Requests, NEW y \in NodeStores(x), NEW v \in Range(bits)
      PROVE  HasBit(y, Mask(v)) = ((x \div Pow2(v)) % 2 = 1)
  <2>1. y = AsInt(x) /\ x \in MinInt..MaxUint /\ x \in Int
    BY <1>2, SignedFits DEF NodeStores, NodeMakes, NodeTakes
  <2>2. MaxUint \in Int /\ MaxUint + 1 = Pow2(Width) /\ MaxInt \in Int
    BY EnumItemsAssumption, ValuesAssumption DEF MaxUint
  <2>3. y \in Int /\ (y = x \/ y = x - Pow2(Width))
    <3> HIDE DEF MaxUint
    <3>1. y = IF x > MaxInt THEN x - MaxUint - 1 ELSE x
      BY <2>1 DEF AsInt
    <3> QED
      BY <2>1, <2>2, <3>1
  <2>4. HasBit(y, Mask(v)) <=> (x \div Pow2(v)) % 2 = 1
    BY <1>1, <2>1, <2>3, BitKept
  <2> QED
    BY <2>4 DEF HasBit
<1>3. \A v, w \in Range(bits) : v # w => ~HasBit(Mask(v), Mask(w))
  BY <1>1, MasksApart
<1> QED
  BY <1>2, <1>3 DEF BitsFound
------------------------------------------------------------------------------
\* Whatever the declarations and the width, the C and the Node.js validator
\* let the same values through where both have limits; of a bitfield what
\* Node.js stores C would take, and each item finds its bit in it.
THEOREM ValidatorsAgree == ValuesSpec => []ValidsAgree
<1>1. ValuesInit => Declared /\ Indexed
  <2> SUFFICES ASSUME ValuesInit PROVE Declared /\ Indexed
    OBVIOUS
  <2>1. ftype \in FieldType \cup {"enum"} /\ (ftype = "enum" => decl = "enum")
    BY DEF ValuesInit, FieldType, Length
  <2> QED
    BY <2>1 DEF ValuesInit, Declared, Indexed
<1>2. ValuesSpec => []Declared
  BY <1>1, StepDeclared, PTL DEF ValuesSpec
<1>3. ValuesSpec => []Indexed
  BY <1>1, StepIndexed, PTL DEF ValuesSpec
<1>4. IInv /\ Declared /\ Indexed => ValidsAgree
  BY DeclaredSame, IndexedFound DEF ValidsAgree
<1> QED
  BY <1>2, <1>3, <1>4, Invariance, PTL
==============================================================================
