--------------------------- MODULE QueryCallProofs ---------------------------
(***************************************************************************)
(* What the runs of QueryCall check with four fields and terms, proved for *)
(* operations of any length: the walks that the generators make over an    *)
(* operation, each with a counter of its own, stay in step.                *)
(***************************************************************************)
EXTENDS QueryCall, SequenceTheorems, CountLemmas

(* The terms that each walk counts. *)

Binary == {n \in DOMAIN terms : IsBinary(terms[n])}
WithParm == {n \in DOMAIN terms : HasParm(n)}
SetHashed == {n \in DOMAIN terms : IsSet(n) /\ terms[n] = "hashed"}

\* What the type invariant says of the terms, in the form the proofs use.
LEMMA TermsType ==
  ASSUME TypeOK
  PROVE  /\ Len(terms) \in Nat /\ DOMAIN terms = 1..Len(terms)
         /\ \A n \in DOMAIN terms : terms[n] \in Term
         /\ nset \in 0..Len(terms)
         /\ terms \in Seq(Term)
<1>1. PICK m \in 0..MaxTerms : terms \in [1..m -> Term]
  BY DEF TypeOK, BoundedSeq, SeqOf
<1>2. terms \in Seq(Term) /\ Len(terms) = m
  BY <1>1, QueryCallAssumption
<1> QED
  BY <1>1, <1>2 DEF TypeOK

\* The model counts arguments and slots as Count does.
LEMMA Counts ==
  ASSUME TypeOK, NEW n \in 0..Len(terms)
  PROVE  /\ ArgOf(n) = Count(Binary, n)
         /\ SlotOf(n) = Count(WithParm, n)
<1>1. Len(terms) \in Nat /\ DOMAIN terms = 1..Len(terms)
  BY TermsType
<1>2. {m \in 1..n : IsBinary(terms[m])} = {m \in 1..n : m \in Binary}
  BY <1>1 DEF Binary
<1>3. {m \in 1..n : HasParm(m)} = {m \in 1..n : m \in WithParm}
  BY <1>1 DEF WithParm
<1> QED
  BY <1>2, <1>3 DEF ArgOf, SlotOf, Count

\* The statement has a "?" for each term with a parameter, and parms[] a slot.
LEMMA ParmsCount ==
  ASSUME TypeOK
  PROVE  Parms = SlotOf(Len(terms)) /\ Where(HasParm) = WithParm
<1>1. Len(terms) \in Nat /\ DOMAIN terms = 1..Len(terms)
  BY TermsType
<1>2. Where(HasParm) = {n \in 1..Len(terms) : HasParm(n)}
  BY <1>1 DEF Where
<1> QED
  BY <1>1, <1>2 DEF Parms, SlotOf, WithParm

\* The terms of passwords to verify, without the operator parameter of Where,
\* which the provers do not expand.
LEMMA HashedDef == Hashed = {n \in DOMAIN terms : terms[n] = "hashed" /\ ~IsSet(n)}
  BY DEF Hashed, Where

\* As HashedDef, for the arguments of fields to set.
LEMMA PointersDef == Pointers = {ArgOf(n) : n \in {m \in DOMAIN terms : IsSet(m) /\ IsBinary(terms[m])}}
  BY DEF Pointers, Where
------------------------------------------------------------------------------
(***************************************************************************)
(* The inductive invariant: where each counter is when a walk has passed   *)
(* i - 1 terms, and what it has done for them.                             *)
(***************************************************************************)

\* Node.js pushes an argument for every term, db_foo_iterate() moves on for
\* every term; the other functions move on for every "?".
ByArgument == lang = "node" \/ fn = "iterate"
Given == IF ByArgument THEN Binary ELSE WithParm

\* What is bound for term n.
What(n) ==
  IF Count(Binary, n) \in nulls THEN Null
  ELSE IF terms[n] = "hashed" THEN Hash(Count(Binary, n)) ELSE Arg(Count(Binary, n))

\* Buffers are numbered in the order of the passwords among the fields.
Buffered(n) ==
  \A m \in SetHashed :
    m <= n /\ Count(Binary, m) \notin nulls =>
      /\ Count(SetHashed, m) \in DOMAIN hashes
      /\ hashes[Count(SetHashed, m)] = Count(Binary, m)

HashWalk ==
  phase = "hash" =>
    /\ lang = "c" /\ fn \in {"insert", "update"}
    /\ i <= nset + 1 /\ pos = 1
    /\ idx = Count(Binary, i - 1) + 1 /\ hpos = Count(SetHashed, i - 1) + 1
    /\ Buffered(i - 1)
    /\ DOMAIN parms = {}

\* The parameters set for the first n terms.
Filled(n) ==
  /\ DOMAIN parms = 1..Count(Given, n)
  /\ \A m \in Given : m <= n => parms[Count(Given, m)] = What(m)

\* db_foo_iterate() in C binds in the right place if nothing is verified.
InPlace == lang = "c" /\ fn = "iterate" => Hashed = {}

BindWalk ==
  phase = "bind" =>
    /\ lang = "c" => hpos = Count(SetHashed, i - 1) + 1 /\ Buffered(nset)
    /\ idx = Count(Given, i - 1) + 1
    /\ pos = 1 + Count(IF lang = "c" /\ fn = "iterate" THEN WithParm ELSE Binary, i - 1)
    /\ DOMAIN parms \subseteq 1..Count(Given, i - 1)
    /\ InPlace => Filled(i - 1)

\* Once the walk is over the parameters stay, and Node.js gets past the
\* statement only without a password to verify.
Settled ==
  /\ Accepted /\ InPlace => Filled(Len(terms))
  /\ Accepted /\ lang = "node" => Hashed = {}
  /\ phase = "step" => fn \in Search

\* The walk that verifies passwords.
CheckWalk ==
  phase = "check" =>
    /\ lang = "c" /\ fn \in Search
    /\ pos = Count(Binary, i - 1) + 1
    /\ p \in {"filled", "null"}
    /\ p = "filled" => \A n \in Hashed : n <= i - 1 => n \in good

OutVerified == \A n \in DOMAIN out : out[n] = Hashed

\* What was filled and not released or handed out; no statement is open
\* before the walks are over.
Balance ==
  /\ live = IF phase = "check" /\ p = "filled" THEN 1 ELSE 0
  /\ Len(out) + live <= rows
  /\ phase \in {"hash", "bind", "return"} => open = 0

IInv ==
  /\ TypeOK /\ WellFormed
  /\ HashWalk /\ BindWalk /\ Settled
  /\ CheckWalk /\ OutVerified /\ Balance
  /\ OwnStatement /\ RefusedKnown
------------------------------------------------------------------------------
\* What the definitions above say depends on the call alone.
LEMMA CallKept ==
  ASSUME UNCHANGED call
  PROVE  /\ Binary' = Binary /\ WithParm' = WithParm /\ SetHashed' = SetHashed
         /\ Given' = Given /\ Hashed' = Hashed /\ Pointers' = Pointers
         /\ (WellFormed <=> WellFormed') /\ (InPlace <=> InPlace')
         /\ Parses' = Parses
<1> USE DEF call
<1>1. Binary' = Binary /\ SetHashed' = SetHashed
  BY DEF Binary, SetHashed, IsBinary, IsSet
<1>2. WithParm' = WithParm
  BY DEF WithParm, HasParm, IsBinary, IsSet, CountBind
<1>3. Given' = Given
  BY <1>1, <1>2 DEF Given, ByArgument
<1>4. Hashed' = Hashed
  BY DEF Hashed, Where, IsSet
<1>5. Pointers' = Pointers
  BY DEF Pointers, Where, IsSet, IsBinary, ArgOf
<1>6. WellFormed <=> WellFormed'
  BY <1>4 DEF WellFormed, IsSet
<1>7. (InPlace <=> InPlace') /\ Parses' = Parses
  BY <1>4 DEF InPlace, Parses
<1> QED
  BY <1>1, <1>2, <1>3, <1>4, <1>5, <1>6, <1>7

\* Where no password is verified each term given an argument has a "?".
LEMMA NoHashed ==
  ASSUME TypeOK, Hashed = {}
  PROVE  WithParm = Binary /\ Given = Binary
<1>1. \A n \in DOMAIN terms : ~IsSet(n) => terms[n] # "hashed"
  BY HashedDef
<1>2. WithParm = Binary
  BY <1>1 DEF WithParm, Binary, HasParm, CountBind
<1> QED
  BY <1>2 DEF Given

\* They are numbered by their place in the signature.
LEMMA PointersBinary ==
  ASSUME TypeOK
  PROVE  Pointers = {Count(Binary, n) : n \in {m \in Binary : IsSet(m)}}
<1>1. \A n \in DOMAIN terms : ArgOf(n) = Count(Binary, n)
  BY Counts, TermsType
<1>2. {m \in Binary : IsSet(m)} = {m \in DOMAIN terms : IsSet(m) /\ IsBinary(terms[m])}
  BY DEF Binary
<1> QED
  BY <1>1, <1>2, PointersDef

\* The argument of a term that selects rows is no pointer that may be NULL.
LEMMA TermsGiven ==
  ASSUME TypeOK, NEW n \in Binary, ~IsSet(n)
  PROVE  Count(Binary, n) \notin nulls
<1>1. SUFFICES ASSUME NEW m \in Binary, IsSet(m), Count(Binary, n) = Count(Binary, m)
               PROVE  FALSE
  BY PointersBinary DEF TypeOK
<1>2. m < n /\ m \in Nat /\ n \in Nat
  BY <1>1, TermsType DEF Binary, IsSet
<1>3. Count(Binary, m) < Count(Binary, n)
  BY <1>2, CountMonotonic
<1> QED
  BY <1>1, <1>2, <1>3, CountType
------------------------------------------------------------------------------
(* Hashing and binding. *)

\* A call starts with nothing hashed, bound, opened or filled.
LEMMA InitIInv == Init => IInv
<1> SUFFICES ASSUME Init PROVE IInv
  OBVIOUS
<1>1. TypeOK
  BY QueryCallAssumption DEF Init, TypeOK, Ended, BoundedSeq, SeqOf, Range
<1>2. nset \in Nat /\ i - 1 = 0 /\ \A n \in DOMAIN terms : n \in Nat \ {0}
  BY <1>1, TermsType DEF Init
<1>3. \A T : Count(T, i - 1) = 0
  BY <1>2, CountType
<1>5. HashWalk
  BY <1>2, <1>3 DEF Init, HashWalk, Buffered, SetHashed
<1>6. BindWalk
  <2>1. Filled(i - 1)
    BY <1>2, <1>3 DEF Init, Filled, Given, Binary, WithParm
  <2>2. ASSUME phase = "bind", lang = "c" PROVE SetHashed = {}
    <3>1. nset = 0
      BY <2>2 DEF Init, WellFormed, Search, Write
    <3> QED
      BY <1>2, <3>1 DEF SetHashed, IsSet
  <2> QED
    BY <1>3, <2>1, <2>2 DEF Init, BindWalk, Filled, Buffered
<1>7. Settled /\ CheckWalk /\ OutVerified /\ Balance /\ OwnStatement /\ RefusedKnown
  BY DEF Init, Settled, CheckWalk, OutVerified, Balance, OwnStatement, RefusedKnown, Accepted
<1> QED
  BY <1>1, <1>5, <1>6, <1>7 DEF IInv, Init

\* What the walks keep: they change counters and arrays only.
Quiet == phase \in {"hash", "bind"} /\ phase' \in {"hash", "bind"}

\* A turn of a walk touches no row, statement or object.
LEMMA WalkKeeps ==
  ASSUME IInv, Quiet, UNCHANGED <<call, statement, result>>
  PROVE  /\ WellFormed' /\ Settled' /\ CheckWalk' /\ OutVerified' /\ Balance'
         /\ OwnStatement' /\ RefusedKnown'
<1>1. Hashed' = Hashed /\ WellFormed'
  BY CallKept DEF IInv
<1>2. Settled' /\ CheckWalk' /\ RefusedKnown'
  BY DEF Quiet, Settled, CheckWalk, RefusedKnown, Accepted
<1>3. OutVerified' /\ OwnStatement'
  BY <1>1 DEF IInv, OutVerified, OwnStatement, result, statement
<1>4. Balance'
  BY DEF IInv, Balance, Quiet, result, statement
<1> QED
  BY <1>1, <1>2, <1>3, <1>4

\* Hashing a field.
LEMMA HashPassIInv ==
  ASSUME IInv, HashPass
  PROVE  IInv'
<1> DEFINE B(n) == Count(Binary, n)
           H(n) == Count(SetHashed, n)
<1>1. /\ i \in Nat \ {0} /\ nset \in 0..Len(terms) /\ i \in DOMAIN terms /\ i <= nset
      /\ Len(terms) \in Nat /\ DOMAIN terms = 1..Len(terms)
  BY TermsType DEF HashPass, Hashing, IInv, TypeOK
<1>2. i \in Binary /\ (i \in SetHashed <=> terms[i] = "hashed")
  BY <1>1 DEF HashPass, Binary, SetHashed, IsSet
<1>3. /\ B(i) = B(i - 1) + 1 /\ B(i) <= i /\ B(i - 1) \in Nat
      /\ H(i) = H(i - 1) + IF terms[i] = "hashed" THEN 1 ELSE 0
      /\ H(i) <= i /\ H(i - 1) \in Nat
  BY <1>1, <1>2, CountStep, CountType
<1>4. idx = B(i) /\ hpos = H(i - 1) + 1
  BY <1>3 DEF IInv, HashWalk, HashPass, Hashing
<1>5. Binary' = Binary /\ SetHashed' = SetHashed /\ Pointers' = Pointers /\ Hashed' = Hashed
  BY CallKept DEF HashPass
<1>6. i' - 1 = i /\ idx' = B(i' - 1) + 1 /\ hpos' = H(i' - 1) + 1
  BY <1>1, <1>2, <1>3, <1>4 DEF HashPass
<1>7. Buffered(i - 1)'
  <2>1. SUFFICES ASSUME NEW m \in SetHashed, m <= i, B(m) \notin nulls
                 PROVE  H(m) \in DOMAIN hashes' /\ hashes'[H(m)] = B(m)
    BY <1>5, <1>6 DEF Buffered, HashPass, call
  <2>2. CASE m = i
    BY <1>2, <1>3, <1>4, <2>1, <2>2 DEF HashPass, Put
  <2>3. CASE m # i
    <3>1. m \in Nat /\ m < i /\ m <= i - 1
      BY <1>1, <2>1, <2>3 DEF SetHashed
    <3>2. H(m) \in DOMAIN hashes /\ hashes[H(m)] = B(m)
      BY <2>1, <3>1 DEF IInv, HashWalk, Buffered, HashPass, Hashing
    <3>3. H(m) < hpos
      <4>1. H(m) \in Nat
        BY <3>1, CountType
      <4>2. m = i - 1 \/ m < i - 1
        BY <1>1, <3>1
      <4>3. m < i - 1 => H(m) <= H(i - 1)
        BY <1>1, <3>1, CountMonotonic
      <4> QED
        BY <1>3, <1>4, <4>1, <4>2, <4>3
    <3> QED
      BY <3>2, <3>3, <1>3, <1>4, CountType, <3>1 DEF HashPass, Put
  <2> QED
    BY <2>2, <2>3
<1>8. HashWalk' /\ BindWalk'
  <2>1. /\ phase = "hash" /\ phase' = "hash" /\ parms' = parms /\ pos' = pos
        /\ lang' = lang /\ fn' = fn /\ nset' = nset
    BY DEF HashPass, Hashing, call
  <2>2. i' = i + 1
    BY DEF HashPass
  <2> QED
    BY <1>1, <1>5, <1>6, <1>7, <2>1, <2>2 DEF IInv, HashWalk, BindWalk
<1>9. TypeOK'
  <2>1. idx \in Pointers
    BY <1>1, <1>2, <1>4, PointersBinary DEF IInv, IsSet
  <2>2. hpos \in 1..Len(terms) + 1 /\ (terms[i] = "hashed" => hpos \in 1..Len(terms))
    BY <1>1, <1>3, <1>4
  <2>3. hpos' \in 1..Len(terms) + 1 /\ idx' \in 1..Len(terms) + 1 /\ i' \in 1..Len(terms) + 1
    BY <1>1, <1>3, <1>4, <2>2 DEF HashPass
  <2>4. DOMAIN hashes' \subseteq 1..Len(terms) /\ Range(hashes') \subseteq Pointers
    BY <2>1, <2>2 DEF HashPass, Put, IInv, TypeOK, Range
  <2> QED
    BY <1>5, <2>3, <2>4 DEF IInv, TypeOK, HashPass, call, statement, result
<1> QED
  BY <1>8, <1>9, WalkKeeps DEF IInv, HashPass, Quiet, Hashing

\* All fields are hashed: the walk that binds starts over.
LEMMA EndHashIInv ==
  ASSUME IInv, EndHash
  PROVE  IInv'
<1>1. /\ nset \in Nat /\ i \in Nat /\ i - 1 = nset /\ lang = "c" /\ pos = 1 /\ DOMAIN parms = {}
      /\ Buffered(nset) /\ fn # "iterate"
  BY TermsType DEF EndHash, IInv, HashWalk, TypeOK
<1>2. /\ Binary' = Binary /\ SetHashed' = SetHashed /\ Given' = Given /\ Pointers' = Pointers
      /\ Hashed' = Hashed
  BY CallKept DEF EndHash
<1>3. \A T : Count(T, 0) = 0
  BY CountType
<1>4. Buffered(nset)'
  BY <1>1, <1>2 DEF Buffered, EndHash, call
<1>5. i' = 1 /\ idx' = 1 /\ hpos' = 1 /\ pos' = 1 /\ phase' = "bind" /\ parms' = parms /\ lang' = "c"
      /\ fn' # "iterate"
  BY <1>1 DEF EndHash, call
<1>6. Filled(i - 1)'
  <2>1. \A m \in Given : m \in Nat \ {0}
    BY TermsType DEF Given, Binary, WithParm, IInv
  <2> QED
    BY <1>1, <1>2, <1>3, <1>5, <2>1 DEF Filled
<1>7. HashWalk' /\ BindWalk'
  BY <1>1, <1>2, <1>3, <1>4, <1>5, <1>6 DEF HashWalk, BindWalk
<1>8. TypeOK'
  BY <1>2, <1>5, TermsType DEF IInv, TypeOK, EndHash, call, statement, result
<1> QED
  BY <1>7, <1>8, WalkKeeps DEF IInv, EndHash, Quiet

\* A term with one more parameter, or one without.
LEMMA FilledStep ==
  ASSUME TypeOK, UNCHANGED call, NEW n \in DOMAIN terms, Filled(n - 1),
         \/ n \notin Given /\ parms' = parms
         \/ n \in Given /\ parms' = Put(parms, Count(Given, n - 1) + 1, What(n))
  PROVE  Filled(n)'
<1> DEFINE G(m) == Count(Given, m)
<1>1. n \in Nat \ {0} /\ \A m \in Given : m \in Nat \ {0}
  BY TermsType DEF Given, Binary, WithParm
<1>2. /\ G(n) = G(n - 1) + IF n \in Given THEN 1 ELSE 0
      /\ G(n) \in Nat /\ G(n - 1) \in Nat
  BY <1>1, CountStep, CountType
<1>3. Given' = Given /\ \A m : What(m)' = What(m)
  BY CallKept DEF What, call
<1>4. DOMAIN parms' = 1..G(n)
  <2>1. DOMAIN parms = 1..G(n - 1)
    BY DEF Filled
  <2>2. CASE n \in Given
    <3>1. DOMAIN parms' = DOMAIN parms \cup {G(n - 1) + 1}
      BY <2>2 DEF Put
    <3>2. G(n) = G(n - 1) + 1
      BY <1>2, <2>2
    <3> HIDE DEF G
    <3>3. 1..G(n) = (1..G(n - 1)) \cup {G(n - 1) + 1}
      BY <1>2, <3>2
    <3> QED
      BY <2>1, <3>1, <3>3
  <2>3. CASE n \notin Given
    BY <1>2, <2>1, <2>3
  <2> QED
    BY <2>2, <2>3
<1>5. ASSUME NEW m \in Given, m <= n
      PROVE  parms'[G(m)] = What(m)
  <2>1. CASE m = n
    BY <1>2, <1>5, <2>1 DEF Put
  <2>2. CASE m # n
    <3>1. m <= n - 1 /\ m \in Nat \ {0}
      BY <1>1, <1>5, <2>2
    <3>2. parms[G(m)] = What(m)
      BY <1>5, <3>1 DEF Filled
    <3>3. G(m) \in Nat /\ G(m) <= G(n - 1)
      BY <1>1, <3>1, CountMonotonic, CountType
    <3>4. G(m) \in DOMAIN parms
      <4>1. G(m) = G(m - 1) + 1 /\ G(m - 1) \in Nat
        BY <1>5, <3>1, CountStep, CountType
      <4> QED
        BY <1>2, <3>3, <4>1 DEF Filled
    <3> QED
      BY <1>2, <3>2, <3>3, <3>4 DEF Put
  <2> QED
    BY <2>1, <2>2
<1> QED
  BY <1>3, <1>4, <1>5 DEF Filled

\* The argument that a walk in C is at, or in Node.js.
Argument == IF lang = "c" /\ fn = "iterate" THEN WithParm ELSE Binary

\* A step of binding in any language, for a set field or a term.
LEMMA BindStep ==
  ASSUME IInv, Binding, NEW n, n = i, phase' = phase, i' = i + 1,
         UNCHANGED <<call, hashes, statement, result>>,
         hpos' = hpos + IF lang = "c" /\ i \in SetHashed THEN 1 ELSE 0,
         idx' = idx + IF i \in Given THEN 1 ELSE 0,
         pos' = pos + IF i \in Argument THEN 1 ELSE 0,
         \/ parms' = parms /\ (InPlace => i \notin Given)
         \/ /\ i \in Given
            /\ \E v : parms' = Put(parms, idx, v) /\ (InPlace => v = What(i))
  PROVE  IInv'
<1>1. /\ n \in Nat \ {0} /\ n \in DOMAIN terms /\ Len(terms) \in Nat
      /\ DOMAIN terms = 1..Len(terms) /\ nset \in Nat
  BY TermsType DEF Binding, IInv, TypeOK
<1>2. ASSUME NEW T
      PROVE  /\ Count(T, n) = Count(T, n - 1) + IF n \in T THEN 1 ELSE 0
             /\ Count(T, n) \in Nat /\ Count(T, n) <= n /\ Count(T, n - 1) \in Nat
  <2>1. n \in Nat /\ n - 1 \in Nat
    BY <1>1
  <2>2. Count(T, n) \in Nat /\ Count(T, n) <= n /\ Count(T, n - 1) \in Nat
    BY <2>1, CountType
  <2>3. Count(T, n) = Count(T, n - 1) + IF n \in T THEN 1 ELSE 0
    BY <1>1, CountStep
  <2> QED
    BY <2>2, <2>3
<1>3. /\ Binary' = Binary /\ SetHashed' = SetHashed /\ Given' = Given /\ Pointers' = Pointers
      /\ WithParm' = WithParm /\ Hashed' = Hashed /\ (InPlace <=> InPlace')
  BY CallKept
<1>4. /\ idx = Count(Given, n - 1) + 1 /\ pos = 1 + Count(Argument, n - 1)
      /\ DOMAIN parms \subseteq 1..Count(Given, n - 1)
      /\ InPlace => Filled(n - 1)
      /\ lang = "c" => hpos = Count(SetHashed, n - 1) + 1 /\ Buffered(nset)
  BY DEF IInv, BindWalk, Binding, Argument
<1>5. i' - 1 = n
  BY <1>1
<1>6. Argument' = Argument
  BY <1>3 DEF Argument, call
<1>7. /\ idx' = Count(Given, n) + 1 /\ pos' = 1 + Count(Argument, n)
      /\ lang = "c" => hpos' = Count(SetHashed, n) + 1
  <2>1. Count(Given, n) = Count(Given, n - 1) + IF n \in Given THEN 1 ELSE 0
    BY <1>2
  <2>2. Count(Argument, n) = Count(Argument, n - 1) + IF n \in Argument THEN 1 ELSE 0
    BY <1>2
  <2>3. Count(SetHashed, n) = Count(SetHashed, n - 1) + IF n \in SetHashed THEN 1 ELSE 0
    BY <1>2
  <2>4. Count(Given, n - 1) \in Nat /\ Count(Argument, n - 1) \in Nat /\ Count(SetHashed, n - 1) \in Nat
    BY <1>2
  <2> QED
    BY <1>4, <2>1, <2>2, <2>3, <2>4
<1>8. DOMAIN parms' \subseteq 1..Count(Given, n)
  <2>1. Count(Given, n) = Count(Given, n - 1) + IF n \in Given THEN 1 ELSE 0
    BY <1>2
  <2>2. Count(Given, n - 1) \in Nat
    BY <1>2
  <2> QED
    BY <1>4, <2>1, <2>2 DEF Put
<1>9. InPlace => Filled(n)'
  BY <1>1, <1>4, FilledStep DEF IInv
<1>10. lang = "c" => Buffered(nset)'
  BY <1>3, <1>4 DEF Buffered, call
<1>11. HashWalk' /\ BindWalk'
  <2>1. phase' = "bind" /\ lang' = lang /\ fn' = fn
    BY DEF Binding, call
  <2>2. Filled(i - 1)' <=> Filled(n)'
    BY <1>5 DEF Filled
  <2> QED
    BY <1>3, <1>5, <1>6, <1>7, <1>8, <1>9, <1>10, <2>1, <2>2 DEF HashWalk, BindWalk, Argument
<1>12. TypeOK'
  <2>1. Count(Given, n) \in 0..n /\ Count(Argument, n) \in 0..n /\ Count(SetHashed, n) \in 0..n
    BY <1>1, <1>2
  <2>2. n <= Len(terms)
    BY DEF Binding
  <2>3. idx' \in 1..Len(terms) + 1 /\ pos' \in 1..Len(terms) + 1 /\ i' \in 1..Len(terms) + 1
        /\ hpos' \in 1..Len(terms) + 1
    <3>1. lang # "c" => hpos' = hpos /\ hpos \in 1..Len(terms) + 1
      BY DEF IInv, TypeOK
    <3>2. \A k \in 0..n : k + 1 \in 1..Len(terms) + 1
      BY <1>1, <2>2
    <3>3. n + 1 \in 1..Len(terms) + 1
      BY <1>1, <2>2
    <3>4. /\ Count(Given, n) + 1 \in 1..Len(terms) + 1
          /\ 1 + Count(Argument, n) \in 1..Len(terms) + 1
          /\ Count(SetHashed, n) + 1 \in 1..Len(terms) + 1
      <4>1. 1 + Count(Argument, n) = Count(Argument, n) + 1
        BY <2>1
      <4> QED
        BY <2>1, <3>2, <4>1
    <3>5. i' = n + 1
      BY <1>1
    <3> QED
      BY <1>7, <3>1, <3>3, <3>4, <3>5
  <2>4. DOMAIN parms' \subseteq 1..Len(terms)
    BY <1>1, <1>8, <2>1, <2>2
  <2> QED
    BY <1>3, <2>3, <2>4 DEF IInv, TypeOK, call, statement, result
<1> QED
  BY <1>11, <1>12, WalkKeeps DEF IInv, Quiet, Binding

\* Membership in the sets counted, of the term that a walk is at.
LEMMA AtTerm ==
  ASSUME IInv, Binding
  PROVE  /\ i \in DOMAIN terms /\ i \in Nat \ {0}
         /\ i \in Binary <=> IsBinary(terms[i])
         /\ i \in SetHashed <=> IsSet(i) /\ terms[i] = "hashed"
         /\ i \in WithParm <=> IsBinary(terms[i]) /\ (IsSet(i) \/ terms[i] # "hashed")
         /\ i \in Hashed <=> ~IsSet(i) /\ terms[i] = "hashed"
         /\ WithParm \subseteq Binary
<1>1. i \in DOMAIN terms /\ i \in Nat \ {0}
  BY TermsType DEF IInv, TypeOK, Binding
<1> QED
  BY <1>1, HashedDef DEF Binary, SetHashed, WithParm, HasParm, CountBind

\* A unary term or a field left out moves no counter.
LEMMA LeaveOutIInv ==
  ASSUME IInv, LeaveOut
  PROVE  IInv'
<1>1. CASE Binding
  <2>1. PICK n : n = i
    OBVIOUS
  <2>2. i \notin Binary /\ i \notin SetHashed /\ i \notin WithParm
    BY <1>1, AtTerm DEF LeaveOut, IsBinary
  <2>3. i \notin Given /\ i \notin Argument
    BY <2>2 DEF Given, Argument
  <2>4. idx \in Nat /\ pos \in Nat /\ hpos \in Nat
    BY TermsType DEF IInv, TypeOK
  <2>5. /\ phase' = phase /\ i' = i + 1 /\ UNCHANGED <<call, hashes, statement, result>>
        /\ idx' = idx + 0 /\ pos' = pos + 0 /\ hpos' = hpos + 0 /\ parms' = parms
    BY <2>4 DEF LeaveOut
  <2> QED
    BY <1>1, <2>1, <2>2, <2>3, <2>5, BindStep
<1>2. CASE Hashing
  <2>1. /\ i \in Nat \ {0} /\ nset \in 0..Len(terms) /\ i \in DOMAIN terms /\ i <= nset
        /\ Len(terms) \in Nat /\ DOMAIN terms = 1..Len(terms)
    BY <1>2, TermsType DEF Hashing, IInv, TypeOK
  <2>2. i \notin Binary /\ i \notin SetHashed
    BY <2>1 DEF LeaveOut, Binary, SetHashed, IsBinary
  <2>3. Count(Binary, i) = Count(Binary, i - 1) /\ Count(SetHashed, i) = Count(SetHashed, i - 1)
    <3>1. i - 1 \in Nat
      BY <2>1
    <3>2. Count(Binary, i - 1) \in Nat /\ Count(SetHashed, i - 1) \in Nat
      BY <3>1, CountType
    <3> QED
      BY <2>1, <2>2, <3>2, CountStep
  <2>4. Binary' = Binary /\ SetHashed' = SetHashed /\ Pointers' = Pointers /\ Hashed' = Hashed
    BY CallKept DEF LeaveOut
  <2>5. /\ i' = i + 1 /\ i' - 1 = i /\ phase = "hash" /\ phase' = "hash"
        /\ UNCHANGED <<call, pos, idx, hpos, hashes, parms, statement, result>>
    BY <1>2, <2>1 DEF LeaveOut, Hashing
  <2>6. HashWalk' /\ BindWalk'
    <3>1. /\ lang = "c" /\ fn \in {"insert", "update"} /\ pos = 1 /\ DOMAIN parms = {}
          /\ idx = Count(Binary, i - 1) + 1 /\ hpos = Count(SetHashed, i - 1) + 1
          /\ Buffered(i - 1)
      BY <2>5 DEF IInv, HashWalk
    <3>2. Buffered(i - 1)'
      <4>1. \A m \in SetHashed : m <= i => m <= i - 1
        BY <2>1, <2>2 DEF SetHashed
      <4> QED
        BY <2>4, <2>5, <3>1, <4>1 DEF Buffered, call
    <3>3. i' <= nset' + 1
      BY <2>1, <2>5 DEF call
    <3> QED
      BY <2>3, <2>4, <2>5, <3>1, <3>2, <3>3 DEF HashWalk, BindWalk, call
  <2>7. TypeOK'
    BY <2>1, <2>4, <2>5 DEF IInv, TypeOK, call, statement, result
  <2> QED
    BY <2>5, <2>6, <2>7, WalkKeeps DEF IInv, Quiet
<1> QED
  BY <1>1, <1>2 DEF LeaveOut

\* In insert and update nothing is verified: every argument has a "?".
LEMMA SetsGiven ==
  ASSUME IInv, Binding, IsSet(i)
  PROVE  Hashed = {} /\ Given = Binary /\ WithParm = Binary /\ Argument = Binary
<1>1. nset # 0
  BY AtTerm, TermsType DEF IsSet, IInv
<1>2. Hashed = {}
  BY <1>1 DEF IInv, TypeOK, WellFormed
<1> QED
  BY <1>2, NoHashed DEF IInv, Argument

\* Binding a field to set, hashed or not.
LEMMA BindSetIInv ==
  ASSUME IInv, BindSet
  PROVE  IInv'
<1>1. PICK n : n = i
  OBVIOUS
<1>2. /\ Binding /\ lang = "c" /\ IsSet(i) /\ i \in Binary
      /\ Hashed = {} /\ Given = Binary /\ Argument = Binary
  BY AtTerm, SetsGiven DEF BindSet
<1>3. i \in Nat \ {0} /\ i - 1 \in Nat /\ i <= nset /\ nset \in Nat
  BY <1>2, AtTerm, TermsType DEF IsSet, IInv
<1>4. /\ idx = Count(Binary, i - 1) + 1 /\ pos = Count(Binary, i - 1) + 1
      /\ hpos = Count(SetHashed, i - 1) + 1 /\ Buffered(nset)
  <2>1. Count(Binary, i - 1) \in Nat
    BY <1>3, CountType
  <2> QED
    BY <1>2, <2>1 DEF IInv, BindWalk, Binding, Argument
<1>5. Count(Binary, i) = pos /\ pos = idx
  BY <1>2, <1>3, <1>4, CountStep, CountType
<1>6. ASSUME i \in SetHashed, pos \notin nulls
      PROVE  hpos \in DOMAIN hashes /\ hashes[hpos] = pos
  <2>1. Count(SetHashed, i) = hpos
    BY <1>3, <1>4, <1>6, CountStep, CountType
  <2> QED
    BY <1>3, <1>4, <1>5, <1>6, <2>1 DEF Buffered
<1>7. i \in SetHashed <=> terms[i] = "hashed"
  BY <1>2, AtTerm
<1>8. parms' = Put(parms, idx, What(i))
  BY <1>5, <1>6, <1>7 DEF BindSet, What
<1>9. hpos' = hpos + IF i \in SetHashed THEN 1 ELSE 0
  BY <1>4, <1>7, <1>3, CountType DEF BindSet
<1> QED
  BY <1>1, <1>2, <1>8, <1>9, BindStep DEF BindSet

\* Binding a term of a search: a password to verify takes no slot.
LEMMA BindIInv ==
  ASSUME IInv, Bind
  PROVE  IInv'
<1>1. PICK n : n = i
  OBVIOUS
<1>2. /\ Binding /\ lang = "c" /\ ~IsSet(i) /\ i \in Binary /\ i \notin SetHashed
      /\ (i \in WithParm <=> terms[i] # "hashed")
      /\ (i \in Hashed <=> terms[i] = "hashed")
  BY AtTerm DEF Bind
<1>3. i \in Nat \ {0} /\ i - 1 \in Nat
  BY <1>2, AtTerm
<1>4. idx \in Nat /\ pos \in Nat /\ hpos \in Nat
  BY TermsType DEF IInv, TypeOK
<1>5. /\ phase' = phase /\ i' = i + 1 /\ UNCHANGED <<call, hashes, statement, result>>
      /\ hpos' = hpos + 0
  BY <1>4 DEF Bind
<1>6. CASE fn = "iterate"
  <2>1. Given = Binary /\ Argument = WithParm
    BY <1>2, <1>6 DEF Given, ByArgument, Argument
  <2>2. idx' = idx + 1 /\ pos' = pos + IF i \in WithParm THEN 1 ELSE 0
    BY <1>2, <1>4, <1>6 DEF Bind, CountBind
  <2>3. CASE i \in WithParm
    <3>1. InPlace => Arg(pos) = What(i)
      <4>1. SUFFICES ASSUME Hashed = {} PROVE Arg(pos) = What(i)
        BY <1>2, <1>6 DEF InPlace
      <4>2. WithParm = Binary
        BY <4>1, NoHashed DEF IInv
      <4>3. pos = Count(Binary, i - 1) + 1
        <5>1. Count(Binary, i - 1) \in Nat
          BY <1>3, CountType
        <5> QED
          BY <1>2, <4>2, <5>1 DEF IInv, BindWalk, Binding
      <4>4. pos = Count(Binary, i)
        BY <1>2, <1>3, <4>3, CountStep, CountType
      <4> QED
        BY <1>2, <2>3, <4>4, TermsGiven DEF What, IInv
    <3>2. parms' = Put(parms, idx, Arg(pos))
      BY <1>2, <2>3 DEF Bind, CountBind
    <3> QED
      BY <1>1, <1>2, <1>5, <2>1, <2>2, <2>3, <3>1, <3>2, BindStep
  <2>4. CASE i \notin WithParm
    <3>1. parms' = parms /\ ~InPlace
      BY <1>2, <1>6, <2>4 DEF Bind, CountBind, InPlace
    <3> QED
      BY <1>1, <1>2, <1>5, <2>1, <2>2, <2>4, <3>1, BindStep
  <2> QED
    BY <2>3, <2>4
<1>7. CASE fn # "iterate"
  <2>1. Given = WithParm /\ Argument = Binary
    BY <1>2, <1>7 DEF Given, ByArgument, Argument
  <2>2. pos' = pos + 1 /\ idx' = idx + IF i \in WithParm THEN 1 ELSE 0
    BY <1>2, <1>4, <1>7 DEF Bind, CountBind
  <2>3. CASE i \in WithParm
    <3>1. pos = Count(Binary, i - 1) + 1
      <4>1. Count(Binary, i - 1) \in Nat
        BY <1>3, CountType
      <4> QED
        BY <1>2, <1>7, <4>1 DEF IInv, BindWalk, Binding
    <3>2. pos = Count(Binary, i)
      BY <1>2, <1>3, <3>1, CountStep, CountType
    <3>3. Arg(pos) = What(i)
      BY <1>2, <2>3, <3>2, TermsGiven DEF What, IInv
    <3>4. parms' = Put(parms, idx, Arg(pos))
      BY <1>2, <2>3 DEF Bind, CountBind
    <3> QED
      BY <1>1, <1>2, <1>5, <2>1, <2>2, <2>3, <3>3, <3>4, BindStep
  <2>4. CASE i \notin WithParm
    <3>1. parms' = parms
      BY <1>2, <2>4 DEF Bind, CountBind
    <3> QED
      BY <1>1, <1>2, <1>5, <2>1, <2>2, <2>4, <3>1, BindStep
  <2> QED
    BY <2>3, <2>4
<1> QED
  BY <1>6, <1>7

\* Both ways to push in Node.js.
LEMMA PushIInv ==
  ASSUME IInv, PushSet \/ PushTerm
  PROVE  IInv'
<1>1. PICK n : n = i
  OBVIOUS
<1>2. Binding /\ lang = "node" /\ i \in Binary /\ Given = Binary /\ Argument = Binary
  BY AtTerm DEF PushSet, PushTerm, Given, ByArgument, Argument
<1>3. i \in Nat \ {0} /\ i - 1 \in Nat
  BY <1>2, AtTerm
<1>4. /\ phase' = phase /\ i' = i + 1 /\ UNCHANGED <<call, hashes, statement, result>>
      /\ idx' = idx + 1 /\ pos' = pos + 1 /\ hpos' = hpos + 0
  BY TermsType DEF PushSet, PushTerm, IInv, TypeOK
<1>5. pos = Count(Binary, i - 1) + 1
  <2>1. Count(Binary, i - 1) \in Nat
    BY <1>3, CountType
  <2> QED
    BY <1>2, <2>1 DEF IInv, BindWalk, Binding
<1>6. pos = Count(Binary, i)
  BY <1>2, <1>3, <1>5, CountStep, CountType
<1>7. parms' = Put(parms, idx, What(i))
  <2>1. CASE PushSet
    BY <1>6, <2>1 DEF PushSet, What
  <2>2. CASE PushTerm
    BY <1>2, <1>6, <2>2, TermsGiven DEF PushTerm, What, IInv
  <2> QED
    BY <2>1, <2>2
<1> QED
  BY <1>1, <1>2, <1>4, <1>7, BindStep
------------------------------------------------------------------------------
(* The statement. *)

Entry == {"unique", "search", "insert", "update", "delete"} \X Nat

InSeq(x, s) == \E j \in 1..Len(s) : s[j] = x

\* What is in one of two lists of statements is in their concatenation.
LEMMA InConcat ==
  ASSUME NEW s \in Seq(Entry), NEW t \in Seq(Entry), NEW x, InSeq(x, s) \/ InSeq(x, t)
  PROVE  s \o t \in Seq(Entry) /\ InSeq(x, s \o t)
<1>1. /\ s \o t \in Seq(Entry) /\ Len(s \o t) = Len(s) + Len(t)
      /\ Len(s) \in Nat /\ Len(t) \in Nat
  OBVIOUS
<1>2. ASSUME NEW j \in 1..Len(s), s[j] = x PROVE InSeq(x, s \o t)
  <2>1. j \in 1..Len(s \o t) /\ (s \o t)[j] = x
    BY <1>1, <1>2
  <2> QED
    BY <2>1 DEF InSeq
<1>3. ASSUME NEW j \in 1..Len(t), t[j] = x PROVE InSeq(x, s \o t)
  <2>1. Len(s) + j \in 1..Len(s \o t) /\ (s \o t)[Len(s) + j] = x
    BY <1>1, <1>3
  <2> QED
    BY <2>1 DEF InSeq
<1> QED
  BY <1>1, <1>2, <1>3 DEF InSeq

\* The statements of one kind are in their list, each under its number.
LEMMA NumberedSeq ==
  ASSUME NEW kind \in {"unique", "search", "insert", "update", "delete"}, NEW n \in Nat
  PROVE  /\ Numbered(kind, n) \in Seq(Entry)
         /\ \A k \in 1..n : InSeq(<<kind, k>>, Numbered(kind, n))
<1>1. Numbered(kind, n) \in [1..n -> Entry]
  BY DEF Numbered, Entry
<1>2. Numbered(kind, n) \in Seq(Entry) /\ Len(Numbered(kind, n)) = n
  BY <1>1
<1> QED
  BY <1>2 DEF Numbered, InSeq

\* The number given to a statement is its place in the list of texts.
LEMMA NamedOwn ==
  ASSUME TypeOK, NEW s \in Shape, NEW k \in 1..s[Kind]
  PROVE  Named(s, k)[1] = Named(s, k)[2]
<1> DEFINE x == <<Kind, k>>
           A == Numbered("unique", s.unique)
           B == Numbered("search", s.search)
           C == Numbered("insert", s.insert)
           D == Numbered("update", s.update)
           E == Numbered("delete", s.delete)
<1>1. /\ s.unique \in Nat /\ s.search \in Nat /\ s.insert \in Nat
      /\ s.update \in Nat /\ s.delete \in Nat
  BY DEF Shape
<1>2. Kind \in {"search", "insert", "update", "delete"}
  BY DEF Kind, TypeOK, Search, Write
<1>3. /\ A \in Seq(Entry) /\ B \in Seq(Entry) /\ C \in Seq(Entry)
      /\ D \in Seq(Entry) /\ E \in Seq(Entry)
  BY <1>1, NumberedSeq
<1>4. InSeq(x, B) \/ InSeq(x, C) \/ InSeq(x, D) \/ InSeq(x, E)
  BY <1>1, <1>2, NumberedSeq
<1> HIDE DEF A, B, C, D, E, x
<1>5. /\ A \o B \in Seq(Entry) /\ (A \o B) \o C \in Seq(Entry)
      /\ ((A \o B) \o C) \o D \in Seq(Entry)
      /\ (((A \o B) \o C) \o D) \o E \in Seq(Entry)
  BY <1>3, ConcatProperties
<1>6. InSeq(x, B) => InSeq(x, A \o B)
  BY <1>3, <1>5, InConcat
<1>7. InSeq(x, B) \/ InSeq(x, C) => InSeq(x, (A \o B) \o C)
  BY <1>3, <1>5, <1>6, InConcat
<1>8. InSeq(x, B) \/ InSeq(x, C) \/ InSeq(x, D) => InSeq(x, ((A \o B) \o C) \o D)
  BY <1>3, <1>5, <1>7, InConcat
<1>9. InSeq(x, (((A \o B) \o C) \o D) \o E)
  BY <1>3, <1>4, <1>5, <1>8, InConcat
<1>10. Stmts(s) = (((A \o B) \o C) \o D) \o E /\ Enums(s) = Stmts(s)
  BY DEF Stmts, Enums, A, B, C, D, E
<1>11. InSeq(x, Stmts(s)) /\ Stmts(s) \in Seq(Entry) /\ Len(Stmts(s)) \in Nat
  BY <1>5, <1>9, <1>10
<1> DEFINE I == {j \in 1..Len(Enums(s)) : Enums(s)[j] = x}
<1>12. I # {} /\ I \in SUBSET Nat
  <2>1. I = {j \in 1..Len(Stmts(s)) : Stmts(s)[j] = x}
    BY <1>10
  <2>2. PICK j \in 1..Len(Stmts(s)) : Stmts(s)[j] = x
    BY <1>11 DEF InSeq
  <2> HIDE DEF I
  <2> QED
    BY <1>11, <2>1, <2>2
<1>13. Min(I) \in I
  <2> HIDE DEF I
  <2> QED
    BY <1>12, LeastNatural
<1>14. SelectInSeq(Enums(s), LAMBDA e : e = <<Kind, k>>) = Min(I)
  BY <1>12 DEF SelectInSeq, x
<1>15. Stmts(s)[Min(I)] = x
  BY <1>10, <1>13
<1> QED
  BY <1>14, <1>15 DEF Named, x

\* Slots stay filled while call and parms[] stay as they are.
LEMMA FilledKept ==
  ASSUME UNCHANGED <<call, parms>>
  PROVE  Filled(Len(terms)) <=> Filled(Len(terms))'
<1>1. Given' = Given /\ \A m : What(m)' = What(m)
  BY CallKept DEF What, call
<1> QED
  BY <1>1 DEF Filled, call

\* A statement in Node.js is given as many parameters as it has, unless a
\* password is to be verified.
LEMMA FitsExactly ==
  ASSUME TypeOK, lang = "node", Filled(Len(terms))
  PROVE  Fits <=> Hashed = {}
<1> DEFINE L == Len(terms)
           B == {m \in 1..L : m \in Binary}
           W == {m \in 1..L : m \in WithParm}
<1>1. L \in Nat /\ DOMAIN terms = 1..L /\ Given = Binary
  BY TermsType DEF Given, ByArgument
<1>2. Cardinality(DOMAIN parms) = Count(Binary, L)
  <2>1. DOMAIN parms = 1..Count(Binary, L) /\ Count(Binary, L) \in Nat
    BY <1>1, CountType DEF Filled
  <2> QED
    BY <2>1, FS_Interval
<1>3. Parms = Count(WithParm, L)
  BY <1>1, ParmsCount, Counts
<1>4. Fits <=> Cardinality(B) = Cardinality(W)
  BY <1>2, <1>3 DEF Fits, Count
<1>5. IsFiniteSet(B) /\ W \in SUBSET B
  <2>1. IsFiniteSet(1..L)
    BY <1>1, FS_Interval
  <2>2. IsFiniteSet(B)
    BY <2>1, FS_Subset
  <2>3. WithParm \subseteq Binary
    BY DEF WithParm, Binary, HasParm
  <2> QED
    BY <2>2, <2>3
<1>6. B = Binary /\ W = WithParm
  BY <1>1 DEF Binary, WithParm
<1>7. Fits => B = W
  <2> HIDE DEF B, W
  <2> QED
    BY <1>4, <1>5, FS_Subset
<1>8. B = W => Hashed = {}
  <2>1. SUFFICES ASSUME NEW n \in Hashed, Binary = WithParm PROVE FALSE
    BY <1>6
  <2>2. n \in Binary /\ n \notin WithParm
    BY <2>1, HashedDef DEF Binary, WithParm, HasParm, IsBinary, CountBind
  <2> QED
    BY <2>1, <2>2
<1>9. Hashed = {} => B = W
  BY <1>6, NoHashed
<1> QED
  BY <1>4, <1>7, <1>8, <1>9

\* The four ways to run a statement preserve the invariant.
LEMMA StatementIInv ==
  ASSUME IInv, Query \/ Exec \/ QueryNode \/ RunNode
  PROVE  IInv'
<1>1. /\ phase = "bind" /\ i > Len(terms) /\ lang \in {"c", "node"}
      /\ phase' \in {"step", "return", "exit", "throw", "refused"}
      /\ UNCHANGED <<call, i, pos, idx, hpos, hashes, parms, result>>
      /\ open' \in {0, 1} /\ (phase' = "return" => open' = open)
      /\ phase' = "step" => fn \in Search
      /\ ran' \in UNION {{Named(s, k) : k \in 1..s[Kind]} : s \in Shape}
  BY DEF Query, Exec, QueryNode, RunNode, Bound, IInv, TypeOK, Balance
<1>2. Hashed' = Hashed /\ Pointers' = Pointers /\ WellFormed' /\ (InPlace <=> InPlace')
  BY <1>1, CallKept DEF IInv
<1>3. i - 1 = Len(terms)
  BY <1>1, TermsType DEF IInv, TypeOK
<1>4. InPlace => Filled(Len(terms))
  BY <1>1, <1>3 DEF IInv, BindWalk
<1>5. lang = "node" => (Fits <=> Hashed = {})
  BY <1>4, FitsExactly DEF IInv, InPlace
<1>6. fn \in Write => Hashed = {}
  BY DEF IInv, WellFormed
<1>7. Settled'
  <2>1. phase' \in {"step", "return"} /\ lang = "node" => Hashed = {}
    BY <1>5, <1>6 DEF Query, Exec, QueryNode, RunNode, Bound
  <2>2. InPlace => Filled(Len(terms))'
    BY <1>1, <1>4, FilledKept
  <2> QED
    BY <1>1, <1>2, <2>1, <2>2 DEF Settled, Accepted, call
<1>8. RefusedKnown'
  <2>1. SUFFICES ASSUME phase' = "refused"
                 PROVE  \/ lang = "node" /\ fn \in Search /\ Hashed # {}
                        \/ fn \in Search /\ terms # <<>> /\ Hashed = DOMAIN terms
                        \/ fn = "update" /\ nset = 0
    BY <1>1, <1>2 DEF RefusedKnown, call
  <2>2. nset \in Nat
    BY TermsType DEF IInv
  <2>3. ~Parses => \/ fn \in Search /\ terms # <<>> /\ Hashed = DOMAIN terms
                   \/ fn = "update" /\ nset = 0
    BY <2>2 DEF Parses
  <2>4. ~Parses \/ (lang = "node" /\ ~Fits /\ (fn \in Search \/ fn = "delete"))
    BY <2>1 DEF Query, Exec, QueryNode, RunNode, Bound
  <2>5. fn = "delete" => fn \in Write
    BY DEF Write
  <2> QED
    BY <1>5, <1>6, <2>3, <2>4, <2>5
<1>9. OwnStatement'
  <2>1. PICK s \in Shape : \E k \in 1..s[Kind] : ran' = Named(s, k)
    BY <1>1
  <2> QED
    BY <2>1, NamedOwn DEF OwnStatement, IInv
<1>10. TypeOK'
  BY <1>1, <1>2 DEF IInv, TypeOK, Ended, call, result
<1>11. HashWalk' /\ BindWalk' /\ CheckWalk'
  BY <1>1 DEF HashWalk, BindWalk, CheckWalk
<1>12. OutVerified' /\ Balance'
  BY <1>1, <1>2 DEF IInv, OutVerified, Balance, result
<1> QED
  BY <1>2, <1>7, <1>8, <1>9, <1>10, <1>11, <1>12 DEF IInv
------------------------------------------------------------------------------
(* Rows. *)

\* What reading rows and verifying passwords leaves alone.
LEMMA RowKeeps ==
  ASSUME IInv, phase \in {"step", "check"},
         phase' \in {"step", "check", "return", "exit", "throw", "crash"},
         UNCHANGED <<call, idx, hpos, hashes, parms, ran>>
  PROVE  /\ WellFormed' /\ HashWalk' /\ BindWalk' /\ Settled' /\ OwnStatement' /\ RefusedKnown'
         /\ Hashed' = Hashed /\ Pointers' = Pointers /\ Binary' = Binary
<1>1. /\ Hashed' = Hashed /\ Pointers' = Pointers /\ Binary' = Binary
      /\ (InPlace <=> InPlace') /\ WellFormed'
  BY CallKept DEF IInv
<1>2. Filled(Len(terms)) <=> Filled(Len(terms))'
  BY FilledKept
<1>3. Settled'
  <2>1. Accepted /\ fn \in Search
    BY DEF Accepted, IInv, Settled, CheckWalk
  <2> QED
    BY <1>1, <1>2, <2>1 DEF IInv, Settled, Accepted, call
<1>4. HashWalk' /\ BindWalk' /\ OwnStatement' /\ RefusedKnown'
  BY DEF IInv, HashWalk, BindWalk, OwnStatement, RefusedKnown
<1> QED
  BY <1>1, <1>3, <1>4

\* A row is filled: its passwords are still to verify.
LEMMA FillIInv ==
  ASSUME IInv, Fill
  PROVE  IInv'
<1>1. /\ phase = "step" /\ phase' = "check" /\ i' = 1 /\ pos' = 1 /\ p' = "filled"
      /\ live' = live + 1 /\ rows' = rows + 1 /\ rows < MaxRows /\ good' \in SUBSET Hashed
      /\ UNCHANGED <<call, idx, hpos, hashes, parms, ran, open, out>> /\ lang = "c" /\ fn \in Search
  BY DEF Fill, Read, IInv, Settled, statement
<1>2. /\ WellFormed' /\ HashWalk' /\ BindWalk' /\ Settled' /\ OwnStatement' /\ RefusedKnown'
      /\ Hashed' = Hashed /\ Pointers' = Pointers /\ Binary' = Binary
  BY <1>1, RowKeeps
<1>3. live = 0 /\ rows \in Nat /\ Len(out) \in Nat
  BY <1>1 DEF IInv, Balance, TypeOK
<1>4. CheckWalk'
  <2>1. Count(Binary, i' - 1) = 0
    BY <1>1, CountType
  <2>2. \A n \in Hashed : ~(n <= i' - 1)
    BY <1>1, HashedDef, TermsType DEF IInv
  <2> QED
    BY <1>1, <1>2, <2>1, <2>2 DEF CheckWalk, call
<1>5. TypeOK'
  BY <1>1, <1>2, <1>3, TermsType, QueryCallAssumption DEF IInv, TypeOK, Balance, call
<1>6. OutVerified' /\ Balance'
  BY <1>1, <1>2, <1>3 DEF IInv, OutVerified, Balance
<1> QED
  BY <1>2, <1>4, <1>5, <1>6 DEF IInv

\* In Node.js a row is an object at once, and goes out.
LEMMA FillNodeIInv ==
  ASSUME IInv, FillNode
  PROVE  IInv'
<1>1. /\ phase = "step" /\ phase' = "step" /\ p' = "filled"
      /\ rows' = rows + 1 /\ rows < MaxRows /\ good' \in SUBSET Hashed
      /\ out' = Append(out, good') /\ lang = "node"
      /\ UNCHANGED <<call, i, pos, idx, hpos, hashes, parms, ran, open, live>>
  BY DEF FillNode, Read, statement
<1>2. /\ WellFormed' /\ HashWalk' /\ BindWalk' /\ Settled' /\ OwnStatement' /\ RefusedKnown'
      /\ Hashed' = Hashed /\ Pointers' = Pointers /\ Binary' = Binary
  BY <1>1, RowKeeps
<1>3. live = 0 /\ rows \in Nat /\ Len(out) \in Nat /\ out \in Seq(SUBSET Hashed)
  BY <1>1 DEF IInv, Balance, TypeOK
<1>4. /\ out' \in Seq(SUBSET Hashed) /\ Len(out') = Len(out) + 1
      /\ \A n \in DOMAIN out' : out'[n] = IF n \in DOMAIN out THEN out[n] ELSE good'
  BY <1>1, <1>3, AppendProperties
<1>5. good' = Hashed
  BY <1>1 DEF IInv, Settled, Accepted
<1>6. TypeOK'
  BY <1>1, <1>2, <1>3, <1>4, QueryCallAssumption DEF IInv, TypeOK, Balance, call
<1>7. OutVerified' /\ Balance' /\ CheckWalk'
  BY <1>1, <1>2, <1>3, <1>4, <1>5 DEF IInv, OutVerified, Balance, CheckWalk
<1> QED
  BY <1>2, <1>6, <1>7 DEF IInv

\* No more rows: the statement is finalised.
LEMMA DoneIInv ==
  ASSUME IInv, Done
  PROVE  IInv'
<1>1. /\ phase = "step" /\ phase' \in {"return", "exit", "throw"} /\ open' = 0
      /\ p' \in {p, "null"}
      /\ UNCHANGED <<call, i, pos, idx, hpos, hashes, parms, ran, rows, good, live, out>>
  BY DEF Done
<1>2. /\ WellFormed' /\ HashWalk' /\ BindWalk' /\ Settled' /\ OwnStatement' /\ RefusedKnown'
      /\ Hashed' = Hashed /\ Pointers' = Pointers /\ Binary' = Binary
  BY <1>1, RowKeeps
<1>3. TypeOK'
  BY <1>1, <1>2 DEF IInv, TypeOK, Ended, call
<1>4. OutVerified' /\ Balance' /\ CheckWalk'
  BY <1>1, <1>2 DEF IInv, OutVerified, Balance, CheckWalk
<1> QED
  BY <1>2, <1>3, <1>4 DEF IInv

\* Where the walk that verifies passwords is at a term.
LEMMA AtCheck ==
  ASSUME IInv, Checking
  PROVE  /\ i \in DOMAIN terms /\ i \in Nat \ {0} /\ i <= Len(terms) /\ Len(terms) \in Nat
         /\ i \in Hashed <=> terms[i] = "hashed"
         /\ Count(Binary, i) = pos + (IF IsBinary(terms[i]) THEN 1 ELSE 0) - 1
         /\ Count(Binary, i) \in 0..i /\ lang = "c" /\ fn \in Search
<1>1. i \in DOMAIN terms /\ i \in Nat \ {0} /\ i <= Len(terms) /\ Len(terms) \in Nat
  BY TermsType DEF IInv, TypeOK, Checking
<1>2. lang = "c" /\ fn \in Search /\ pos = Count(Binary, i - 1) + 1
  BY DEF IInv, CheckWalk, Checking
<1>3. i \in Hashed <=> terms[i] = "hashed"
  <2>1. nset = 0
    BY <1>2 DEF IInv, WellFormed
  <2> QED
    BY <1>1, <2>1, HashedDef DEF IsSet
<1>4. /\ Count(Binary, i) = Count(Binary, i - 1) + IF i \in Binary THEN 1 ELSE 0
      /\ Count(Binary, i) \in Nat /\ Count(Binary, i) <= i /\ Count(Binary, i - 1) \in Nat
  <2>1. i - 1 \in Nat
    BY <1>1
  <2> QED
    BY <1>1, <2>1, CountStep, CountType
<1>5. i \in Binary <=> IsBinary(terms[i])
  BY <1>1 DEF Binary
<1> QED
  BY <1>1, <1>2, <1>3, <1>4, <1>5

\* A term passed over, or one whose password matches.
LEMMA PassIInv ==
  ASSUME IInv, PassOver \/ Matches
  PROVE  IInv'
<1>1. /\ Checking /\ phase = "check" /\ phase' = "check" /\ i' = i + 1
      /\ (i \in Hashed /\ p = "filled" => i \in good)
      /\ pos' = IF IsBinary(terms[i]) THEN pos + 1 ELSE pos
      /\ UNCHANGED <<call, idx, hpos, hashes, parms, statement, result>>
  BY AtCheck DEF PassOver, Matches, Checking, IsBinary
<1>2. /\ WellFormed' /\ HashWalk' /\ BindWalk' /\ Settled' /\ OwnStatement' /\ RefusedKnown'
      /\ Hashed' = Hashed /\ Pointers' = Pointers /\ Binary' = Binary
  BY <1>1, RowKeeps DEF statement
<1>3. /\ i' - 1 = i /\ pos' = Count(Binary, i) + 1
      /\ pos' \in 1..Len(terms) + 1 /\ i' \in 1..Len(terms) + 1
  <2>1. pos \in Nat
    BY TermsType DEF IInv, TypeOK
  <2>2. /\ i \in Nat \ {0} /\ i <= Len(terms) /\ Len(terms) \in Nat
        /\ Count(Binary, i) = pos + (IF IsBinary(terms[i]) THEN 1 ELSE 0) - 1
        /\ Count(Binary, i) \in 0..i
    BY <1>1, AtCheck
  <2>3. i' = i + 1 /\ pos' = pos + IF IsBinary(terms[i]) THEN 1 ELSE 0
    BY <1>1, <2>1
  <2>4. pos' = Count(Binary, i) + 1
    BY <2>1, <2>2, <2>3
  <2> QED
    BY <2>2, <2>3, <2>4
<1>4. CheckWalk'
  <2>1. \A n \in Hashed : n <= i /\ n # i => n <= i - 1
    BY <1>1, AtCheck, HashedDef, TermsType DEF IInv
  <2> QED
    BY <1>1, <1>2, <1>3, <2>1 DEF IInv, CheckWalk, call, result
<1>5. TypeOK'
  BY <1>1, <1>2, <1>3 DEF IInv, TypeOK, call, statement, result
<1>6. OutVerified' /\ Balance'
  BY <1>1, <1>2 DEF IInv, OutVerified, Balance, statement, result
<1> QED
  BY <1>2, <1>4, <1>5, <1>6 DEF IInv

\* A password that differs: the object is released.
LEMMA DiffersIInv ==
  ASSUME IInv, Differs
  PROVE  IInv'
<1>1. /\ Checking /\ phase = "check" /\ terms[i] = "hashed" /\ p = "filled" /\ p' = "null"
      /\ live' = live - 1
      /\ UNCHANGED <<call, idx, hpos, hashes, parms, ran, open, rows, good, out>>
      /\ \/ phase' = "check" /\ i' = i + 1 /\ pos' = pos + 1
         \/ phase' = "step" /\ UNCHANGED <<i, pos>>
  BY DEF Differs, Checking, statement
<1>2. /\ WellFormed' /\ HashWalk' /\ BindWalk' /\ Settled' /\ OwnStatement' /\ RefusedKnown'
      /\ Hashed' = Hashed /\ Pointers' = Pointers /\ Binary' = Binary
  BY <1>1, RowKeeps
<1>3. live = 1 /\ live' = 0
  BY <1>1 DEF IInv, Balance
<1>4. Count(Binary, i) = pos /\ pos \in 0..i /\ i <= Len(terms) /\ i \in Nat /\ Len(terms) \in Nat
  BY <1>1, AtCheck DEF IsBinary, IInv, TypeOK
<1>5. CheckWalk'
  <2>1. phase' = "check" => pos' = Count(Binary, i' - 1) + 1
    BY <1>1, <1>4
  <2> QED
    BY <1>1, <1>2, <2>1, AtCheck DEF CheckWalk, call
<1>6. TypeOK'
  <2>1. i' \in 1..Len(terms) + 1 /\ pos' \in 1..Len(terms) + 1
    BY <1>1, <1>4 DEF IInv, TypeOK
  <2> QED
    BY <1>1, <1>2, <1>3, <2>1 DEF IInv, TypeOK, call
<1>7. OutVerified' /\ Balance'
  BY <1>1, <1>2, <1>3 DEF IInv, OutVerified, Balance, TypeOK
<1> QED
  BY <1>2, <1>5, <1>6, <1>7 DEF IInv

\* Another password looked at in the object just released.
LEMMA CrashIInv ==
  ASSUME IInv, Crash
  PROVE  IInv'
<1>1. /\ phase = "check" /\ phase' = "crash" /\ p = "null"
      /\ UNCHANGED <<call, i, pos, idx, hpos, hashes, parms, statement, result>>
  BY DEF Crash, Checking
<1>2. /\ WellFormed' /\ HashWalk' /\ BindWalk' /\ Settled' /\ OwnStatement' /\ RefusedKnown'
      /\ Hashed' = Hashed /\ Pointers' = Pointers /\ Binary' = Binary
  BY <1>1, RowKeeps DEF statement
<1>3. TypeOK'
  BY <1>1, <1>2 DEF IInv, TypeOK, Ended, call, statement, result
<1>4. OutVerified' /\ Balance' /\ CheckWalk'
  BY <1>1, <1>2 DEF IInv, OutVerified, Balance, CheckWalk, statement, result
<1> QED
  BY <1>2, <1>3, <1>4 DEF IInv

\* All passwords verified, or the object released: what is left is handed out.
LEMMA HandOutIInv ==
  ASSUME IInv, HandOut
  PROVE  IInv'
<1>1. /\ phase = "check" /\ phase' = "step" /\ i > Len(terms)
      /\ UNCHANGED <<call, i, pos, idx, hpos, hashes, parms, ran, open, rows, good, p>>
      /\ \/ p = "filled" /\ out' = Append(out, good) /\ live' = live - 1
         \/ p # "filled" /\ UNCHANGED <<out, live>>
  BY DEF HandOut, statement
<1>2. /\ WellFormed' /\ HashWalk' /\ BindWalk' /\ Settled' /\ OwnStatement' /\ RefusedKnown'
      /\ Hashed' = Hashed /\ Pointers' = Pointers /\ Binary' = Binary
  BY <1>1, RowKeeps
<1>3. /\ live = (IF p = "filled" THEN 1 ELSE 0) /\ Len(out) + live <= rows
      /\ Len(out) \in Nat /\ rows \in Nat /\ out \in Seq(SUBSET Hashed) /\ good \in SUBSET Hashed
  BY <1>1 DEF IInv, Balance, TypeOK
<1>4. p = "filled" => good = Hashed
  <2>1. \A n \in Hashed : n <= i - 1
    BY <1>1, HashedDef, TermsType DEF IInv, TypeOK
  <2> QED
    BY <1>1, <1>3, <2>1 DEF IInv, CheckWalk
<1>5. CASE p = "filled"
  <2>1. /\ out' = Append(out, good) /\ live' = 0 /\ out' \in Seq(SUBSET Hashed)
        /\ Len(out') = Len(out) + 1
        /\ \A n \in DOMAIN out' : out'[n] = IF n \in DOMAIN out THEN out[n] ELSE good
    BY <1>1, <1>3, <1>5, AppendProperties
  <2>2. TypeOK'
    BY <1>1, <1>2, <1>3, <1>5, <2>1 DEF IInv, TypeOK, call
  <2>3. OutVerified' /\ Balance' /\ CheckWalk'
    BY <1>1, <1>2, <1>3, <1>4, <1>5, <2>1 DEF IInv, OutVerified, Balance, CheckWalk
  <2> QED
    BY <1>2, <2>2, <2>3 DEF IInv
<1>6. CASE p # "filled"
  <2>1. TypeOK'
    BY <1>1, <1>2, <1>3, <1>6 DEF IInv, TypeOK, call
  <2>2. OutVerified' /\ Balance' /\ CheckWalk'
    BY <1>1, <1>2, <1>3, <1>6 DEF IInv, OutVerified, Balance, CheckWalk
  <2> QED
    BY <1>2, <2>1, <2>2 DEF IInv
<1> QED
  BY <1>5, <1>6
------------------------------------------------------------------------------
(* The theorems. *)

\* Each step of the call keeps the invariant.
LEMMA StepIInv == IInv /\ [Next]_vars => IInv'
<1> SUFFICES ASSUME IInv, [Next]_vars PROVE IInv'
  OBVIOUS
<1>1. CASE HashPass \/ EndHash \/ LeaveOut
  BY <1>1, HashPassIInv, EndHashIInv, LeaveOutIInv
<1>2. CASE BindSet \/ Bind \/ PushSet \/ PushTerm
  BY <1>2, BindSetIInv, BindIInv, PushIInv
<1>3. CASE Query \/ Exec \/ QueryNode \/ RunNode
  BY <1>3, StatementIInv
<1>4. CASE Fill \/ FillNode \/ Done
  BY <1>4, FillIInv, FillNodeIInv, DoneIInv
<1>5. CASE PassOver \/ Matches \/ Differs \/ Crash \/ HandOut
  BY <1>5, PassIInv, DiffersIInv, CrashIInv, HandOutIInv
<1>6. CASE UNCHANGED vars
  <2>1. /\ Hashed' = Hashed /\ Pointers' = Pointers /\ Binary' = Binary /\ Given' = Given
        /\ WithParm' = WithParm /\ SetHashed' = SetHashed /\ Parses' = Parses
        /\ (InPlace <=> InPlace') /\ WellFormed'
    BY <1>6, CallKept DEF vars, IInv
  <2>2. \A m : What(m)' = What(m)
    BY <1>6, <2>1 DEF What, vars, call
  <2> USE <1>6, <2>1, <2>2 DEF IInv, vars, call, statement, result
  <2>3. TypeOK'
    BY DEF TypeOK
  <2>4. HashWalk' /\ BindWalk' /\ Settled'
    BY DEF HashWalk, BindWalk, Settled, Buffered, Filled, Accepted
  <2>5. CheckWalk' /\ OutVerified' /\ Balance' /\ OwnStatement' /\ RefusedKnown'
    BY DEF CheckWalk, OutVerified, Balance, OwnStatement, RefusedKnown
  <2> QED
    BY <2>3, <2>4, <2>5
<1> QED
  BY <1>1, <1>2, <1>3, <1>4, <1>5, <1>6 DEF Next

\* The strengthened invariant holds in every reachable state.
THEOREM Invariance == Spec => []IInv
  BY InitIInv, StepIInv, PTL DEF Spec

\* Every state is of the right type, every counter within its array.
THEOREM TypeCorrect == Spec => []TypeOK
<1>1. IInv => TypeOK
  BY DEF IInv
<1> QED
  BY <1>1, Invariance, PTL

\* Every "?" gets the argument of its own field or term.
THEOREM EveryTermBound == Spec => []BindsTerms
<1>1. IInv => BindsTerms
  <2>1. SUFFICES ASSUME IInv, Accepted, fn = "iterate" => Hashed = {}
                 PROVE  InSlots
    BY DEF BindsTerms
  <2>2. Filled(Len(terms)) /\ Given = WithParm
    <3>1. ByArgument => Hashed = {}
      BY <2>1 DEF IInv, Settled, ByArgument
    <3>2. Given = WithParm
      BY <2>1, <3>1, NoHashed DEF IInv, Given
    <3> QED
      BY <2>1, <3>2 DEF IInv, Settled, InPlace
  <2>3. Len(terms) \in Nat /\ DOMAIN terms = 1..Len(terms) /\ TypeOK
    BY <2>1, TermsType DEF IInv
  <2>4. DOMAIN parms = 1..Parms
    <3>1. Parms = Count(WithParm, Len(terms))
      BY <2>3, ParmsCount, Counts
    <3> QED
      BY <2>2, <3>1 DEF Filled
  <2>5. ASSUME NEW n \in Where(HasParm) PROVE parms[SlotOf(n)] = Due(n)
    <3>1. n \in WithParm /\ n \in 1..Len(terms)
      BY <2>3, <2>5, ParmsCount DEF WithParm
    <3>2. SlotOf(n) = Count(WithParm, n) /\ ArgOf(n) = Count(Binary, n)
      BY <2>3, <3>1, Counts
    <3>3. parms[Count(WithParm, n)] = What(n)
      BY <2>2, <3>1 DEF Filled
    <3> QED
      BY <3>2, <3>3 DEF What, Due
  <2> QED
    BY <2>4, <2>5 DEF InSlots
<1> QED
  BY <1>1, Invariance, PTL

\* What is handed out satisfies every password of the search.
THEOREM PasswordsVerified == Spec => []OnlyVerified
<1>1. IInv => OnlyVerified
  <2>1. SUFFICES ASSUME IInv, Checking PROVE pos = ArgOf(i - 1) + 1
    BY DEF OnlyVerified, IInv, OutVerified
  <2>2. i - 1 \in 0..Len(terms)
    BY <2>1, AtCheck
  <2> QED
    BY <2>1, <2>2, Counts DEF IInv, CheckWalk, Checking
<1> QED
  BY <1>1, Invariance, PTL

\* A function that returns leaves no object and no statement behind.
THEOREM CallsClean == Spec => []NothingLeft
<1>1. IInv => NothingLeft
  BY DEF IInv, Balance, NothingLeft
<1> QED
  BY <1>1, Invariance, PTL

\* A function runs the statement it was generated with.
THEOREM StatementsOwn == Spec => []OwnStatement
<1>1. IInv => OwnStatement
  BY DEF IInv
<1> QED
  BY <1>1, Invariance, PTL

\* The database refuses statements for three reasons only.
THEOREM RefusalsKnown == Spec => []RefusedKnown
<1>1. IInv => RefusedKnown
  BY DEF IInv
<1> QED
  BY <1>1, Invariance, PTL
==============================================================================
