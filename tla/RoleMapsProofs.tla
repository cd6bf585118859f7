--------------------------- MODULE RoleMapsProofs ---------------------------
(***************************************************************************)
(* What the run of RoleMaps checks with two roles and four names written,  *)
(* proved for all sets of roles, operations and fields and for any number  *)
(* of statements: the roles that operations and fields end with, and that  *)
(* a configuration that was written and read again gives them the same.    *)
(***************************************************************************)
EXTENDS RoleMaps, SequenceTheorems, CountLemmas

\* What the statements say of the operation or fields of a map, and the roles
\* that the map has come to hold.
Said(m) == Written(maps[m].kind[1], maps[m].kind[2])
Held(m) == Range(maps[m].roles)

\* The map is about the field, or about all fields.
Concerns(m, f) == maps[m].kind = <<"noexport", f>> \/ maps[m].kind = <<"noexport", NoName>>

\* The first map of the queue about the field.
First(m, f) == Concerns(m, f) /\ \A k \in 1..m - 1 : ~Concerns(k, f)

\* No two maps are of one kind, and each has a statement behind it.
Kinds ==
  /\ \A i, j \in DOMAIN maps : maps[i].kind = maps[j].kind => i = j
  /\ \A d \in decl : \E m \in DOMAIN maps : maps[m].kind = <<d[2], d[3]>>
  /\ \A m \in DOMAIN maps : Said(m) # {}

\* A map holds what was said, no more while the file is read; that of "all"
\* not then either, and that of an operation no more than "all" adds.
Holdings ==
  /\ \A m \in DOMAIN maps :
       /\ Said(m) \subseteq Held(m)
       /\ phase = "parse" => Held(m) = Said(m)
       /\ maps[m].kind[1] = "all" => Held(m) = Said(m)
       /\ maps[m].kind[1] = "op" => Held(m) \subseteq Said(m) \cup Written("all", NoName)
  /\ phase \in {"link", "post", "done"} => \A m \in DOMAIN maps : Unknown \notin Held(m)

\* Statements about fields are all by name or all without.
Unmixed == NamesFields => Written("noexport", NoName) = {}

\* Maps of fields are merged only if statements are mixed.
Separate ==
  Unmixed => \A m \in DOMAIN maps : maps[m].kind[1] = "noexport" => Held(m) = Said(m)

\* The pass over the queue has linked the operations of the entries it passed.
LinkedOps ==
  phase \in {"parse", "link", "post"} =>
    /\ \A op \in Op :
         /\ opMap[op] # 0 => opMap[op] < next /\ maps[opMap[op]].kind = <<"op", op>>
         /\ \A m \in 1..next - 1 : maps[m].kind = <<"op", op>> => opMap[op] = m
    /\ allMap # 0 => allMap < next /\ maps[allMap].kind[1] = "all"
    /\ \A m \in 1..next - 1 : maps[m].kind[1] = "all" => allMap = m

\* And the fields: each has the first map that is about it.
LinkedFields ==
  \A f \in Field :
    /\ fieldMap[f] # 0 => fieldMap[f] < next /\ First(fieldMap[f], f)
    /\ fieldMap[f] = 0 => \A m \in 1..next - 1 : ~Concerns(m, f)

\* The first map about a field holds the first role of each other among the
\* first n that is about it.
Shares(n) ==
  \A f \in Field : \A k, m \in 1..n : First(k, f) /\ Concerns(m, f) => maps[m].roles[1] \in Held(k)

\* Failures are counted, one an entry, and after a pass without one all operations exist.
Failures ==
  /\ fails < next
  /\ phase = "parse" => fails = 0 /\ next = 1
  /\ phase \in {"post", "done"} => next = Len(maps) + 1
  /\ phase \in {"post", "done"} \/ saved # <<>> => fails = 0
  /\ fails = 0 => \A m \in 1..next - 1 : maps[m].kind[1] = "op" => maps[m].kind[2] \in Op

\* What the first link leaves, the second leaves as it is.
Settled ==
  phase = "done" \/ saved # <<>> =>
    /\ \A m \in DOMAIN maps :
         /\ IsInjective(maps[m].roles)
         /\ maps[m].kind[1] = "op" => maps[m].kind[2] \in Op /\ Held(m) = Said(m) \cup Written("all", NoName)
    /\ Shares(Len(maps))

\* What was saved of operations and fields can still be seen in the maps.
Saved ==
  saved # <<>> =>
    /\ phase \in {"link", "post", "done"}
    /\ \A op \in Op : saved[1].op[op] = Written("op", op) \cup Written("all", NoName)
    /\ \A f \in Field :
         /\ \A m \in DOMAIN maps : First(m, f) => saved[1].field[f] = Held(m)
         /\ (\A m \in DOMAIN maps : ~Concerns(m, f)) => saved[1].field[f] = {}

IInv ==
  /\ TypeOK /\ Kinds /\ Holdings /\ Separate /\ LinkedOps /\ LinkedFields
  /\ Shares(next - 1) /\ Failures /\ Settled /\ Saved /\ OpRolesExact
------------------------------------------------------------------------------
(* Lists of roles. *)

\* The range of a list that one role is appended to.
LEMMA AppendRange ==
  ASSUME NEW R, NEW s \in Seq(R), NEW r \in R
  PROVE  Append(s, r) \in Seq(R) /\ Range(Append(s, r)) = Range(s) \cup {r}
<1>1. Append(s, r) = s \o <<r>> /\ Append(s, r) \in Seq(R)
  BY AppendIsConcat, AppendProperties
<1>2. <<r>> \in Seq(R) /\ Range(<<r>>) = {r}
  <2>1. DOMAIN <<r>> = {1} /\ <<r>>[1] = r
    OBVIOUS
  <2>2. <<r>> \in Seq(R)
    OBVIOUS
  <2> QED
    BY <2>1, <2>2, Zenon DEF Range
<1>3. Range(s \o <<r>>) = Range(s) \cup Range(<<r>>)
  <2> DEFINE t == <<r>>
  <2>1. t \in Seq(R)
    BY <1>2
  <2> HIDE DEF t
  <2>2. Range(s \o t) = Range(s) \cup Range(t)
    BY <2>1, RangeConcatenation
  <2> QED
    BY <2>2 DEF t
<1>4. Range(s \o <<r>>) = Range(s) \cup {r}
  BY <1>2, <1>3
<1>5. Range(Append(s, r)) = Range(s \o <<r>>)
  BY <1>1
<1> QED
  BY <1>1, <1>4, <1>5

\* resolve_struct_rolemap_post_cover() adds the roles of the second list to the
\* first, and nothing if they are there.
LEMMA CoveredFacts ==
  ASSUME NEW R, NEW dst \in Seq(R), NEW src \in Seq(R)
  PROVE  /\ Covered(dst, src) \in Seq(R)
         /\ Range(Covered(dst, src)) = Range(dst) \cup Range(src)
         /\ Range(src) \subseteq Range(dst) => Covered(dst, src) = dst
<1> DEFINE n == Len(src)
           Turn(acc, r) == IF r \in Range(acc) THEN acc ELSE Append(acc, r)
           step == [i \in 1..n |-> [acc \in Seq(R) |-> Turn(acc, src[i])]]
           Body(g) == [i \in 0..n |-> IF i = 0 THEN dst ELSE Turn(g[i - 1], src[i])]
           upto == CHOOSE g : g = Body(g)
<1>1. n \in Nat /\ \A i \in 1..n : src[i] \in R
  OBVIOUS
<1>2. \A acc \in Seq(R) : \A r \in R : Turn(acc, r) \in Seq(R)
  BY AppendRange
<1>3. \E f \in [0..n -> Seq(R)] : f[0] = dst /\ \A i \in 1..n : f[i] = step[i][f[i - 1]]
  <2>1. step \in Steps(Seq(R), n)
    BY <1>1, <1>2 DEF Steps
  <2> HIDE DEF step, n
  <2>2. Courses(Seq(R), dst, n, step) # {}
    BY <1>1, <2>1, LoopRuns
  <2> QED
    BY <2>2 DEF Courses
<1>4. \E f \in [0..n -> Seq(R)] : f = Body(f)
  <2>1. PICK f \in [0..n -> Seq(R)] : f[0] = dst /\ \A i \in 1..n : f[i] = step[i][f[i - 1]]
    BY <1>3
  <2>2. ASSUME NEW i \in 0..n PROVE f[i] = Body(f)[i]
    <3>1. CASE i = 0
      BY <2>1, <3>1
    <3>2. CASE i # 0
      <4>1. i \in 1..n /\ i - 1 \in 0..n
        BY <1>1, <3>2
      <4>2. f[i] = step[i][f[i - 1]] /\ f[i - 1] \in Seq(R)
        BY <2>1, <4>1
      <4> QED
        BY <3>2, <4>1, <4>2
    <3> QED
      BY <3>1, <3>2
  <2>3. Body(f) = [i \in 0..n |-> Body(f)[i]]
    OBVIOUS
  <2> HIDE DEF Body
  <2>4. f = Body(f)
    BY <2>2, <2>3
  <2> QED
    BY <2>4
<1>5. upto = Body(upto)
  <2> HIDE DEF Body
  <2> QED
    BY <1>4
<1>6. Covered(dst, src) = upto[n]
  BY DEF Covered
<1>7. upto[0] = dst /\ \A i \in 1..n : upto[i] = Turn(upto[i - 1], src[i])
  <2> DEFINE u == upto
  <2>1. u = Body(u)
    BY <1>5
  <2> HIDE DEF u, n
  <2>2. u[0] = dst
    BY <1>1, <2>1
  <2>3. ASSUME NEW i \in 1..n PROVE u[i] = Turn(u[i - 1], src[i])
    <3>1. i \in 0..n /\ i # 0
      BY <1>1
    <3> HIDE DEF Turn
    <3> QED
      BY <2>1, <3>1
  <2> QED
    BY <2>2, <2>3 DEF u
<1> HIDE DEF upto, Body, step
<1> DEFINE Good(i) == /\ upto[i] \in Seq(R)
                      /\ Range(upto[i]) = Range(dst) \cup {src[j] : j \in 1..i}
                      /\ Range(src) \subseteq Range(dst) => upto[i] = dst
           Bad == {i \in 0..n : ~Good(i)}
<1>8. Bad = {}
  <2>1. SUFFICES ASSUME Bad # {} PROVE FALSE
    OBVIOUS
  <2>2. PICK k \in Bad : \A j \in Bad : k <= j
    <3>1. Bad \in SUBSET Nat
      BY <1>1
    <3> HIDE DEF Bad
    <3> QED
      BY <2>1, <3>1, LeastNatural
  <2>3. Good(0)
    BY <1>7
  <2>4. k \in 1..n /\ k - 1 \in 0..n /\ ~(k <= k - 1)
    BY <1>1, <2>2, <2>3
  <2>5. Good(k - 1)
    BY <2>2, <2>4
  <2>6. upto[k] = Turn(upto[k - 1], src[k]) /\ src[k] \in R /\ src[k] \in Range(src)
    BY <1>1, <1>7, <2>4 DEF Range
  <2>7. 1..k = (1..k - 1) \cup {k}
    BY <2>4
  <2>8. {src[j] : j \in 1..k} = {src[j] : j \in 1..k - 1} \cup {src[k]}
    BY <2>7
  <2>9. Range(upto[k]) = Range(upto[k - 1]) \cup {src[k]} /\ upto[k] \in Seq(R)
    BY <2>5, <2>6, AppendRange
  <2>10. Range(src) \subseteq Range(dst) => upto[k] = dst
    BY <2>5, <2>6
  <2>11. Good(k)
    BY <2>5, <2>8, <2>9, <2>10
  <2> QED
    BY <2>2, <2>11
<1>9. Good(n)
  BY <1>1, <1>8
<1>10. Range(src) = {src[j] : j \in 1..n}
  BY DEF Range
<1> QED
  BY <1>6, <1>9, <1>10

\* resolve_struct_rolemap_field() adds some roles of the second list, among them
\* the first, and nothing if the first is there.
LEMMA MergedFacts ==
  ASSUME NEW R, NEW dst \in Seq(R), NEW src \in Seq(R), src # <<>>
  PROVE  /\ Merged(dst, src) \in Seq(R)
         /\ Range(dst) \subseteq Range(Merged(dst, src))
         /\ Range(Merged(dst, src)) \subseteq Range(dst) \cup Range(src)
         /\ src[1] \in Range(Merged(dst, src))
         /\ dst # <<>> => Merged(dst, src)[1] = dst[1]
         /\ src[1] \in Range(dst) => Merged(dst, src) = dst
<1> DEFINE had == {i \in DOMAIN src : src[i] \in Range(dst) \cup Range(SubSeq(src, 1, i - 1))}
           n == IF had = {} THEN Len(src) ELSE Min(had) - 1
           new == SubSeq(src, 1, n)
<1>1. Merged(dst, src) = dst \o new
  BY DEF Merged
<1>2. Len(src) \in Nat \ {0} /\ DOMAIN src = 1..Len(src) /\ \A i \in 1..Len(src) : src[i] \in R
  OBVIOUS
<1>3. had # {} => Min(had) \in had /\ \A i \in had : Min(had) <= i
  <2>1. had \in SUBSET Nat
    BY <1>2
  <2> HIDE DEF had
  <2> QED
    BY <2>1, LeastNatural
<1>4. had \in SUBSET (1..Len(src))
  BY <1>2
<1>5. 1 \in had <=> src[1] \in Range(dst)
  <2>1. SubSeq(src, 1, 1 - 1) = <<>>
    BY SubSeqEmpty
  <2>2. Range(<<>>) = {}
    BY DEF Range
  <2>3. 1 \in DOMAIN src
    BY <1>2
  <2>4. 1 \in had <=> src[1] \in Range(dst) \cup Range(SubSeq(src, 1, 1 - 1))
    BY <2>3
  <2> QED
    BY <2>1, <2>2, <2>4
<1> HIDE DEF had
<1>6. n \in 0..Len(src) /\ (src[1] \in Range(dst) <=> n = 0)
  <2>1. CASE had = {}
    BY <1>2, <1>5, <2>1
  <2>2. CASE had # {}
    <3> DEFINE l == Min(had)
    <3>1. l \in 1..Len(src) /\ \A i \in had : l <= i
      BY <1>3, <1>4, <2>2
    <3>2. 1 \in had <=> l = 1
      <4>1. l \in had
        BY <1>3, <2>2
      <4> HIDE DEF l
      <4> QED
        BY <1>2, <3>1, <4>1
    <3>3. n = l - 1
      BY <2>2
    <3> HIDE DEF l, n
    <3> QED
      BY <1>2, <1>5, <3>1, <3>2, <3>3
  <2> QED
    BY <2>1, <2>2
<1> HIDE DEF n
<1>7. new \in Seq(R) /\ Len(new) = n /\ \A i \in 1..n : new[i] = src[i]
  <2>1. \A i \in 1..n : src[i] \in R
    BY <1>2, <1>6
  <2>2. /\ new \in Seq(R)
        /\ Len(new) = IF 1 <= n THEN n - 1 + 1 ELSE 0
        /\ \A i \in 1..n - 1 + 1 : new[i] = src[1 + i - 1]
    BY <1>6, <2>1, SubSeqProperties
  <2> HIDE DEF new
  <2> QED
    BY <1>6, <2>2
<1>8. Range(new) \subseteq Range(src) /\ (n # 0 => src[1] \in Range(new)) /\ (n = 0 => new = <<>>)
  <2> HIDE DEF new
  <2>1. DOMAIN new = 1..n
    BY <1>7
  <2>2. \A i \in 1..n : i \in DOMAIN src
    BY <1>2, <1>6
  <2>3. n # 0 => 1 \in 1..n
    BY <1>6
  <2> QED
    BY <1>7, <2>1, <2>2, <2>3 DEF Range
<1> HIDE DEF new
<1>9. /\ dst \o new \in Seq(R) /\ Range(dst \o new) = Range(dst) \cup Range(new)
      /\ dst # <<>> => (dst \o new)[1] = dst[1]
      /\ new = <<>> => dst \o new = dst
  <2>1. Range(dst \o new) = Range(dst) \cup Range(new)
    BY <1>7, RangeConcatenation
  <2>2. new = <<>> => dst \o new = dst
    BY ConcatEmptySeq
  <2>3. dst # <<>> => 1 \in 1..Len(dst) + Len(new) /\ 1 <= Len(dst)
    BY <1>7
  <2>4. dst \o new \in Seq(R) /\ (dst # <<>> => (dst \o new)[1] = dst[1])
    BY <1>7, <2>3, ConcatProperties
  <2> QED
    BY <2>1, <2>2, <2>4
<1>10. Range(src) \in SUBSET R /\ src[1] \in Range(src)
  BY <1>2 DEF Range
<1> QED
  BY <1>1, <1>6, <1>8, <1>9, <1>10
------------------------------------------------------------------------------
(* What the steps of the parser and the linker have in common. *)

Name == Role \cup {Unknown}
Map == [kind : Kind, roles : Seq(Name)]

\* The parts of the type invariant that most steps need.
LEMMA MapTypes ==
  ASSUME TypeOK
  PROVE  /\ Len(maps) \in Nat /\ DOMAIN maps = 1..Len(maps) /\ maps \in Seq(Map)
         /\ \A m \in DOMAIN maps : maps[m] \in Map /\ maps[m].kind \in Kind /\ maps[m].roles \in Seq(Name)
         /\ \A m \in DOMAIN maps : Held(m) \subseteq Name
         /\ next \in 1..Len(maps) + 1 /\ allMap \in 0..Len(maps)
         /\ \A op \in Op : opMap[op] \in 0..Len(maps)
         /\ \A f \in Field : fieldMap[f] \in 0..Len(maps)
<1>1. maps \in Seq(Map)
  BY DEF TypeOK, Map, Name
<1>2. Len(maps) \in Nat /\ DOMAIN maps = 1..Len(maps) /\ \A m \in DOMAIN maps : maps[m] \in Map
  BY <1>1
<1>3. \A m \in DOMAIN maps : maps[m].kind \in Kind /\ maps[m].roles \in Seq(Name)
  BY <1>2 DEF Map
<1>4. ASSUME NEW m \in DOMAIN maps PROVE Held(m) \subseteq Name
  <2>1. PICK s \in Seq(Name) : s = maps[m].roles
    BY <1>3
  <2>2. Range(s) \subseteq Name
    BY DEF Range
  <2> QED
    BY <2>1, <2>2 DEF Held
<1> QED
  BY <1>1, <1>2, <1>3, <1>4 DEF TypeOK, MapId

\* The kinds of maps.
LEMMA KindFacts ==
  ASSUME NEW k \in Kind
  PROVE  /\ k = <<k[1], k[2]>> /\ k[1] \in {"all", "op", "noexport"}
         /\ k[1] = "all" => k[2] = NoName
         /\ k[1] = "noexport" => k[2] \in Field \cup {NoName}
         /\ k[2] \in Op \cup Field \cup {Missing, NoName}
  BY DEF Kind

\* A list of maps whose members are replaced.
LEMMA Replaced ==
  ASSUME NEW S, NEW s \in Seq(S), NEW t, t = [i \in DOMAIN s |-> t[i]], \A i \in DOMAIN s : t[i] \in S
  PROVE  t \in Seq(S) /\ Len(t) = Len(s) /\ DOMAIN t = DOMAIN s
<1>1. Len(s) \in Nat /\ DOMAIN s = 1..Len(s)
  OBVIOUS
<1>2. t \in [1..Len(s) -> S]
  BY <1>1
<1>3. t \in Seq(S)
  BY <1>1, <1>2, SeqDef
<1>4. Len(t) \in Nat /\ DOMAIN t = 1..Len(t) /\ DOMAIN t = 1..Len(s)
  BY <1>2, <1>3
<1>5. Len(t) = Len(s)
  BY <1>1, <1>4
<1> QED
  BY <1>1, <1>3, <1>4, <1>5

\* A map that is given other roles.
LEMMA WithRoles ==
  ASSUME NEW e \in Map, NEW rs \in Seq(Name)
  PROVE  /\ [e EXCEPT !.roles = rs] = [kind |-> e.kind, roles |-> rs]
         /\ [e EXCEPT !.roles = rs] \in Map
         /\ rs = e.roles => [e EXCEPT !.roles = rs] = e
  BY DEF Map

\* What was written of a kind.
LEMMA WrittenFacts ==
  ASSUME NEW t, NEW x
  PROVE  Written(t, x) # {} <=> \E d \in decl : d[2] = t /\ d[3] = x
  BY DEF Written

\* A step that leaves the maps and the statements as they are.
LEMMA SameMaps ==
  ASSUME UNCHANGED <<maps, decl>>
  PROVE  /\ \A m : Said(m)' = Said(m) /\ Held(m)' = Held(m)
         /\ \A t, x : Written(t, x)' = Written(t, x)
         /\ \A m, f : (Concerns(m, f)' <=> Concerns(m, f)) /\ (First(m, f)' <=> First(m, f))
         /\ (Kinds' <=> Kinds) /\ (Separate' <=> Separate)
         /\ \A n : Shares(n)' <=> Shares(n)
<1>1. \A t, x : Written(t, x)' = Written(t, x)
  BY DEF Written
<1>2. \A m : Said(m)' = Said(m) /\ Held(m)' = Held(m)
  BY <1>1 DEF Said, Held
<1>3. \A m, f : Concerns(m, f)' <=> Concerns(m, f)
  BY DEF Concerns
<1>4. \A m, f : First(m, f)' <=> First(m, f)
  BY <1>3 DEF First
<1>5. (NamesFields' <=> NamesFields) /\ (Unmixed' <=> Unmixed)
  BY <1>1 DEF NamesFields, Unmixed
<1>6. Kinds' <=> Kinds
  BY <1>2 DEF Kinds
<1>7. Separate' <=> Separate
  BY <1>2, <1>5 DEF Separate
<1>8. ASSUME NEW n PROVE Shares(n)' <=> Shares(n)
  BY <1>2, <1>3, <1>4 DEF Shares
<1> QED
  BY <1>1, <1>2, <1>3, <1>4, <1>6, <1>7, <1>8

\* There are no maps to begin with.
LEMMA InitIInv == Init => IInv
<1> SUFFICES ASSUME Init PROVE IInv
  OBVIOUS
<1>1. /\ maps = <<>> /\ Len(maps) = 0 /\ DOMAIN maps = {} /\ maps \in Seq(Map) /\ next = 1 /\ phase = "parse"
      /\ 1..next - 1 = {}
  BY DEF Init
<1>2. TypeOK
  BY <1>1 DEF Init, TypeOK, MapId, Map, Name
<1>3. Kinds /\ Holdings /\ Separate
  BY <1>1 DEF Init, Kinds, Holdings, Separate
<1>4. LinkedOps
  BY <1>1 DEF Init, LinkedOps
<1>5. LinkedFields
  BY <1>1 DEF Init, LinkedFields
<1>6. Shares(next - 1) /\ Failures /\ Settled /\ Saved /\ OpRolesExact
  BY <1>1 DEF Init, Shares, Failures, Settled, Saved, OpRolesExact
<1> QED
  BY <1>2, <1>3, <1>4, <1>5, <1>6 DEF IInv

\* linker_resolve(), first pass.
LEMMA ResolveNamesIInv == IInv /\ ResolveNames => IInv'
<1> SUFFICES ASSUME IInv, ResolveNames PROVE IInv'
  OBVIOUS
<1> USE DEF IInv
<1>1. /\ phase = "parse" /\ phase' \in {"link", "fail"} /\ saved = <<>>
      /\ UNCHANGED <<maps, next, fails, opMap, fieldMap, allMap, decl, saved>>
      /\ phase' = "link" => \A m \in DOMAIN maps : Unknown \notin Held(m)
  BY DEF ResolveNames, Saved, Held
<1>2. TypeOK'
  BY <1>1 DEF TypeOK, MapId
<1>3. /\ \A m : Said(m)' = Said(m) /\ Held(m)' = Held(m)
      /\ \A t, x : Written(t, x)' = Written(t, x)
      /\ \A m, f : (Concerns(m, f)' <=> Concerns(m, f)) /\ (First(m, f)' <=> First(m, f))
      /\ (Kinds' <=> Kinds) /\ (Separate' <=> Separate)
      /\ \A n : Shares(n)' <=> Shares(n)
  BY <1>1, SameMaps
<1>4. Kinds' /\ Separate' /\ Shares(next - 1)'
  BY <1>1, <1>3 DEF Shares
<1>5. Holdings'
  BY <1>1, <1>3 DEF Holdings
<1>6. LinkedOps'
  BY <1>1 DEF LinkedOps
<1>7. LinkedFields'
  BY <1>1, <1>3 DEF LinkedFields
<1>8. Failures' /\ Settled' /\ Saved' /\ OpRolesExact'
  BY <1>1 DEF Failures, Settled, Saved, OpRolesExact
<1> QED
  BY <1>2, <1>4, <1>5, <1>6, <1>7, <1>8

\* The end of the second pass.
LEMMA EndLinkIInv == IInv /\ EndLink => IInv'
<1> SUFFICES ASSUME IInv, EndLink PROVE IInv'
  OBVIOUS
<1> USE DEF IInv
<1>1. /\ phase = "link" /\ phase' \in {"post", "fail"} /\ (phase' = "post" <=> fails = 0)
      /\ UNCHANGED <<maps, next, fails, opMap, fieldMap, allMap, decl, saved>>
      /\ next = Len(maps) + 1
  BY MapTypes DEF EndLink, TypeOK
<1>2. TypeOK'
  BY <1>1 DEF TypeOK, MapId
<1>3. /\ \A m : Said(m)' = Said(m) /\ Held(m)' = Held(m)
      /\ \A t, x : Written(t, x)' = Written(t, x)
      /\ \A m, f : (Concerns(m, f)' <=> Concerns(m, f)) /\ (First(m, f)' <=> First(m, f))
      /\ (Kinds' <=> Kinds) /\ (Separate' <=> Separate)
      /\ \A n : Shares(n)' <=> Shares(n)
  BY <1>1, SameMaps
<1>4. Kinds' /\ Separate' /\ Shares(next - 1)'
  BY <1>1, <1>3 DEF Shares
<1>5. Holdings'
  BY <1>1, <1>3 DEF Holdings
<1>6. LinkedOps'
  BY <1>1 DEF LinkedOps
<1>7. LinkedFields'
  BY <1>1, <1>3 DEF LinkedFields
<1>8. Failures' /\ OpRolesExact'
  BY <1>1 DEF Failures, OpRolesExact
<1>9. Settled'
  BY <1>1, <1>3 DEF Settled
<1>10. Saved'
  BY <1>1, <1>3 DEF Saved, Failures
<1> QED
  BY <1>2, <1>4, <1>5, <1>6, <1>7, <1>8, <1>9, <1>10

\* A step that passes an entry that is not about fields, and leaves maps,
\* fields and statements as they are.
LEMMA OtherEntry ==
  ASSUME IInv, next \in DOMAIN maps, maps[next].kind[1] # "noexport", next' = next + 1,
         phase = "link", UNCHANGED <<maps, phase, fieldMap, decl, saved>>
  PROVE  /\ Kinds' /\ Holdings' /\ Separate' /\ LinkedFields' /\ Shares(next - 1)'
         /\ Settled' /\ Saved' /\ OpRolesExact'
<1> USE DEF IInv
<1>1. next \in Nat \ {0} /\ next' - 1 = next /\ 1..next = (1..next - 1) \cup {next}
  BY MapTypes
<1>2. /\ \A m : Said(m)' = Said(m) /\ Held(m)' = Held(m)
      /\ \A t, x : Written(t, x)' = Written(t, x)
      /\ \A m, f : (Concerns(m, f)' <=> Concerns(m, f)) /\ (First(m, f)' <=> First(m, f))
      /\ (Kinds' <=> Kinds) /\ (Separate' <=> Separate)
      /\ \A n : Shares(n)' <=> Shares(n)
  BY SameMaps
<1>3. \A f : ~Concerns(next, f) /\ ~First(next, f)
  BY DEF Concerns, First
<1>4. Kinds' /\ Separate'
  BY <1>2
<1>5. Holdings'
  BY <1>2 DEF Holdings
<1>6. LinkedFields'
  <2>1. ASSUME NEW f \in Field, fieldMap[f] # 0 PROVE fieldMap[f] < next + 1
    BY <1>1, <2>1, MapTypes DEF LinkedFields
  <2>2. ASSUME NEW f \in Field, fieldMap[f] = 0, NEW m \in 1..next PROVE ~Concerns(m, f)
    BY <1>1, <1>3, <2>2 DEF LinkedFields
  <2> QED
    BY <1>1, <1>2, <2>1, <2>2 DEF LinkedFields
<1>7. Shares(next - 1)'
  <2>1. Shares(next)
    BY <1>1, <1>3 DEF Shares
  <2>2. \A f \in Field : \A k, m \in 1..next :
          First(k, f)' /\ Concerns(m, f)' => (maps[m].roles[1])' \in Held(k)'
    BY <1>2, <2>1 DEF Shares
  <2> QED
    BY <1>1, <2>2 DEF Shares
<1>8. Settled'
  BY <1>2 DEF Settled
<1>9. Saved'
  BY <1>2 DEF Saved
<1> QED
  BY <1>4, <1>5, <1>6, <1>7, <1>8, <1>9 DEF OpRolesExact

\* resolve_struct_rolemap_all()
LEMMA LinkAllIInv == IInv /\ LinkAll => IInv'
<1> SUFFICES ASSUME IInv, LinkAll PROVE IInv'
  OBVIOUS
<1> USE DEF IInv
<1>1. /\ phase = "link" /\ next \in 1..Len(maps) /\ maps[next].kind[1] = "all"
      /\ next' = next + 1 /\ allMap' = next
      /\ UNCHANGED <<maps, phase, fails, opMap, fieldMap, decl, saved>>
  BY MapTypes DEF LinkAll, Linking, Entry
<1>2. next \in DOMAIN maps /\ 1..next = (1..next - 1) \cup {next} /\ next' - 1 = next
  BY <1>1, MapTypes
<1>3. /\ Kinds' /\ Holdings' /\ Separate' /\ LinkedFields' /\ Shares(next - 1)'
      /\ Settled' /\ Saved' /\ OpRolesExact'
  BY <1>1, <1>2, OtherEntry
<1>4. TypeOK'
  BY <1>1, MapTypes DEF TypeOK, MapId
<1>5. LinkedOps'
  <2>1. ASSUME NEW op \in Op, opMap[op] # 0
        PROVE  opMap[op] < next + 1 /\ maps[opMap[op]].kind = <<"op", op>>
    BY <1>1, <2>1, MapTypes DEF LinkedOps
  <2>2. ASSUME NEW op \in Op, NEW m \in 1..next, maps[m].kind = <<"op", op>> PROVE opMap[op] = m
    <3>1. m \in 1..next - 1
      <4>1. maps[next].kind # <<"op", op>>
        BY <1>1
      <4> QED
        BY <1>2, <2>2, <4>1
    <3> QED
      BY <1>1, <2>2, <3>1 DEF LinkedOps
  <2>3. ASSUME NEW m \in 1..next, maps[m].kind[1] = "all" PROVE next = m
    <3>1. m \in DOMAIN maps
      BY <1>1, MapTypes
    <3>2. maps[m].kind = <<"all", NoName>> /\ maps[next].kind = <<"all", NoName>>
      <4>1. maps[m].kind \in Kind /\ maps[next].kind \in Kind
        BY <1>2, <3>1, MapTypes
      <4> QED
        BY <1>1, <2>3, <4>1, KindFacts
    <3> QED
      BY <1>2, <3>1, <3>2 DEF Kinds
  <2> QED
    BY <1>1, <1>2, <2>1, <2>2, <2>3 DEF LinkedOps
<1>6. Failures'
  <2>1. fails \in Nat /\ fails < next + 1
    BY <1>1, MapTypes DEF Failures, TypeOK
  <2>2. ASSUME fails = 0, NEW m \in 1..next, maps[m].kind[1] = "op" PROVE maps[m].kind[2] \in Op
    BY <1>1, <1>2, <2>2 DEF Failures
  <2> QED
    BY <1>1, <1>2, <2>1, <2>2 DEF Failures
<1> QED
  BY <1>3, <1>4, <1>5, <1>6

\* resolve_struct_rolemap_insert(), _update(), _query()
LEMMA LinkOpIInv == IInv /\ LinkOp => IInv'
<1> SUFFICES ASSUME IInv, LinkOp PROVE IInv'
  OBVIOUS
<1> USE DEF IInv
<1> DEFINE x == maps[next].kind[2]
<1>1. /\ phase = "link" /\ next \in 1..Len(maps) /\ maps[next].kind[1] = "op"
      /\ next' = next + 1
      /\ \/ x \in Op /\ opMap' = [opMap EXCEPT ![x] = next] /\ fails' = fails
         \/ x \notin Op /\ opMap' = opMap /\ fails' = fails + 1
      /\ UNCHANGED <<maps, phase, fieldMap, allMap, decl, saved>>
  BY MapTypes DEF LinkOp, Linking, Entry
<1>2. next \in DOMAIN maps /\ 1..next = (1..next - 1) \cup {next} /\ next' - 1 = next
  BY <1>1, MapTypes
<1>3. /\ Kinds' /\ Holdings' /\ Separate' /\ LinkedFields' /\ Shares(next - 1)'
      /\ Settled' /\ Saved' /\ OpRolesExact'
  BY <1>1, <1>2, OtherEntry
<1>4. maps[next].kind = <<"op", x>>
  <2>1. maps[next].kind \in Kind
    BY <1>2, MapTypes
  <2> QED
    BY <1>1, <2>1, KindFacts
<1>5. TypeOK'
  <2>1. opMap' \in [Op -> MapId']
    <3>1. opMap \in [Op -> MapId] /\ next \in MapId /\ MapId' = MapId
      BY <1>1, MapTypes DEF TypeOK, MapId
    <3> QED
      BY <1>1, <3>1
  <2>2. fails' \in 0..Len(maps)
    <3>1. fails \in Nat /\ fails < next /\ Len(maps) \in Nat /\ (fails' = fails \/ fails' = fails + 1)
      BY <1>1, MapTypes DEF TypeOK, Failures
    <3> QED
      BY <1>1, <3>1
  <2>3. next' \in 1..Len(maps) + 1 /\ MapId' = MapId
    BY <1>1, MapTypes DEF MapId
  <2> QED
    BY <1>1, <2>1, <2>2, <2>3 DEF TypeOK
<1>6. LinkedOps'
  <2>1. ASSUME NEW op \in Op, opMap'[op] # 0
        PROVE  opMap'[op] < next + 1 /\ maps[opMap'[op]].kind = <<"op", op>>
    <3>1. CASE opMap'[op] = opMap[op]
      BY <1>1, <2>1, <3>1, MapTypes DEF LinkedOps
    <3>2. CASE opMap'[op] # opMap[op]
      <4>1. op = x /\ opMap'[op] = next
        BY <1>1, <3>2 DEF TypeOK
      <4> QED
        BY <1>1, <1>4, <4>1
    <3> QED
      BY <3>1, <3>2
  <2>2. ASSUME NEW op \in Op, NEW m \in 1..next, maps[m].kind = <<"op", op>> PROVE opMap'[op] = m
    <3>1. CASE op = x
      <4>1. m = next
        <5>1. m \in DOMAIN maps
          BY <1>1, MapTypes
        <5> QED
          BY <1>2, <1>4, <2>2, <3>1, <5>1 DEF Kinds
      <4> QED
        BY <1>1, <3>1, <4>1 DEF TypeOK
    <3>2. CASE op # x
      <4>1. m \in 1..next - 1
        BY <1>2, <1>4, <2>2, <3>2
      <4>2. opMap'[op] = opMap[op]
        BY <1>1, <3>2 DEF TypeOK
      <4> QED
        BY <1>1, <2>2, <4>1, <4>2 DEF LinkedOps
    <3> QED
      BY <3>1, <3>2
  <2>3. allMap # 0 => allMap < next + 1 /\ maps[allMap].kind[1] = "all"
    BY <1>1, MapTypes DEF LinkedOps
  <2>4. ASSUME NEW m \in 1..next, maps[m].kind[1] = "all" PROVE allMap = m
    BY <1>1, <1>2, <2>4 DEF LinkedOps
  <2> QED
    BY <1>1, <1>2, <2>1, <2>2, <2>3, <2>4 DEF LinkedOps
<1>7. Failures'
  <2>1. saved # <<>> => x \in Op
    BY <1>1, <1>2 DEF Settled
  <2>2. fails \in Nat /\ fails' < next'
    BY <1>1, MapTypes DEF Failures, TypeOK
  <2>3. saved # <<>> => fails' = 0
    BY <1>1, <2>1 DEF Failures
  <2>4. ASSUME fails' = 0, NEW m \in 1..next, maps[m].kind[1] = "op" PROVE maps[m].kind[2] \in Op
    BY <1>1, <1>2, <2>2, <2>4 DEF Failures
  <2> QED
    BY <1>1, <1>2, <2>2, <2>3, <2>4 DEF Failures
<1> QED
  BY <1>3, <1>5, <1>6, <1>7

\* When a pass without a failure is over, each map of an operation is the map
\* of that operation, and only those are; and that of "all" is found if there
\* is one.
LEMMA AllLinked ==
  ASSUME IInv, phase = "post"
  PROVE  /\ \A m \in DOMAIN maps : maps[m].kind[1] = "op" <=> m \in Range(opMap)
         /\ \A m \in DOMAIN maps : maps[m].kind[1] = "op" =>
              /\ maps[m].kind[2] \in Op /\ opMap[maps[m].kind[2]] = m /\ Said(m) = Written("op", maps[m].kind[2])
         /\ \A op \in Op : opMap[op] = 0 => Written("op", op) = {}
         /\ \A op \in Op : opMap[op] # 0 =>
              opMap[op] \in DOMAIN maps /\ maps[opMap[op]].kind = <<"op", op>>
         /\ allMap = 0 => Written("all", NoName) = {}
         /\ allMap # 0 =>
              /\ allMap \in DOMAIN maps /\ maps[allMap].kind[1] = "all"
              /\ Held(allMap) = Written("all", NoName)
<1> USE DEF IInv
<1>1. fails = 0 /\ 1..next - 1 = DOMAIN maps /\ DOMAIN maps = 1..Len(maps) /\ Len(maps) \in Nat
  BY MapTypes DEF Failures
<1>2. /\ \A op \in Op : opMap[op] # 0 => opMap[op] \in DOMAIN maps /\ maps[opMap[op]].kind = <<"op", op>>
      /\ \A op \in Op : \A m \in DOMAIN maps : maps[m].kind = <<"op", op>> => opMap[op] = m
      /\ allMap # 0 => allMap \in DOMAIN maps /\ maps[allMap].kind[1] = "all"
      /\ \A m \in DOMAIN maps : maps[m].kind[1] = "all" => allMap = m
  <2>1. /\ \A op \in Op : opMap[op] # 0 => maps[opMap[op]].kind = <<"op", op>>
        /\ \A op \in Op : \A m \in DOMAIN maps : maps[m].kind = <<"op", op>> => opMap[op] = m
        /\ allMap # 0 => maps[allMap].kind[1] = "all"
        /\ \A m \in DOMAIN maps : maps[m].kind[1] = "all" => allMap = m
    BY <1>1 DEF LinkedOps
  <2>2. \A op \in Op : opMap[op] # 0 => opMap[op] \in DOMAIN maps
    BY <1>1, MapTypes
  <2>3. allMap # 0 => allMap \in DOMAIN maps
    BY <1>1, MapTypes
  <2> QED
    BY <2>1, <2>2, <2>3
<1>3. ASSUME NEW m \in DOMAIN maps, maps[m].kind[1] = "op"
      PROVE  /\ maps[m].kind = <<"op", maps[m].kind[2]>> /\ maps[m].kind[2] \in Op
             /\ opMap[maps[m].kind[2]] = m /\ Said(m) = Written("op", maps[m].kind[2])
  <2>1. maps[m].kind \in Kind
    BY MapTypes
  <2>2. maps[m].kind = <<"op", maps[m].kind[2]>>
    BY <1>3, <2>1, KindFacts
  <2>3. maps[m].kind[2] \in Op
    BY <1>1, <1>3 DEF Failures
  <2> QED
    BY <1>2, <1>3, <2>2, <2>3 DEF Said
<1>4. DOMAIN opMap = Op
  BY DEF TypeOK
<1>5. ASSUME NEW m \in DOMAIN maps PROVE maps[m].kind[1] = "op" <=> m \in Range(opMap)
  <2>1. CASE maps[m].kind[1] = "op"
    BY <1>3, <1>4, <2>1 DEF Range
  <2>2. CASE m \in Range(opMap)
    <3>1. PICK op \in Op : opMap[op] = m
      BY <1>4, <2>2 DEF Range
    <3>2. m # 0
      BY <1>1
    <3>3. maps[m].kind = <<"op", op>>
      BY <1>2, <3>1, <3>2
    <3>4. maps[m].kind[1] = "op"
      BY <3>3
    <3> QED
      BY <2>2, <3>4
  <2> QED
    BY <2>1, <2>2
<1>6. ASSUME NEW op \in Op, opMap[op] = 0 PROVE Written("op", op) = {}
  <2>1. SUFFICES ASSUME NEW d \in decl, d[2] = "op", d[3] = op PROVE FALSE
    BY WrittenFacts
  <2>2. PICK m \in DOMAIN maps : maps[m].kind = <<"op", op>>
    BY <2>1 DEF Kinds
  <2>3. opMap[op] = m /\ m # 0
    BY <1>1, <1>2, <2>2
  <2> QED
    BY <1>6, <2>3
<1>7. ASSUME allMap = 0 PROVE Written("all", NoName) = {}
  <2>1. SUFFICES ASSUME NEW d \in decl, d[2] = "all", d[3] = NoName PROVE FALSE
    BY WrittenFacts
  <2>2. PICK m \in DOMAIN maps : maps[m].kind = <<"all", NoName>>
    BY <2>1 DEF Kinds
  <2>3. allMap = m /\ m # 0
    BY <1>1, <1>2, <2>2
  <2> QED
    BY <1>7, <2>3
<1>8. ASSUME allMap # 0 PROVE Held(allMap) = Written("all", NoName)
  <2>1. allMap \in DOMAIN maps /\ maps[allMap].kind[1] = "all"
    BY <1>2, <1>8
  <2>2. maps[allMap].kind \in Kind
    BY <2>1, MapTypes
  <2>3. maps[allMap].kind[2] = NoName
    BY <2>1, <2>2, KindFacts
  <2> QED
    BY <2>1, <2>3 DEF Holdings, Said
<1> QED
  BY <1>2, <1>3, <1>5, <1>6, <1>7, <1>8

\* The third pass extends the map of each operation by what "all" was given.
LEMMA PostMaps ==
  ASSUME IInv, Post
  PROVE  /\ maps' \in Seq(Map) /\ Len(maps') = Len(maps) /\ DOMAIN maps' = DOMAIN maps
         /\ \A m \in DOMAIN maps : maps'[m].kind = maps[m].kind
         /\ \A m \in DOMAIN maps : maps[m].kind[1] # "op" => maps'[m] = maps[m]
         /\ \A m \in DOMAIN maps : maps[m].kind[1] = "op" =>
              /\ Held(m)' = Held(m) \cup Written("all", NoName)
              /\ saved # <<>> => maps'[m] = maps[m]
<1> USE DEF IInv
<1> DEFINE A == Written("all", NoName)
<1>1. phase = "post"
  BY DEF Post
<1>2. /\ DOMAIN maps = 1..Len(maps) /\ Len(maps) \in Nat /\ maps \in Seq(Map)
      /\ \A m \in DOMAIN maps : maps[m] \in Map /\ maps[m].kind \in Kind /\ maps[m].roles \in Seq(Name)
  BY MapTypes
<1>3. /\ \A m \in DOMAIN maps : maps[m].kind[1] = "op" <=> m \in Range(opMap)
      /\ allMap = 0 => A = {}
      /\ allMap # 0 =>
           allMap \in DOMAIN maps /\ maps[allMap].kind[1] = "all" /\ Held(allMap) = A
  BY <1>1, AllLinked
<1>4. maps' = [m \in DOMAIN maps |->
                 IF allMap # 0 /\ m \in Range(opMap)
                 THEN [maps[m] EXCEPT !.roles = Covered(@, maps[allMap].roles)]
                 ELSE maps[m]]
  BY DEF Post, CoverOps
<1>5. ASSUME NEW m \in DOMAIN maps, allMap # 0, maps[m].kind[1] = "op"
      PROVE  /\ maps'[m] \in Map /\ maps'[m].kind = maps[m].kind
             /\ Held(m)' = Held(m) \cup A
             /\ saved # <<>> => maps'[m] = maps[m]
  <2> DEFINE c == Covered(maps[m].roles, maps[allMap].roles)
  <2>1. /\ c \in Seq(Name) /\ Range(c) = Held(m) \cup Held(allMap)
        /\ Held(allMap) \subseteq Held(m) => c = maps[m].roles
    BY <1>2, <1>3, <1>5, CoveredFacts DEF Held
  <2>2. maps'[m] = [maps[m] EXCEPT !.roles = c]
    BY <1>3, <1>4, <1>5
  <2> HIDE DEF c
  <2>3. maps'[m] \in Map /\ maps'[m].kind = maps[m].kind /\ maps'[m].roles = c
    BY <1>2, <2>1, <2>2 DEF Map
  <2>4. c = maps[m].roles => maps'[m] = maps[m]
    BY <1>2, <2>2 DEF Map
  <2>5. saved # <<>> => A \subseteq Held(m)
    BY <1>5 DEF Settled
  <2> QED
    BY <1>3, <1>5, <2>1, <2>3, <2>4, <2>5 DEF Held
<1>6. ASSUME NEW m \in DOMAIN maps, allMap = 0 \/ maps[m].kind[1] # "op" PROVE maps'[m] = maps[m]
  BY <1>3, <1>4, <1>6
<1>7. \A m \in DOMAIN maps : maps'[m] \in Map
  BY <1>2, <1>5, <1>6
<1>8. maps' = [m \in DOMAIN maps |-> maps'[m]]
  BY <1>4
<1>9. maps' \in Seq(Map) /\ Len(maps') = Len(maps) /\ DOMAIN maps' = DOMAIN maps
  BY <1>2, <1>7, <1>8, Replaced
<1>10. \A m \in DOMAIN maps : maps[m].kind[1] = "op" =>
         /\ Held(m)' = Held(m) \cup A
         /\ saved # <<>> => maps'[m] = maps[m]
  BY <1>3, <1>5, <1>6 DEF Held
<1> QED
  BY <1>5, <1>6, <1>9, <1>10

\* resolve_struct_rolemap_post(), check_unique_roles()
LEMMA PostIInv == IInv /\ Post => IInv'
<1> SUFFICES ASSUME IInv, Post PROVE IInv'
  OBVIOUS
<1> USE DEF IInv
<1> DEFINE A == Written("all", NoName)
<1>1. /\ phase = "post" /\ phase' \in {"done", "fail"} /\ next = Len(maps) + 1 /\ fails = 0
      /\ phase' = "done" <=> \A m \in DOMAIN maps' : IsInjective(maps'[m].roles)
      /\ opMap' = [op \in Op |-> IF opMap[op] = 0 THEN allMap ELSE opMap[op]]
      /\ UNCHANGED <<next, fails, fieldMap, allMap, decl, saved>>
  BY DEF Post, CoverOps, HasDuplicates, Failures
<1>2. /\ DOMAIN maps = 1..Len(maps) /\ Len(maps) \in Nat
      /\ \A m \in DOMAIN maps : maps[m].kind \in Kind
  BY MapTypes
<1>3. /\ maps' \in Seq(Map) /\ Len(maps') = Len(maps) /\ DOMAIN maps' = DOMAIN maps
      /\ \A m \in DOMAIN maps : maps'[m].kind = maps[m].kind
      /\ \A m \in DOMAIN maps : maps[m].kind[1] # "op" => maps'[m] = maps[m]
      /\ \A m \in DOMAIN maps : maps[m].kind[1] = "op" => Held(m)' = Held(m) \cup A
      /\ saved # <<>> => \A m \in DOMAIN maps : maps'[m] = maps[m]
  BY PostMaps
<1>4. /\ \A t, x : Written(t, x)' = Written(t, x)
      /\ Unmixed' <=> Unmixed
  BY <1>1 DEF Written, Unmixed, NamesFields
<1>5. /\ \A m \in DOMAIN maps : Said(m)' = Said(m)
      /\ \A m \in DOMAIN maps : maps[m].kind[1] # "op" => Held(m)' = Held(m)
      /\ \A m \in DOMAIN maps : \A f : Concerns(m, f)' <=> Concerns(m, f)
  BY <1>3, <1>4 DEF Said, Held, Concerns
<1>6. \A m \in DOMAIN maps : \A f : Concerns(m, f) => maps[m].kind[1] = "noexport"
  BY DEF Concerns
<1>7. ASSUME NEW m \in DOMAIN maps, NEW f PROVE First(m, f)' <=> First(m, f)
  <2>1. \A k \in 1..m - 1 : k \in DOMAIN maps
    BY <1>2
  <2> QED
    BY <1>5, <2>1 DEF First
<1>8. TypeOK'
  <2>1. opMap' \in [Op -> MapId']
    <3>1. \A op \in Op : opMap'[op] \in 0..Len(maps)
      BY <1>1, MapTypes
    <3> QED
      BY <1>1, <1>3, <3>1 DEF MapId
  <2>2. maps' \in Seq([kind : Kind, roles : Seq(Role \cup {Unknown})])
    BY <1>3 DEF Map, Name
  <2> QED
    BY <1>1, <1>3, <2>1, <2>2 DEF TypeOK, MapId
<1>9. Kinds'
  <2>1. \A i, j \in DOMAIN maps : maps'[i].kind = maps'[j].kind => i = j
    BY <1>3 DEF Kinds
  <2>2. \A d \in decl : \E m \in DOMAIN maps : maps'[m].kind = <<d[2], d[3]>>
    BY <1>3 DEF Kinds
  <2>3. \A m \in DOMAIN maps : Said(m)' # {}
    BY <1>5 DEF Kinds
  <2> QED
    BY <1>1, <1>3, <2>1, <2>2, <2>3 DEF Kinds
<1>10. \A m \in DOMAIN maps : maps[m].kind[1] = "op" => maps[m].kind[2] \in Op
  BY <1>1, AllLinked
<1>11. /\ A \subseteq Name \ {Unknown}
       /\ \A m \in DOMAIN maps : Unknown \notin Held(m)
  <2>1. \A m \in DOMAIN maps : Unknown \notin Held(m)
    BY <1>1 DEF Holdings
  <2>2. A = {} \/ \E m \in DOMAIN maps : A = Held(m)
    BY <1>1, AllLinked
  <2> QED
    BY <2>1, <2>2, MapTypes
<1>12. Holdings'
  <2>1. ASSUME NEW m \in DOMAIN maps
        PROVE  /\ Said(m) \subseteq Held(m)'
               /\ maps[m].kind[1] = "all" => Held(m)' = Said(m)
               /\ maps[m].kind[1] = "op" => Held(m)' \subseteq Said(m) \cup A
               /\ Unknown \notin Held(m)'
    <3>1. CASE maps[m].kind[1] = "op"
      BY <1>3, <1>11, <3>1 DEF Holdings
    <3>2. CASE maps[m].kind[1] # "op"
      BY <1>5, <1>11, <3>2 DEF Holdings
    <3> QED
      BY <3>1, <3>2
  <2> QED
    BY <1>1, <1>3, <1>4, <1>5, <2>1 DEF Holdings
<1>13. Separate'
  BY <1>3, <1>4, <1>5 DEF Separate
<1>14. LinkedOps'
  BY <1>1 DEF LinkedOps
<1>15. LinkedFields'
  <2>1. 1..next - 1 = DOMAIN maps
    BY <1>1, <1>2
  <2>2. ASSUME NEW f \in Field, fieldMap[f] # 0 PROVE fieldMap[f] \in DOMAIN maps
    BY <1>2, <2>2, MapTypes
  <2>3. ASSUME NEW f \in Field, fieldMap[f] # 0 PROVE fieldMap[f] < next /\ First(fieldMap[f], f)'
    <3>1. PICK m \in DOMAIN maps : m = fieldMap[f]
      BY <2>2, <2>3
    <3>2. m < next /\ First(m, f)
      BY <2>3, <3>1 DEF LinkedFields
    <3>3. First(m, f)'
      BY <1>7, <3>2
    <3> QED
      BY <1>1, <3>1, <3>2, <3>3
  <2>4. \A f \in Field : fieldMap[f] = 0 => \A m \in 1..next - 1 : ~Concerns(m, f)'
    BY <1>5, <2>1 DEF LinkedFields
  <2> QED
    BY <1>1, <2>3, <2>4 DEF LinkedFields
<1>16. Shares(Len(maps))'
  <2>1. \A f \in Field : \A k, m \in 1..Len(maps) :
          First(k, f)' /\ Concerns(m, f)' => (maps[m].roles[1])' \in Held(k)'
    <3>1. SUFFICES ASSUME NEW f \in Field, NEW k \in 1..Len(maps), NEW m \in 1..Len(maps),
                          First(k, f)', Concerns(m, f)'
                   PROVE  (maps[m].roles[1])' \in Held(k)'
      OBVIOUS
    <3>2. k \in DOMAIN maps /\ m \in DOMAIN maps /\ k \in 1..next - 1 /\ m \in 1..next - 1
      BY <1>1, <1>2
    <3>3. First(k, f) /\ Concerns(m, f) /\ Concerns(k, f)
      BY <1>5, <1>7, <3>1, <3>2 DEF First
    <3>4. maps[m].roles[1] \in Held(k)
      BY <3>2, <3>3 DEF Shares
    <3>5. maps'[m] = maps[m] /\ Held(k)' = Held(k)
      BY <1>3, <1>5, <1>6, <3>2, <3>3
    <3> QED
      BY <3>4, <3>5
  <2> QED
    BY <1>3, <2>1 DEF Shares
<1>17. Shares(next - 1)'
  BY <1>1, <1>3, <1>16
<1>18. Failures'
  BY <1>1, <1>3, <1>10 DEF Failures
<1>19. phase' = "done" \/ saved # <<>> => \A m \in DOMAIN maps : IsInjective(maps'[m].roles)
  BY <1>1, <1>3 DEF Settled
<1>20. Settled'
  <2>1. ASSUME NEW m \in DOMAIN maps, maps[m].kind[1] = "op" PROVE Held(m)' = Said(m) \cup A
    BY <1>3, <2>1 DEF Holdings
  <2> QED
    BY <1>1, <1>3, <1>4, <1>5, <1>10, <1>16, <1>19, <2>1 DEF Settled
<1>21. Saved'
  <2>1. saved # <<>> => phase' = "done"
    BY <1>1, <1>3, <1>19
  <2>2. \A m \in DOMAIN maps : \A f : First(m, f) => Held(m)' = Held(m)
    BY <1>5, <1>6 DEF First
  <2> QED
    BY <1>1, <1>3, <1>4, <1>5, <1>7, <2>1, <2>2 DEF Saved
<1>22. OpRolesExact'
  <2>1. ASSUME NEW op \in Op PROVE RolesOf(opMap[op])' = Written("op", op) \cup A
    <3>1. CASE opMap[op] # 0
      <4> DEFINE m == opMap[op]
      <4>1. m \in DOMAIN maps /\ maps[m].kind = <<"op", op>> /\ opMap'[op] = m
        BY <1>1, <3>1, AllLinked
      <4>2. Said(m) = Written("op", op) /\ maps[m].kind[1] = "op"
        BY <4>1 DEF Said
      <4>3. Held(m)' = Said(m) \cup A
        BY <1>3, <4>1, <4>2 DEF Holdings
      <4> QED
        BY <3>1, <4>1, <4>2, <4>3 DEF RolesOf, Held
    <3>2. CASE opMap[op] = 0
      <4>1. opMap'[op] = allMap /\ Written("op", op) = {}
        BY <1>1, <3>2, AllLinked
      <4>2. CASE allMap = 0
        BY <1>1, <4>1, <4>2, AllLinked DEF RolesOf
      <4>3. CASE allMap # 0
        <5>1. allMap \in DOMAIN maps /\ maps[allMap].kind[1] = "all" /\ Held(allMap) = A
          BY <1>1, <4>3, AllLinked
        <5>2. maps'[allMap] = maps[allMap]
          BY <1>3, <5>1
        <5> QED
          BY <4>1, <4>3, <5>1, <5>2 DEF RolesOf, Held
      <4> QED
        BY <4>2, <4>3
    <3> QED
      BY <3>1, <3>2
  <2> QED
    BY <1>4, <2>1 DEF OpRolesExact
<1> QED
  BY <1>8, <1>9, <1>12, <1>13, <1>14, <1>15, <1>17, <1>18, <1>20, <1>21, <1>22

\* When all is linked, the field has the first map that is about it, if any.
LEMMA FieldsLinked ==
  ASSUME IInv, phase \in {"post", "done"}, NEW f \in Field
  PROVE  /\ \A m \in DOMAIN maps : First(m, f) => RolesOf(fieldMap[f]) = Held(m)
         /\ (\A m \in DOMAIN maps : ~Concerns(m, f)) => RolesOf(fieldMap[f]) = {}
         /\ fieldMap[f] = 0 => \A m \in DOMAIN maps : ~Concerns(m, f)
         /\ fieldMap[f] # 0 => fieldMap[f] \in DOMAIN maps /\ First(fieldMap[f], f)
<1> USE DEF IInv
<1>1. 1..next - 1 = DOMAIN maps /\ DOMAIN maps = 1..Len(maps) /\ Len(maps) \in Nat
  BY MapTypes DEF Failures
<1>2. fieldMap[f] # 0 => fieldMap[f] \in DOMAIN maps /\ First(fieldMap[f], f) /\ Concerns(fieldMap[f], f)
  BY <1>1, MapTypes DEF LinkedFields, First
<1>3. fieldMap[f] = 0 => \A m \in DOMAIN maps : ~Concerns(m, f)
  BY <1>1 DEF LinkedFields
<1>4. ASSUME NEW m \in DOMAIN maps, First(m, f) PROVE RolesOf(fieldMap[f]) = Held(m)
  <2>1. Concerns(m, f) /\ \A k \in 1..m - 1 : ~Concerns(k, f)
    BY <1>4 DEF First
  <2>2. PICK k \in DOMAIN maps : k = fieldMap[f]
    BY <1>2, <1>3, <2>1
  <2>3. First(k, f) /\ Concerns(k, f) /\ k # 0
    BY <1>1, <1>2, <2>2
  <2>4. k \notin 1..m - 1 /\ m \notin 1..k - 1
    BY <2>1, <2>3 DEF First
  <2>5. k = m
    BY <1>1, <2>4
  <2> QED
    BY <2>2, <2>3, <2>5 DEF RolesOf, Held
<1>5. (\A m \in DOMAIN maps : ~Concerns(m, f)) => RolesOf(fieldMap[f]) = {}
  BY <1>2 DEF RolesOf
<1> QED
  BY <1>2, <1>3, <1>4, <1>5

\* What was linked is written and read again.
LEMMA RewriteIInv == IInv /\ Rewrite => IInv'
<1> SUFFICES ASSUME IInv, Rewrite PROVE IInv'
  OBVIOUS
<1> USE DEF IInv
<1>1. /\ phase = "done" /\ saved = <<>> /\ phase' = "link" /\ next' = 1
      /\ saved' = <<[op |-> OpRoles, field |-> FieldRoles]>>
      /\ opMap' = [op \in Op |-> 0] /\ fieldMap' = [f \in Field |-> 0] /\ allMap' = 0
      /\ UNCHANGED <<maps, fails, decl>>
  BY DEF Rewrite
<1>2. /\ \A m : Said(m)' = Said(m) /\ Held(m)' = Held(m)
      /\ \A t, x : Written(t, x)' = Written(t, x)
      /\ \A m, f : (Concerns(m, f)' <=> Concerns(m, f)) /\ (First(m, f)' <=> First(m, f))
      /\ (Kinds' <=> Kinds) /\ (Separate' <=> Separate)
      /\ \A n : Shares(n)' <=> Shares(n)
  BY <1>1, SameMaps
<1>3. 1..0 = {} /\ next' - 1 = 0
  BY <1>1
<1>4. \A m \in DOMAIN maps : Held(m) \subseteq Role
  BY <1>1, MapTypes DEF Holdings, Name
<1>5. TypeOK'
  <2>1. Len(maps) \in Nat /\ fails = 0
    BY <1>1, MapTypes DEF Failures
  <2>2. \A op \in Op : RolesOf(opMap[op]) \subseteq Role
    BY <1>4, MapTypes DEF RolesOf, Held
  <2>3. \A f \in Field : RolesOf(fieldMap[f]) \subseteq Role
    BY <1>4, MapTypes DEF RolesOf, Held
  <2>4. OpRoles \in [Op -> SUBSET Role] /\ FieldRoles \in [Field -> SUBSET Role]
    BY <2>2, <2>3 DEF OpRoles, FieldRoles
  <2>5. saved' \in Seq([op : [Op -> SUBSET Role], field : [Field -> SUBSET Role]])
    BY <1>1, <2>4
  <2> QED
    BY <1>1, <2>1, <2>5 DEF TypeOK, MapId
<1>6. Kinds' /\ Separate'
  BY <1>2
<1>7. Holdings'
  BY <1>1, <1>2 DEF Holdings
<1>8. LinkedOps'
  BY <1>1, <1>3 DEF LinkedOps
<1>9. LinkedFields'
  BY <1>1, <1>3 DEF LinkedFields
<1>10. Shares(next - 1)'
  BY <1>1, <1>3 DEF Shares
<1>11. Failures'
  BY <1>1, <1>3 DEF Failures
<1>12. Settled'
  BY <1>1, <1>2 DEF Settled
<1>13. Saved'
  <2>1. saved'[1].op = OpRoles /\ saved'[1].field = FieldRoles
    BY <1>1
  <2>2. \A op \in Op : OpRoles[op] = Written("op", op) \cup Written("all", NoName)
    BY <1>1 DEF OpRoles, OpRolesExact
  <2>3. ASSUME NEW f \in Field
        PROVE  /\ \A m \in DOMAIN maps : First(m, f) => FieldRoles[f] = Held(m)
               /\ (\A m \in DOMAIN maps : ~Concerns(m, f)) => FieldRoles[f] = {}
    BY <1>1, FieldsLinked DEF FieldRoles
  <2> QED
    BY <1>1, <1>2, <2>1, <2>2, <2>3 DEF Saved
<1>14. OpRolesExact'
  BY <1>1 DEF OpRolesExact
<1> QED
  BY <1>5, <1>6, <1>7, <1>8, <1>9, <1>10, <1>11, <1>12, <1>13, <1>14

\* rolemap_assign()
LEMMA AssignIInv ==
  ASSUME IInv, NEW ns \in RoleList, NEW kind \in Kind, Assign(ns, kind)
  PROVE  IInv'
<1> USE DEF IInv
<1>1. /\ phase = "parse" /\ next = 1 /\ fails = 0 /\ saved = <<>> /\ 1..0 = {}
      /\ decl' = decl \cup {<<r, kind[1], kind[2]>> : r \in Range(ns)}
      /\ UNCHANGED <<phase, next, fails, opMap, fieldMap, allMap, saved>>
  BY DEF Assign, Failures, Saved
<1>2. ns \in Seq(Name) /\ ns # <<>> /\ Range(ns) # {} /\ Range(ns) \subseteq Name
  <2>1. ns \in Seq(Name) /\ ns # <<>>
    BY RoleMapsAssumption DEF Name
  <2>2. Len(ns) \in Nat \ {0} /\ DOMAIN ns = 1..Len(ns) /\ 1 \in DOMAIN ns
    BY <2>1
  <2> QED
    BY <2>1, <2>2 DEF Range
<1>3. /\ DOMAIN maps = 1..Len(maps) /\ Len(maps) \in Nat /\ maps \in Seq(Map)
      /\ \A m \in DOMAIN maps : maps[m].kind \in Kind /\ maps[m].roles \in Seq(Name)
  BY MapTypes
<1>4. kind = <<kind[1], kind[2]>>
  BY KindFacts
<1>5. \A t, x : Written(t, x)' = Written(t, x) \cup IF kind = <<t, x>> THEN Range(ns) ELSE {}
  <2>1. SUFFICES ASSUME NEW t, NEW x
                 PROVE  Written(t, x)' = Written(t, x) \cup IF kind = <<t, x>> THEN Range(ns) ELSE {}
    OBVIOUS
  <2>2. kind = <<t, x>> <=> kind[1] = t /\ kind[2] = x
    BY <1>4
  <2>3. ASSUME NEW r PROVE r \in Written(t, x)' <=> r \in Written(t, x) \/ (kind = <<t, x>> /\ r \in Range(ns))
    <3>1. CASE r \in Written(t, x)'
      <4>1. PICK d \in decl' : r = d[1] /\ d[2] = t /\ d[3] = x
        BY <3>1 DEF Written
      <4>2. CASE d \in decl
        BY <4>1, <4>2 DEF Written
      <4>3. CASE d \notin decl
        <5>1. PICK q \in Range(ns) : d = <<q, kind[1], kind[2]>>
          BY <1>1, <4>3
        <5> QED
          BY <2>2, <3>1, <4>1, <5>1
      <4> QED
        BY <4>2, <4>3
    <3>2. CASE r \in Written(t, x)
      BY <1>1, <3>2 DEF Written
    <3>3. CASE kind = <<t, x>> /\ r \in Range(ns)
      <4>1. <<r, t, x>> \in decl'
        BY <1>1, <2>2, <3>3
      <4> QED
        BY <3>3, <4>1 DEF Written
    <3> QED
      BY <3>1, <3>2, <3>3
  <2> QED
    BY <2>3
<1>6. /\ \A op \in Op : opMap[op] = 0
      /\ \A f \in Field : fieldMap[f] = 0
      /\ allMap = 0
  <2>1. ASSUME NEW op \in Op PROVE opMap[op] = 0
    <3>1. opMap[op] # 0 => opMap[op] < 1
      BY <1>1 DEF LinkedOps
    <3> QED
      BY <1>3, <3>1, MapTypes
  <2>2. ASSUME NEW f \in Field PROVE fieldMap[f] = 0
    <3>1. fieldMap[f] # 0 => fieldMap[f] < 1
      BY <1>1 DEF LinkedFields
    <3> QED
      BY <1>3, <3>1, MapTypes
  <2>3. allMap # 0 => allMap < 1
    BY <1>1 DEF LinkedOps
  <2> QED
    BY <1>3, <2>1, <2>2, <2>3, MapTypes
\* Old or new, the map of the kind gets the roles, and no other.
<1> DEFINE Put(k) ==
        /\ k \in DOMAIN maps' /\ maps'[k].kind = kind /\ maps'[k].roles \in Seq(Name)
        /\ Held(k)' = Written(kind[1], kind[2]) \cup Range(ns)
        /\ DOMAIN maps' = DOMAIN maps \cup {k} /\ maps' \in Seq(Map) /\ Len(maps) <= Len(maps')
        /\ \A m \in DOMAIN maps \ {k} : maps'[m] = maps[m] /\ maps[m].kind # kind
        /\ k \in DOMAIN maps => maps[k].kind = kind
<1>7. \E k \in Nat : Put(k)
  <2>1. ASSUME NEW k \in DOMAIN maps, maps[k].kind = kind, maps' = [maps EXCEPT ![k].roles = @ \o ns]
        PROVE  k \in Nat /\ Put(k)
    <3> DEFINE rs == maps[k].roles \o ns
    <3>1. rs \in Seq(Name) /\ Range(rs) = Held(k) \cup Range(ns)
      BY <1>2, <1>3, ConcatProperties, RangeConcatenation DEF Held
    <3>2. maps' = [maps EXCEPT ![k] = [kind |-> kind, roles |-> rs]]
      <4>1. maps[k] \in Map
        BY MapTypes
      <4>2. [maps[k] EXCEPT !.roles = rs] = [kind |-> kind, roles |-> rs]
        <5>1. [maps[k] EXCEPT !.roles = rs] = [kind |-> maps[k].kind, roles |-> rs]
          <6> HIDE DEF rs
          <6> QED
            BY <3>1, <4>1, WithRoles
        <5> QED
          BY <2>1, <5>1
      <4>3. maps' = [maps EXCEPT ![k] = [maps[k] EXCEPT !.roles = rs]]
        BY <2>1
      <4> QED
        BY <4>2, <4>3
    <3> HIDE DEF rs
    <3>3. [kind |-> kind, roles |-> rs] \in Map
      BY <3>1 DEF Map
    <3>4. maps' \in Seq(Map) /\ Len(maps') = Len(maps) /\ DOMAIN maps' = DOMAIN maps
      BY <1>3, <3>2, <3>3, ExceptSeq
    <3>5. maps'[k] = [kind |-> kind, roles |-> rs] /\ \A m \in DOMAIN maps \ {k} : maps'[m] = maps[m]
      BY <3>2
    <3>6. Held(k) = Written(kind[1], kind[2])
      BY <1>1, <2>1 DEF Holdings, Said
    <3>7. \A m \in DOMAIN maps \ {k} : maps[m].kind # kind
      BY <2>1 DEF Kinds
    <3>8. k \in Nat
      BY <1>3
    <3>9. maps[k].kind = kind /\ Len(maps) <= Len(maps')
      BY <1>3, <2>1, <3>4
    <3>10. maps'[k].kind = kind /\ maps'[k].roles = rs
      BY <3>5
    <3>11. Held(k)' = Written(kind[1], kind[2]) \cup Range(ns)
      BY <3>1, <3>6, <3>10 DEF Held
    <3>12. Put(k)
      BY <3>1, <3>4, <3>5, <3>7, <3>9, <3>10, <3>11
    <3> QED
      BY <3>8, <3>12
  <2>2. ASSUME \A m \in DOMAIN maps : maps[m].kind # kind,
               maps' = Append(maps, [kind |-> kind, roles |-> ns])
        PROVE  \E k \in Nat : Put(k)
    <3> DEFINE e == [kind |-> kind, roles |-> ns]
    <3>0. PICK k \in Nat : k = Len(maps) + 1
      BY <1>3
    <3>1. e \in Map /\ e.kind = kind /\ e.roles = ns
      BY <1>2 DEF Map
    <3> HIDE DEF e
    <3>2. /\ maps' \in Seq(Map) /\ Len(maps') = k /\ maps'[k] = e
          /\ \A m \in 1..Len(maps) : maps'[m] = maps[m]
      <4>1. maps' = Append(maps, e)
        BY <2>2 DEF e
      <4>2. /\ Append(maps, e) \in Seq(Map) /\ Len(Append(maps, e)) = Len(maps) + 1
            /\ \A m \in 1..Len(maps) : Append(maps, e)[m] = maps[m]
            /\ Append(maps, e)[Len(maps) + 1] = e
        BY <1>3, <3>1, AppendProperties
      <4> QED
        BY <3>0, <4>1, <4>2
    <3>3. /\ DOMAIN maps' = DOMAIN maps \cup {k} /\ k \in DOMAIN maps' /\ k \in Nat
          /\ k \notin DOMAIN maps /\ Len(maps) <= Len(maps')
      <4>1. DOMAIN maps' = 1..k
        BY <3>2
      <4>2. DOMAIN maps = 1..k - 1 /\ Len(maps) = k - 1 /\ Len(maps) \in Nat
        BY <1>3, <3>0
      <4>3. 1..k = (1..k - 1) \cup {k} /\ k \in 1..k /\ k \notin 1..k - 1
        BY <3>0, <4>2
      <4> QED
        BY <3>2, <4>1, <4>2, <4>3
    <3>4. Written(kind[1], kind[2]) = {}
      <4>1. \A d \in decl : \E m \in DOMAIN maps : maps[m].kind = <<d[2], d[3]>>
        BY <1>4 DEF Kinds
      <4>2. kind = <<kind[1], kind[2]>>
        BY KindFacts
      <4>3. \A d \in decl : ~(d[2] = kind[1] /\ d[3] = kind[2])
        BY <2>2, <4>1, <4>2
      <4> QED
        BY <4>3, WrittenFacts
    <3>5. Held(k)' = Range(ns)
      BY <3>1, <3>2 DEF Held
    <3>6. maps'[k].kind = kind /\ maps'[k].roles \in Seq(Name)
      BY <1>2, <3>1, <3>2
    <3>7. Held(k)' = Written(kind[1], kind[2]) \cup Range(ns)
      BY <3>4, <3>5
    <3>8. \A m \in DOMAIN maps \ {k} : maps'[m] = maps[m] /\ maps[m].kind # kind
      BY <1>3, <2>2, <3>2
    <3>9. Put(k)
      BY <3>2, <3>3, <3>6, <3>7, <3>8
    <3> HIDE DEF Put
    <3> QED
      BY <3>3, <3>9
  <2> QED
    BY <2>1, <2>2 DEF Assign
<1>8. PICK k \in Nat : Put(k)
  BY <1>7
<1>9. /\ k \in DOMAIN maps' /\ maps'[k].kind = kind /\ maps'[k].roles \in Seq(Name)
      /\ Held(k)' = Written(kind[1], kind[2]) \cup Range(ns)
      /\ DOMAIN maps' = DOMAIN maps \cup {k} /\ maps' \in Seq(Map) /\ Len(maps) <= Len(maps')
      /\ \A m \in DOMAIN maps \ {k} : maps'[m] = maps[m] /\ maps[m].kind # kind
      /\ k \in DOMAIN maps => maps[k].kind = kind
  BY <1>8
<1> HIDE DEF Put
<1>10. Said(k)' = Written(kind[1], kind[2]) \cup Range(ns) /\ Held(k)' = Said(k)' /\ Said(k)' # {}
  <2>1. Said(k)' = Written(kind[1], kind[2])'
    BY <1>9 DEF Said
  <2> QED
    BY <1>2, <1>4, <1>5, <1>9, <2>1
<1>11. \A m \in DOMAIN maps \ {k} : Said(m)' = Said(m) /\ Held(m)' = Held(m)
  <2>1. SUFFICES ASSUME NEW m \in DOMAIN maps \ {k} PROVE Said(m)' = Said(m) /\ Held(m)' = Held(m)
    OBVIOUS
  <2>2. maps'[m] = maps[m] /\ maps[m].kind # kind
    BY <1>9
  <2>3. maps[m].kind = <<maps[m].kind[1], maps[m].kind[2]>>
    BY <1>3, KindFacts
  <2>4. Written(maps[m].kind[1], maps[m].kind[2])' = Written(maps[m].kind[1], maps[m].kind[2])
    <3>1. PICK t : t = maps[m].kind[1]
      OBVIOUS
    <3>2. PICK x : x = maps[m].kind[2]
      OBVIOUS
    <3>3. Written(t, x)' = Written(t, x)
      BY <1>5, <2>2, <2>3, <3>1, <3>2
    <3> QED
      BY <2>2, <3>1, <3>2, <3>3
  <2> QED
    BY <2>2, <2>4 DEF Said, Held
<1>12. \A m \in DOMAIN maps' : Held(m)' = Said(m)' /\ Said(m)' # {}
  <2>1. \A m \in DOMAIN maps : Held(m) = Said(m) /\ Said(m) # {}
    BY <1>1 DEF Holdings, Kinds
  <2> QED
    BY <1>9, <1>10, <1>11, <2>1
<1>13. TypeOK'
  <2>1. maps' \in Seq([kind : Kind, roles : Seq(Role \cup {Unknown})])
    BY <1>9 DEF Map, Name
  <2>2. Len(maps') \in Nat
    BY <1>9
  <2>3. opMap' \in [Op -> MapId'] /\ fieldMap' \in [Field -> MapId'] /\ allMap' \in MapId'
    <3>1. 0 \in MapId'
      BY <2>2 DEF MapId
    <3> QED
      BY <1>1, <1>6, <3>1 DEF TypeOK
  <2>4. decl' \subseteq Name \X {"all", "op", "noexport"} \X (Op \cup Field \cup {Missing, NoName})
    <3>1. \A r \in Range(ns) :
            <<r, kind[1], kind[2]>> \in Name \X {"all", "op", "noexport"} \X (Op \cup Field \cup {Missing, NoName})
      BY <1>2, KindFacts
    <3>2. decl \subseteq Name \X {"all", "op", "noexport"} \X (Op \cup Field \cup {Missing, NoName})
      BY DEF TypeOK, Name
    <3> QED
      BY <1>1, <3>1, <3>2
  <2> QED
    BY <1>1, <2>1, <2>2, <2>3, <2>4 DEF TypeOK, Name
<1>14. Kinds'
  <2>1. ASSUME NEW i \in DOMAIN maps', NEW j \in DOMAIN maps', maps'[i].kind = maps'[j].kind PROVE i = j
    <3>1. CASE i = k \/ j = k
      BY <1>9, <2>1, <3>1
    <3>2. CASE i # k /\ j # k
      BY <1>9, <2>1, <3>2 DEF Kinds
    <3> QED
      BY <3>1, <3>2
  <2>2. ASSUME NEW d \in decl' PROVE \E m \in DOMAIN maps' : maps'[m].kind = <<d[2], d[3]>>
    <3>1. CASE d \in decl
      <4>1. PICK m \in DOMAIN maps : maps[m].kind = <<d[2], d[3]>>
        BY <3>1 DEF Kinds
      <4>2. maps'[m].kind = maps[m].kind
        BY <1>9
      <4> QED
        BY <1>9, <4>1, <4>2
    <3>2. CASE d \notin decl
      BY <1>1, <1>4, <1>9, <3>2
    <3> QED
      BY <3>1, <3>2
  <2> QED
    BY <1>12, <2>1, <2>2 DEF Kinds
<1>15. Holdings'
  BY <1>1, <1>12 DEF Holdings
<1>16. Separate'
  BY <1>12 DEF Separate
<1>17. LinkedOps'
  BY <1>1, <1>6 DEF LinkedOps
<1>18. LinkedFields'
  BY <1>1, <1>6 DEF LinkedFields
<1>19. Shares(next - 1)'
  BY <1>1 DEF Shares
<1>20. Failures' /\ Settled' /\ Saved' /\ OpRolesExact'
  BY <1>1 DEF Failures, Settled, Saved, OpRolesExact
<1> QED
  BY <1>13, <1>14, <1>15, <1>16, <1>17, <1>18, <1>19, <1>20

\* What an entry about fields does to the maps: the first map about each field
\* it is about gets the first of its roles, and perhaps more of them.
LEMMA NoexportMaps ==
  ASSUME IInv, LinkNoexport
  PROVE  /\ maps' \in Seq(Map) /\ Len(maps') = Len(maps) /\ DOMAIN maps' = DOMAIN maps
         /\ \A m \in DOMAIN maps :
              /\ maps'[m].kind = maps[m].kind /\ maps'[m].roles[1] = maps[m].roles[1]
              /\ Held(m) \subseteq Held(m)' /\ Held(m)' \subseteq Held(m) \cup Held(next)
              /\ maps[m].roles[1] \in Held(m)
              /\ (\A f \in Field : ~(Concerns(next, f) /\ fieldMap[f] = m)) => maps'[m] = maps[m]
              /\ (\E f \in Field : Concerns(next, f) /\ fieldMap[f] = m) => maps[next].roles[1] \in Held(m)'
              /\ maps[next].roles[1] \in Held(m) => maps'[m] = maps[m]
         /\ \A f \in Field : fieldMap'[f] = IF Concerns(next, f) /\ fieldMap[f] = 0 THEN next ELSE fieldMap[f]
<1> USE DEF IInv
<1>1. next \in DOMAIN maps /\ maps[next].kind[1] = "noexport"
  BY MapTypes DEF LinkNoexport, Linking, Entry
<1>2. /\ DOMAIN maps = 1..Len(maps) /\ Len(maps) \in Nat /\ maps \in Seq(Map)
      /\ \A m \in DOMAIN maps : maps[m] \in Map /\ maps[m].kind \in Kind /\ maps[m].roles \in Seq(Name)
  BY MapTypes
<1>3. \A f : f \in Withheld <=> f \in Field /\ Concerns(next, f)
  <2>1. maps[next].kind = <<"noexport", maps[next].kind[2]>> /\ maps[next].kind[2] \in Field \cup {NoName}
    BY <1>1, <1>2, KindFacts
  <2> QED
    BY <2>1, RoleMapsAssumption DEF Withheld, Entry, Concerns
<1>4. \A m \in DOMAIN maps : maps[m].roles # <<>> /\ maps[m].roles[1] \in Held(m)
  <2>1. SUFFICES ASSUME NEW m \in DOMAIN maps PROVE maps[m].roles # <<>> /\ maps[m].roles[1] \in Held(m)
    OBVIOUS
  <2>2. PICK rs \in Seq(Name) : rs = maps[m].roles
    BY <1>2
  <2>3. Range(rs) # {}
    BY <2>2 DEF Kinds, Holdings, Held
  <2>4. rs # <<>> /\ 1 \in DOMAIN rs
    BY <2>3 DEF Range
  <2> QED
    BY <2>2, <2>4 DEF Held, Range
<1>5. maps' = [m \in DOMAIN maps |->
                 IF \E f \in Withheld : fieldMap[f] = m
                 THEN [maps[m] EXCEPT !.roles = Merged(@, maps[next].roles)]
                 ELSE maps[m]]
  BY DEF LinkNoexport, Entry
<1> DEFINE Taken(m) == \E f \in Field : Concerns(next, f) /\ fieldMap[f] = m
<1>6. ASSUME NEW m \in DOMAIN maps, Taken(m)
      PROVE  /\ maps'[m] \in Map /\ maps'[m].kind = maps[m].kind /\ maps'[m].roles[1] = maps[m].roles[1]
             /\ Held(m) \subseteq Held(m)' /\ Held(m)' \subseteq Held(m) \cup Held(next)
             /\ maps[next].roles[1] \in Held(m)'
             /\ maps[next].roles[1] \in Held(m) => maps'[m] = maps[m]
  <2> DEFINE c == Merged(maps[m].roles, maps[next].roles)
  <2>1. /\ c \in Seq(Name)
        /\ Held(m) \subseteq Range(c) /\ Range(c) \subseteq Held(m) \cup Held(next)
        /\ maps[next].roles[1] \in Range(c) /\ c[1] = maps[m].roles[1]
        /\ maps[next].roles[1] \in Held(m) => c = maps[m].roles
    BY <1>1, <1>2, <1>4, MergedFacts DEF Held
  <2>2. \E f \in Withheld : fieldMap[f] = m
    BY <1>3, <1>6
  <2>3. maps'[m] = [maps[m] EXCEPT !.roles = c]
    BY <1>5, <2>2
  <2> HIDE DEF c
  <2>4. /\ maps'[m] = [kind |-> maps[m].kind, roles |-> c] /\ maps'[m] \in Map
        /\ c = maps[m].roles => maps'[m] = maps[m]
    BY <1>2, <2>1, <2>3, WithRoles
  <2>5. maps'[m].kind = maps[m].kind /\ maps'[m].roles = c
    BY <2>4
  <2> QED
    BY <2>1, <2>4, <2>5 DEF Held
<1>7. ASSUME NEW m \in DOMAIN maps, ~Taken(m) PROVE maps'[m] = maps[m]
  <2>1. ~\E f \in Withheld : fieldMap[f] = m
    BY <1>3, <1>7
  <2> QED
    BY <1>5, <2>1
<1>8. \A m \in DOMAIN maps : maps'[m] \in Map
  BY <1>2, <1>6, <1>7
<1>9. maps' = [m \in DOMAIN maps |-> maps'[m]]
  BY <1>5
<1>10. maps' \in Seq(Map) /\ Len(maps') = Len(maps) /\ DOMAIN maps' = DOMAIN maps
  BY <1>2, <1>8, <1>9, Replaced
<1>11. ASSUME NEW m \in DOMAIN maps, ~Taken(m) PROVE Held(m)' = Held(m)
  BY <1>7, <1>11 DEF Held
<1>12. \A f \in Field : fieldMap'[f] = IF Concerns(next, f) /\ fieldMap[f] = 0 THEN next ELSE fieldMap[f]
  BY <1>3 DEF LinkNoexport
<1> QED
  BY <1>4, <1>6, <1>7, <1>10, <1>11, <1>12

\* resolve_struct_rolemap_noexport()
LEMMA LinkNoexportIInv == IInv /\ LinkNoexport => IInv'
<1> SUFFICES ASSUME IInv, LinkNoexport PROVE IInv'
  OBVIOUS
<1> USE DEF IInv
<1>1. /\ phase = "link" /\ next \in DOMAIN maps /\ maps[next].kind[1] = "noexport" /\ next' = next + 1
      /\ fieldMap' = [f \in Field |-> fieldMap'[f]]
      /\ UNCHANGED <<phase, fails, opMap, allMap, decl, saved>>
  BY MapTypes DEF LinkNoexport, Linking, Entry
<1>2. /\ DOMAIN maps = 1..Len(maps) /\ Len(maps) \in Nat
      /\ \A m \in DOMAIN maps : maps[m].kind \in Kind
      /\ next \in Nat \ {0} /\ next' - 1 = next /\ 1..next = (1..next - 1) \cup {next}
      /\ 1..next \subseteq DOMAIN maps /\ \A m \in 1..next - 1 : m \in DOMAIN maps /\ m < next
  BY <1>1, MapTypes
<1>3. /\ maps' \in Seq(Map) /\ Len(maps') = Len(maps) /\ DOMAIN maps' = DOMAIN maps
      /\ \A m \in DOMAIN maps :
           /\ maps'[m].kind = maps[m].kind /\ maps'[m].roles[1] = maps[m].roles[1]
           /\ Held(m) \subseteq Held(m)' /\ Held(m)' \subseteq Held(m) \cup Held(next)
           /\ maps[m].roles[1] \in Held(m)
           /\ (\A f \in Field : ~(Concerns(next, f) /\ fieldMap[f] = m)) => maps'[m] = maps[m]
           /\ (\E f \in Field : Concerns(next, f) /\ fieldMap[f] = m) => maps[next].roles[1] \in Held(m)'
           /\ maps[next].roles[1] \in Held(m) => maps'[m] = maps[m]
      /\ \A f \in Field : fieldMap'[f] = IF Concerns(next, f) /\ fieldMap[f] = 0 THEN next ELSE fieldMap[f]
  BY NoexportMaps
<1>4. /\ \A t, x : Written(t, x)' = Written(t, x)
      /\ Unmixed' <=> Unmixed
  BY <1>1 DEF Written, Unmixed, NamesFields
<1>5. /\ \A m \in DOMAIN maps : Said(m)' = Said(m)
      /\ \A m \in DOMAIN maps : \A f : Concerns(m, f)' <=> Concerns(m, f)
  BY <1>3, <1>4 DEF Said, Concerns
<1>6. ASSUME NEW m \in DOMAIN maps, NEW f PROVE First(m, f)' <=> First(m, f)
  <2>1. \A k \in 1..m - 1 : k \in DOMAIN maps
    BY <1>2
  <2> QED
    BY <1>5, <2>1 DEF First
\* The map of a field that the entry finds one at is an earlier one about it.
<1>7. ASSUME NEW f \in Field, fieldMap[f] # 0
      PROVE  /\ fieldMap[f] \in 1..next - 1 /\ fieldMap[f] \in DOMAIN maps
             /\ First(fieldMap[f], f) /\ Concerns(fieldMap[f], f)
  <2>1. fieldMap[f] < next /\ First(fieldMap[f], f)
    BY <1>7 DEF LinkedFields
  <2>2. fieldMap[f] \in 1..next - 1
    BY <1>2, <1>7, <2>1, MapTypes
  <2> QED
    BY <1>2, <2>1, <2>2 DEF First
<1>8. ASSUME NEW m \in DOMAIN maps, maps'[m] # maps[m]
      PROVE  /\ maps[m].kind[1] = "noexport" /\ m # next
             /\ \E f \in Field : Concerns(m, f) /\ Concerns(next, f) /\ First(m, f)
  <2>1. PICK f \in Field : Concerns(next, f) /\ fieldMap[f] = m
    BY <1>3, <1>8
  <2>2. m # 0 /\ next \notin 1..next - 1
    BY <1>2
  <2>3. Concerns(m, f) /\ First(m, f) /\ m # next
    BY <1>7, <2>1, <2>2
  <2>4. maps[m].kind[1] = "noexport"
    BY <2>3 DEF Concerns
  <2> QED
    BY <2>1, <2>3, <2>4
<1>9. saved # <<>> => \A m \in DOMAIN maps : maps'[m] = maps[m]
  <2>1. SUFFICES ASSUME saved # <<>>, NEW m \in DOMAIN maps, maps'[m] # maps[m] PROVE FALSE
    OBVIOUS
  <2>2. PICK f \in Field : First(m, f) /\ Concerns(next, f)
    BY <1>8, <2>1
  <2>3. maps[next].roles[1] \in Held(m)
    BY <1>1, <1>2, <2>1, <2>2 DEF Settled, Shares
  <2> QED
    BY <1>3, <2>1, <2>3
<1>10. TypeOK'
  <2>1. maps' \in Seq([kind : Kind, roles : Seq(Role \cup {Unknown})])
    BY <1>3 DEF Map, Name
  <2>2. ASSUME NEW f \in Field PROVE fieldMap'[f] \in 0..Len(maps)
    <3>1. fieldMap'[f] \in {next, fieldMap[f]}
      BY <1>3
    <3>2. next \in 0..Len(maps) /\ fieldMap[f] \in 0..Len(maps)
      BY <1>1, <1>2, MapTypes
    <3> QED
      BY <3>1, <3>2
  <2>3. fieldMap' \in [Field -> MapId'] /\ MapId' = MapId
    BY <1>1, <1>3, <2>2 DEF MapId
  <2>4. next' \in 1..Len(maps') + 1
    BY <1>1, <1>2, <1>3
  <2> QED
    BY <1>1, <1>3, <2>1, <2>3, <2>4 DEF TypeOK
<1>11. Kinds'
  <2>1. \A i, j \in DOMAIN maps : maps'[i].kind = maps'[j].kind => i = j
    BY <1>3 DEF Kinds
  <2>2. ASSUME NEW d \in decl PROVE \E m \in DOMAIN maps : maps'[m].kind = <<d[2], d[3]>>
    <3>1. PICK m \in DOMAIN maps : maps[m].kind = <<d[2], d[3]>>
      BY DEF Kinds
    <3>2. maps'[m].kind = maps[m].kind
      BY <1>3
    <3> QED
      BY <3>1, <3>2
  <2>3. \A m \in DOMAIN maps : Said(m)' # {}
    BY <1>5 DEF Kinds
  <2> QED
    BY <1>1, <1>3, <2>1, <2>2, <2>3 DEF Kinds
<1>12. Holdings'
  <2>1. ASSUME NEW m \in DOMAIN maps
        PROVE  /\ Said(m) \subseteq Held(m)'
               /\ maps[m].kind[1] = "all" => Held(m)' = Said(m)
               /\ maps[m].kind[1] = "op" => Held(m)' \subseteq Said(m) \cup Written("all", NoName)
               /\ Unknown \notin Held(m)'
    <3>1. Unknown \notin Held(m) /\ Unknown \notin Held(next) /\ Said(m) \subseteq Held(m)
      BY <1>1 DEF Holdings
    <3>2. CASE maps'[m] = maps[m]
      <4>1. Held(m)' = Held(m)
        BY <3>2 DEF Held
      <4> QED
        BY <3>1, <4>1 DEF Holdings
    <3>3. CASE maps'[m] # maps[m]
      BY <1>3, <1>8, <3>1, <3>3
    <3> QED
      BY <3>2, <3>3
  <2> QED
    BY <1>1, <1>3, <1>4, <1>5, <2>1 DEF Holdings
<1>13. Separate'
  <2>1. Unmixed => \A m \in DOMAIN maps : maps'[m] = maps[m]
    <3>1. SUFFICES ASSUME NEW m \in DOMAIN maps, maps'[m] # maps[m] PROVE ~Unmixed
      OBVIOUS
    <3>2. PICK f \in Field : Concerns(m, f) /\ Concerns(next, f) /\ m # next
      BY <1>8, <3>1
    <3>3. PICK i, j \in DOMAIN maps : maps[i].kind = <<"noexport", f>> /\ maps[j].kind = <<"noexport", NoName>>
      BY <1>1, <3>2 DEF Concerns, Kinds
    <3>4. Written("noexport", f) # {} /\ Written("noexport", NoName) # {}
      BY <3>3 DEF Kinds, Said
    <3>5. NamesFields
      <4>1. f # NoName
        BY RoleMapsAssumption
      <4> QED
        BY <3>4, <4>1, WrittenFacts DEF NamesFields
    <3> QED
      BY <3>4, <3>5 DEF Unmixed
  <2>2. Unmixed => \A m \in DOMAIN maps : Held(m)' = Held(m)
    BY <2>1 DEF Held
  <2> QED
    BY <1>3, <1>4, <1>5, <2>2 DEF Separate
<1>14. LinkedOps'
  <2>1. ASSUME NEW op \in Op, opMap[op] # 0
        PROVE  opMap[op] < next + 1 /\ maps'[opMap[op]].kind = <<"op", op>>
    <3>1. opMap[op] \in DOMAIN maps /\ opMap[op] < next /\ maps[opMap[op]].kind = <<"op", op>>
      BY <1>1, <1>2, <2>1, MapTypes DEF LinkedOps
    <3> QED
      BY <1>2, <1>3, <3>1
  <2>2. ASSUME NEW op \in Op, NEW m \in 1..next, maps'[m].kind = <<"op", op>> PROVE opMap[op] = m
    <3>1. maps[m].kind = <<"op", op>>
      BY <1>2, <1>3, <2>2
    <3>2. m # next
      BY <1>1, <3>1
    <3>3. m \in 1..next - 1
      BY <1>2, <3>2
    <3> QED
      BY <1>1, <3>1, <3>3 DEF LinkedOps
  <2>3. ASSUME allMap # 0 PROVE allMap < next + 1 /\ maps'[allMap].kind[1] = "all"
    <3>1. allMap \in DOMAIN maps /\ allMap < next /\ maps[allMap].kind[1] = "all"
      BY <1>1, <1>2, <2>3, MapTypes DEF LinkedOps
    <3> QED
      BY <1>2, <1>3, <3>1
  <2>4. ASSUME NEW m \in 1..next, maps'[m].kind[1] = "all" PROVE allMap = m
    <3>1. maps[m].kind[1] = "all" /\ m # next
      BY <1>1, <1>2, <1>3, <2>4
    <3>2. m \in 1..next - 1
      BY <1>2, <3>1
    <3> QED
      BY <1>1, <3>1, <3>2 DEF LinkedOps
  <2> QED
    BY <1>1, <1>2, <2>1, <2>2, <2>3, <2>4 DEF LinkedOps
<1>15. LinkedFields'
  <2>1. ASSUME NEW f \in Field, fieldMap'[f] # 0 PROVE fieldMap'[f] < next + 1 /\ First(fieldMap[f], f)'
    <3>1. CASE fieldMap[f] # 0
      <4>1. fieldMap'[f] = fieldMap[f]
        BY <1>3, <3>1
      <4>2. PICK m \in DOMAIN maps : m = fieldMap[f]
        BY <1>7, <3>1
      <4>3. m < next /\ First(m, f)'
        BY <1>2, <1>6, <1>7, <3>1, <4>2
      <4> QED
        BY <1>2, <4>1, <4>2, <4>3
    <3>2. CASE fieldMap[f] = 0
      <4>1. PICK m \in DOMAIN maps : m = next
        BY <1>1
      <4>2. fieldMap'[f] = m /\ Concerns(m, f)
        BY <1>3, <2>1, <3>2, <4>1
      <4>3. First(m, f)
        BY <3>2, <4>1, <4>2 DEF First, LinkedFields
      <4>4. First(m, f)'
        BY <1>6, <4>3
      <4> QED
        BY <1>2, <4>1, <4>2, <4>4
    <3> QED
      BY <3>1, <3>2
  <2>2. ASSUME NEW f \in Field, fieldMap'[f] = 0, NEW m \in 1..next PROVE ~Concerns(m, f)'
    <3>1. fieldMap[f] = 0 /\ ~Concerns(next, f)
      BY <1>2, <1>3, <2>2
    <3>2. ~Concerns(m, f)
      BY <1>2, <3>1 DEF LinkedFields
    <3> QED
      BY <1>2, <1>5, <3>2
  <2> QED
    BY <1>1, <1>2, <2>1, <2>2 DEF LinkedFields
<1>16. Shares(next - 1)'
  <2>1. \A f \in Field : \A k, m \in 1..next :
          First(k, f)' /\ Concerns(m, f)' => (maps[m].roles[1])' \in Held(k)'
    <3>1. SUFFICES ASSUME NEW f \in Field, NEW k \in 1..next, NEW m \in 1..next,
                          First(k, f)', Concerns(m, f)'
                   PROVE  (maps[m].roles[1])' \in Held(k)'
      OBVIOUS
    <3>2. k \in DOMAIN maps /\ m \in DOMAIN maps
      BY <1>2
    <3>3. First(k, f) /\ Concerns(m, f) /\ Concerns(k, f)
      BY <1>5, <1>6, <3>1, <3>2 DEF First
    <3>4. (maps[m].roles[1])' = maps[m].roles[1] /\ Held(k) \subseteq Held(k)'
      BY <1>3, <3>2
    <3>5. CASE m = k
      BY <1>3, <3>2, <3>4, <3>5
    <3>6. CASE m # k
      <4>1. m \notin 1..k - 1
        BY <3>3 DEF First
      <4>2. k < m /\ k \in 1..next - 1
        BY <1>2, <3>6, <4>1
      <4>3. CASE m # next
        <5>1. m \in 1..next - 1
          BY <1>2, <4>3
        <5> QED
          BY <3>3, <3>4, <4>2, <5>1 DEF Shares
      <4>4. CASE m = next
        <5>1. fieldMap[f] # 0
          BY <3>3, <4>2 DEF LinkedFields
        <5>2. PICK i \in DOMAIN maps : i = fieldMap[f] /\ First(i, f) /\ Concerns(i, f)
          BY <1>7, <5>1
        <5>3. i \notin 1..k - 1 /\ k \notin 1..i - 1
          BY <3>3, <5>2 DEF First
        <5>4. i = k
          BY <1>2, <3>2, <5>3
        <5> QED
          BY <1>3, <3>2, <3>3, <3>4, <4>4, <5>2, <5>4
      <4> QED
        BY <4>3, <4>4
    <3> QED
      BY <3>5, <3>6
  <2> QED
    BY <1>1, <1>2, <2>1 DEF Shares
<1>17. Failures'
  <2>1. fails \in Nat /\ fails < next + 1
    BY <1>1, <1>2, MapTypes DEF Failures, TypeOK
  <2>2. ASSUME fails = 0, NEW m \in 1..next, maps'[m].kind[1] = "op" PROVE maps'[m].kind[2] \in Op
    <3>1. maps'[m].kind = maps[m].kind /\ m \in 1..next - 1
      BY <1>1, <1>2, <1>3, <2>2
    <3> QED
      BY <2>2, <3>1 DEF Failures
  <2> QED
    BY <1>1, <1>2, <2>1, <2>2 DEF Failures
<1>18. saved # <<>> => \A m \in DOMAIN maps : Held(m)' = Held(m)
  BY <1>9 DEF Held
<1>19. Settled'
  <2>1. SUFFICES ASSUME saved # <<>> PROVE Settled'
    BY <1>1 DEF Settled
  <2>2. Shares(Len(maps))'
    <3>1. \A f \in Field : \A k, m \in 1..Len(maps) :
            First(k, f)' /\ Concerns(m, f)' => (maps[m].roles[1])' \in Held(k)'
      BY <1>2, <1>5, <1>6, <1>9, <1>18, <2>1 DEF Settled, Shares
    <3> QED
      BY <1>3, <3>1 DEF Shares
  <2> QED
    BY <1>1, <1>3, <1>4, <1>5, <1>9, <1>18, <2>1, <2>2 DEF Settled
<1>20. Saved'
  BY <1>1, <1>3, <1>4, <1>5, <1>6, <1>18 DEF Saved
<1> QED
  BY <1>1, <1>10, <1>11, <1>12, <1>13, <1>14, <1>15, <1>16, <1>17, <1>19, <1>20 DEF OpRolesExact
------------------------------------------------------------------------------
(* The theorems. *)

\* Every step of parser, linker and writer keeps the invariant.
LEMMA StepIInv == IInv /\ [Next]_vars => IInv'
<1> SUFFICES ASSUME IInv, [Next]_vars PROVE IInv'
  OBVIOUS
<1>1. ASSUME NEW ns \in RoleList, NEW kind \in Kind, Assign(ns, kind) PROVE IInv'
  BY <1>1, AssignIInv
<1>2. CASE ResolveNames
  BY <1>2, ResolveNamesIInv
<1>3. CASE LinkAll
  BY <1>3, LinkAllIInv
<1>4. CASE LinkOp
  BY <1>4, LinkOpIInv
<1>5. CASE LinkNoexport
  BY <1>5, LinkNoexportIInv
<1>6. CASE EndLink
  BY <1>6, EndLinkIInv
<1>7. CASE Post
  BY <1>7, PostIInv
<1>8. CASE Rewrite
  BY <1>8, RewriteIInv
<1>9. CASE UNCHANGED vars
  <2>1. /\ UNCHANGED <<maps, phase, next, fails, opMap, fieldMap, allMap, decl, saved>>
        /\ UNCHANGED <<maps, decl>>
    BY <1>9 DEF vars
  <2>2. /\ \A m : Said(m)' = Said(m) /\ Held(m)' = Held(m)
        /\ \A t, x : Written(t, x)' = Written(t, x)
        /\ \A m, f : (Concerns(m, f)' <=> Concerns(m, f)) /\ (First(m, f)' <=> First(m, f))
        /\ (Kinds' <=> Kinds) /\ (Separate' <=> Separate)
        /\ \A n : Shares(n)' <=> Shares(n)
    BY <2>1, SameMaps
  <2>3. TypeOK' /\ LinkedOps' /\ Failures'
    BY <2>1 DEF IInv, TypeOK, MapId, LinkedOps, Failures
  <2>4. Kinds' /\ Separate' /\ Holdings'
    BY <2>1, <2>2 DEF IInv, Holdings
  <2>5. Shares(next - 1)'
    BY <2>1, <2>2 DEF IInv, Shares
  <2>6. LinkedFields'
    BY <2>1, <2>2 DEF IInv, LinkedFields
  <2>7. Settled'
    BY <2>1, <2>2 DEF IInv, Settled
  <2>8. Saved'
    BY <2>1, <2>2 DEF IInv, Saved
  <2>9. OpRolesExact'
    BY <2>1, <2>2 DEF IInv, OpRolesExact, RolesOf
  <2> QED
    BY <2>3, <2>4, <2>5, <2>6, <2>7, <2>8, <2>9 DEF IInv
<1> QED
  BY <1>1, <1>2, <1>3, <1>4, <1>5, <1>6, <1>7, <1>8, <1>9 DEF Next

\* In every state of the parser and the linker, at the first and at the second
\* reading, the invariant holds.
THEOREM Invariance == Spec => []IInv
<1>1. Init => IInv
  BY InitIInv
<1>2. IInv /\ [Next]_vars => IInv'
  BY StepIInv
<1> QED
  BY <1>1, <1>2, PTL DEF Spec

\* The variables of the parser and the linker have their types.
THEOREM TypeCorrect == Spec => []TypeOK
<1>1. IInv => TypeOK
  BY DEF IInv
<1> QED
  BY <1>1, Invariance, PTL

\* Whatever statements a structure has, in whatever order: an operation that
\* has been linked is open to the roles given to it and to "all", and no other.
THEOREM OperationsOpen == Spec => []OpRolesExact
<1>1. IInv => OpRolesExact
  BY DEF IInv
<1> QED
  BY <1>1, Invariance, PTL

\* Where a structure says "noexport" only of fields it names, or only of all,
\* a field is withheld from the roles written, and no other.
THEOREM FieldsWithheld == Spec => []NoexportExactUnmixed
<1>1. IInv => NoexportExactUnmixed
  <2>1. SUFFICES ASSUME IInv, phase = "done", Unmixed, NEW f \in Field
                 PROVE  RolesOf(fieldMap[f]) = Written("noexport", f) \cup Written("noexport", NoName)
    BY DEF NoexportExactUnmixed, Unmixed
  <2>2. ASSUME NEW x, Written("noexport", x) # {} PROVE \E m \in DOMAIN maps : maps[m].kind = <<"noexport", x>>
    <3>1. PICK d \in decl : d[2] = "noexport" /\ d[3] = x
      BY <2>2, WrittenFacts
    <3> QED
      BY <2>1, <3>1 DEF IInv, Kinds
  <2>3. Written("noexport", f) = {} \/ Written("noexport", NoName) = {}
    <3>1. SUFFICES ASSUME Written("noexport", f) # {} PROVE NamesFields
      BY <2>1 DEF Unmixed
    <3>2. PICK d \in decl : d[2] = "noexport" /\ d[3] = f
      BY <3>1, WrittenFacts
    <3> QED
      BY <3>2, RoleMapsAssumption DEF NamesFields
  <2>4. CASE fieldMap[f] = 0
    <3>1. \A m \in DOMAIN maps : ~Concerns(m, f)
      BY <2>1, <2>4, FieldsLinked
    <3> QED
      BY <2>2, <2>4, <3>1 DEF Concerns, RolesOf
  <2>5. CASE fieldMap[f] # 0
    <3>1. PICK m \in DOMAIN maps : m = fieldMap[f] /\ First(m, f) /\ Concerns(m, f)
      BY <2>1, <2>5, FieldsLinked DEF First
    <3>2. PICK x \in {f, NoName} : maps[m].kind = <<"noexport", x>>
      BY <3>1 DEF Concerns
    <3>3. Held(m) = Said(m) /\ Said(m) = Written("noexport", x) /\ Said(m) # {}
      BY <2>1, <3>2 DEF IInv, Separate, Said, Kinds
    <3> QED
      BY <2>3, <2>5, <3>1, <3>2, <3>3 DEF RolesOf, Held
  <2> QED
    BY <2>4, <2>5
<1> QED
  BY <1>1, Invariance, PTL

\* Where no "noexport" names a field, each field has the roles of the map of the
\* "noexport" of all, by which ort-audit goes (Audit!FieldsHave).
FieldsHaveAll ==
  phase = "done" /\ ~NamesFields =>
    \A m \in DOMAIN maps, f \in Field :
      maps[m].kind = <<"noexport", NoName>> => Held(m) \subseteq RolesOf(fieldMap[f])

\* By then that map has what was written for all fields, and so do theirs.
THEOREM AuditedAsLinked == Spec => []FieldsHaveAll
<1>1. IInv /\ NoexportExactUnmixed => FieldsHaveAll
  <2>1. SUFFICES ASSUME IInv, NoexportExactUnmixed, phase = "done", ~NamesFields,
                        NEW m \in DOMAIN maps, NEW f \in Field,
                        maps[m].kind = <<"noexport", NoName>>
                 PROVE  Held(m) \subseteq RolesOf(fieldMap[f])
    BY DEF FieldsHaveAll
  <2>2. Held(m) = Written("noexport", NoName)
    BY <2>1 DEF IInv, Separate, Unmixed, Said
  <2>3. Written("noexport", NoName) \subseteq RolesOf(fieldMap[f])
    BY <2>1 DEF NoexportExactUnmixed
  <2> QED
    BY <2>2, <2>3
<1> QED
  BY <1>1, Invariance, FieldsWithheld, PTL

\* A configuration that was linked, written and read again is never refused,
\* and gives every operation and field the roles they had.
THEOREM RewritingKeeps == Spec => []RewriteStable
<1>1. IInv => RewriteStable
  <2>1. SUFFICES ASSUME IInv, saved # <<>>
                 PROVE  phase # "fail" /\ (phase = "done" => saved[1] = [op |-> OpRoles, field |-> FieldRoles])
    BY DEF RewriteStable
  <2>2. /\ phase \in {"link", "post", "done"}
        /\ \A op \in Op : saved[1].op[op] = Written("op", op) \cup Written("all", NoName)
        /\ \A f \in Field :
             /\ \A m \in DOMAIN maps : First(m, f) => saved[1].field[f] = Held(m)
             /\ (\A m \in DOMAIN maps : ~Concerns(m, f)) => saved[1].field[f] = {}
    BY <2>1 DEF IInv, Saved
  <2>3. saved[1] \in [op : [Op -> SUBSET Role], field : [Field -> SUBSET Role]]
    <3>1. saved \in Seq([op : [Op -> SUBSET Role], field : [Field -> SUBSET Role]])
      BY <2>1 DEF IInv, TypeOK
    <3>2. ASSUME NEW S, NEW s \in Seq(S), s # <<>> PROVE s[1] \in S
      BY <3>2
    <3> QED
      BY <2>1, <3>1, <3>2
  <2>4. ASSUME phase = "done" PROVE saved[1] = [op |-> OpRoles, field |-> FieldRoles]
    <3>1. \A op \in Op : saved[1].op[op] = RolesOf(opMap[op])
      BY <2>1, <2>2, <2>4 DEF IInv, OpRolesExact
    <3>2. ASSUME NEW f \in Field PROVE saved[1].field[f] = RolesOf(fieldMap[f])
      <4>1. /\ \A m \in DOMAIN maps : First(m, f) => RolesOf(fieldMap[f]) = Held(m)
            /\ (\A m \in DOMAIN maps : ~Concerns(m, f)) => RolesOf(fieldMap[f]) = {}
            /\ fieldMap[f] = 0 => \A m \in DOMAIN maps : ~Concerns(m, f)
            /\ fieldMap[f] # 0 => fieldMap[f] \in DOMAIN maps /\ First(fieldMap[f], f)
        BY <2>1, <2>4, FieldsLinked
      <4> QED
        BY <2>2, <4>1
    <3>3. saved[1].op = OpRoles /\ saved[1].field = FieldRoles
      BY <2>3, <3>1, <3>2 DEF OpRoles, FieldRoles
    <3> QED
      BY <2>3, <3>3
  <2> QED
    BY <2>2, <2>4
<1> QED
  BY <1>1, Invariance, PTL
==============================================================================
