------------------------------ MODULE EnumItems ------------------------------
(***************************************************************************)
(* The items of an enumeration and their values (parser_enum.c).  Items    *)
(* without a value are given one twice over: at the end of the items by    *)
(* parse_enum_data(), and again by parse_enum().  Both run even where the  *)
(* items were refused; the configuration is then given up later.           *)
(***************************************************************************)
EXTENDS Integers, Sequences, SequencesExt, FiniteSetsExt

CONSTANTS
  MinInt, MaxInt,   \* INT64_MIN and INT64_MAX
  MaxDoc,           \* the limit the manual gives: a maximum of 32 bits
  MaxItems          \* bound: items of the enumeration

ASSUME EnumItemsAssumption ==
  /\ MinInt \in Int /\ MaxInt \in Nat /\ MinInt < 0
  /\ MaxDoc \in 1..MaxInt
  /\ MaxItems \in Nat

Int64 == MinInt..MaxInt

VARIABLES
  items,      \* e->eq
  phase,      \* "read", "first", "second" or "done"
  n,          \* position in the loop
  max,        \* maxvalue of parse_enum_data(), maxv of parse_enum()
  err,        \* "no", or what was refused: "value" or "overflow"
  overflow    \* a signed 64-bit addition overflowed

vars == <<items, phase, n, max, err, overflow>>

Item == [auto : BOOLEAN, value : Int64]

TypeOK ==
  /\ items \in Seq(Item)
  /\ phase \in {"read", "first", "second", "done"}
  /\ n \in 1..Len(items) + 1
  /\ max \in Int64
  /\ err \in {"no", "value", "overflow"}
  /\ overflow \in BOOLEAN

Init ==
  /\ items = <<>>
  /\ phase = "read" /\ n = 1 /\ max = MinInt
  /\ err = "no" /\ overflow = FALSE
------------------------------------------------------------------------------
(* parse_enum_item() *)

Reading == phase = "read" /\ err = "no" /\ Len(items) < MaxItems

ReadAuto ==
  /\ Reading
  /\ items' = Append(items, [auto |-> TRUE, value |-> 0])
  /\ UNCHANGED <<phase, n, max, err, overflow>>

\* Mutant: compares with the item before only.
RefusedAdjacent(v) ==
  \/ v \in {MinInt, MaxInt}
  \/ items # <<>> /\ ~Last(items).auto /\ Last(items).value = v

\* Values that parse_enum_item() does not take.
Refused(v) ==
  \/ v \in {MinInt, MaxInt}
  \/ \E i \in DOMAIN items : ~items[i].auto /\ items[i].value = v

\* The item is in the queue by the time its value is refused, and stays.
ReadValue(v) ==
  /\ Reading
  /\ items' = Append(items, [auto |-> FALSE, value |-> v])
  /\ err' = IF Refused(v) THEN "value" ELSE err
  /\ UNCHANGED <<phase, n, max, overflow>>
------------------------------------------------------------------------------
(* Automatic values. *)

Autos == {i \in DOMAIN items : items[i].auto}

Given == {items[i].value : i \in DOMAIN items \ Autos}

Wrap(x) == IF x = MaxInt THEN MinInt ELSE x + 1

\* Mutant: starts with the greatest value given.
StartAtMax(v) == IF v < 0 THEN 0 ELSE v

\* One more than the greatest value given, or zero; maxvalue++ overflows where
\* the value refused was INT64_MAX.
Start(v) == IF v < 0 THEN 0 ELSE Wrap(v)

BeginPass(next) ==
  LET top == Max(Given \cup {MinInt})
  IN  /\ phase' = next
      /\ n' = 1
      /\ max' = Start(top)
      /\ overflow' = (overflow \/ top = MaxInt)

\* The first pass is for enumerations with an item without a value, the second
\* for those that have one with a value too.
EndRead ==
  /\ phase = "read"
  /\ items # <<>>
  /\ IF Autos # {} THEN BeginPass("first")
     ELSE phase' = "done" /\ UNCHANGED <<n, max, overflow>>
  /\ UNCHANGED <<items, err>>

\* Mutant: goes on to the last value there is, and past it.
FirstNoLimit ==
  /\ phase = "first" /\ n <= Len(items)
  /\ n' = n + 1
  /\ IF n \in Autos
     THEN /\ items' = [items EXCEPT ![n].value = max]
          /\ max' = max + 1
          /\ overflow' = (overflow \/ max = MaxInt)
     ELSE UNCHANGED <<items, max, overflow>>
  /\ UNCHANGED <<phase, err>>

\* parse_enum_data(): one step of the loop, which gives up at INT64_MAX.
First ==
  /\ phase = "first" /\ n <= Len(items) /\ max # MaxInt
  /\ n' = n + 1
  /\ IF n \in Autos
     THEN items' = [items EXCEPT ![n].value = max] /\ max' = max + 1
     ELSE UNCHANGED <<items, max>>
  /\ UNCHANGED <<phase, err, overflow>>

EndFirst ==
  /\ phase = "first"
  /\ n > Len(items) \/ max = MaxInt
  /\ err' = IF n <= Len(items) THEN "overflow" ELSE err
  /\ IF Given # {} THEN BeginPass("second")
     ELSE phase' = "done" /\ UNCHANGED <<n, max, overflow>>
  /\ UNCHANGED items

\* parse_enum(): one step of the loop, with no limit.
Second ==
  /\ phase = "second" /\ n <= Len(items)
  /\ n' = n + 1
  /\ IF n \in Autos
     THEN /\ items' = [items EXCEPT ![n].value = max]
          /\ max' = Wrap(max)
          /\ overflow' = (overflow \/ max = MaxInt)
     ELSE UNCHANGED <<items, max, overflow>>
  /\ UNCHANGED <<phase, err>>

EndSecond ==
  /\ phase = "second" /\ n > Len(items)
  /\ phase' = "done"
  /\ UNCHANGED <<items, n, max, err, overflow>>

Next ==
  \/ ReadAuto \/ \E v \in Int64 : ReadValue(v)
  \/ EndRead
  \/ First \/ EndFirst
  \/ Second \/ EndSecond

Spec == Init /\ [][Next]_vars
------------------------------------------------------------------------------
(* Properties. *)

\* No two items of an enumeration have the same value: its values are the
\* cases of switches in the generated code.
ValuesDiffer ==
  phase = "done" /\ err = "no" =>
    \A i, j \in DOMAIN items : i # j => items[i].value # items[j].value

\* man/ort.5:880: an automatic value is "one more than the maximum of the
\* assigned values or zero, whichever is larger", and assignment is "linear and
\* in the order specified"; and signed overflow, which is undefined, only
\* happens on the way to an error.
AutosFollow ==
  /\ phase = "done" /\ err = "no" =>
       \A i \in Autos :
         items[i].value = Max({-1} \cup Given) + Cardinality({j \in Autos : j <= i})
  /\ overflow => err # "no"

\* parser_enum.c:220, the error: "integer overflow when assigning dynamic enum
\* value", so that there is an item whose automatic value cannot be had.
OverflowIsReal ==
  err = "overflow" =>
    Max({-1} \cup Given) + Cardinality(Autos) > MaxInt - 1

\* man/ort.5:879: a value "may not be the maximum or minimum 32-bit signed
\* integer", and so neither may the automatic ones.
DocLimit ==
  phase = "done" /\ err = "no" =>
    \A i \in DOMAIN items : items[i].value # MaxDoc
==============================================================================
