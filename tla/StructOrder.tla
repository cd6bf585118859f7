----------------------------- MODULE StructOrder -----------------------------
(***************************************************************************)
(* What the linker does with the graph of "struct" fields once names are   *)
(* resolved: linker_aliases_create() (linker_aliases.c) names every chain  *)
(* of references and refuses recursive structures; ort_parse_close()       *)
(* (linker.c) then gives every structure a height and orders the list by   *)
(* it, which is the order of definitions in the generated C header, where  *)
(* a structure embeds the ones it refers to.                               *)
(*                                                                         *)
(* Both recursions are depth-first and are modelled with their stack.      *)
(***************************************************************************)
EXTENDS Integers, Sequences, SequencesExt

CONSTANTS
  Strct,      \* structures; numbers stand for names, in their order
  Orders,     \* orders of the structures in the file
  MaxRefs,    \* bound: "struct" fields of one structure
  Letters     \* letters of an alias: 26 in the code

ASSUME StructOrderAssumption ==
  /\ Strct \subseteq Nat /\ Strct # {}
  /\ \A o \in Orders : o \in Seq(Strct) /\ Range(o) = Strct /\ IsInjective(o)
  /\ MaxRefs \in Nat /\ Letters \in Nat \ {0}

MaxAlias == Letters * Letters * Letters

VARIABLES
  refs,     \* structure -> targets of its "struct" fields, in their order
  order,    \* cfg->sq
  phase,    \* "alias", "height", "sort", "done" or "fail"
  at,       \* position in the loop over cfg->sq
  stack,    \* frames <<structure, next field>>, the current one last
  offs,     \* aliases made
  aq,       \* the aliases: of a structure, for a path of its fields
  colour,   \* structure -> colour, 0 at first
  hue,      \* the colour of this round
  height    \* structure -> height

vars == <<refs, order, phase, at, stack, offs, aq, colour, hue, height>>

Refs == [Strct -> BoundedSeq(Strct, MaxRefs)]

TypeOK ==
  /\ refs \in Refs
  /\ order \in Seq(Strct) /\ Range(order) = Strct /\ IsInjective(order)
  /\ phase \in {"alias", "height", "sort", "done", "fail"}
  /\ at \in 1..Len(order) + 1
  /\ stack \in Seq(Strct \X Nat)
  /\ \A i \in DOMAIN stack : stack[i][2] \in 1..Len(refs[stack[i][1]]) + 1
  /\ offs \in 0..MaxAlias /\ \A a \in aq : a.of \in Strct /\ a.path \in Seq(1..MaxRefs)
  /\ hue \in 1..Len(order) + 1
  /\ colour \in [Strct -> 0..hue]
  /\ height \in [Strct -> Nat]

Init ==
  /\ refs \in Refs
  /\ order \in Orders
  /\ phase = "alias" /\ at = 1 /\ stack = <<>> /\ offs = 0 /\ aq = {}
  /\ colour = [s \in Strct |-> 0]
  /\ hue = 1
  /\ height = [s \in Strct |-> 0]
------------------------------------------------------------------------------
(* The stack. *)

Top == Last(stack)
HasField == stack # <<>> /\ Top[2] <= Len(refs[Top[1]])
Target == refs[Top[1]][Top[2]]

NextField == Append(Front(stack), <<Top[1], Top[2] + 1>>)
Call(s) == Append(NextField, <<s, 1>>)

Return ==
  /\ phase \in {"alias", "height"}
  /\ stack # <<>> /\ ~HasField
  /\ stack' = Front(stack)
  /\ at' = IF Len(stack) = 1 THEN at + 1 ELSE at
  /\ hue' = IF Len(stack) = 1 /\ phase = "height" THEN hue + 1 ELSE hue
  /\ UNCHANGED <<refs, order, phase, offs, aq, colour, height>>
------------------------------------------------------------------------------
(* linker_aliases() *)

Orig == order[at]

StartAlias ==
  /\ phase = "alias" /\ stack = <<>> /\ at <= Len(order)
  /\ stack' = <<<<Orig, 1>>>>
  /\ UNCHANGED <<refs, order, phase, at, offs, aq, colour, hue, height>>

\* The fields from the structure the recursion started from to the current one.
Path == [k \in DOMAIN stack |-> IF k < Len(stack) THEN stack[k][2] - 1 ELSE stack[k][2]]

\* Mutant: one letter for all.
AliasNameShort(n) == <<n % Letters>>

\* Letters are counted from the first, that in the middle past the last.
AliasName(n) ==
  CASE n >= Letters * Letters -> <<n \div (Letters * Letters), n \div Letters, n % Letters>>
    [] n >= Letters /\ n < Letters * Letters -> <<n \div Letters, n % Letters>>
    [] n < Letters -> <<n>>

NewAlias == [of |-> Orig, path |-> Path, name |-> AliasName(offs)]

\* Mutant: does not follow the references of the target.
AliasShallow ==
  /\ phase = "alias" /\ HasField
  /\ IF Target = Orig \/ offs >= MaxAlias
     THEN phase' = "fail" /\ UNCHANGED <<stack, offs, aq>>
     ELSE stack' = NextField /\ offs' = offs + 1 /\ aq' = aq \cup {NewAlias} /\ UNCHANGED phase
  /\ UNCHANGED <<refs, order, at, colour, hue, height>>

\* Mutant: takes any structure seen twice for recursion.
AliasTwice ==
  /\ phase = "alias" /\ HasField
  /\ IF Target = Orig \/ (\E i \in 1..Top[2] - 1 : refs[Top[1]][i] = Target)
        \/ offs >= MaxAlias
     THEN phase' = "fail" /\ UNCHANGED <<stack, offs, aq>>
     ELSE stack' = Call(Target) /\ offs' = offs + 1 /\ aq' = aq \cup {NewAlias} /\ UNCHANGED phase
  /\ UNCHANGED <<refs, order, at, colour, hue, height>>

\* linker_aliases_create(): one field.  A recursion that does not go through
\* the structure it started from runs into the limit.
Alias ==
  /\ phase = "alias" /\ HasField
  /\ IF Target = Orig \/ offs >= MaxAlias
     THEN phase' = "fail" /\ UNCHANGED <<stack, offs, aq>>
     ELSE stack' = Call(Target) /\ offs' = offs + 1 /\ aq' = aq \cup {NewAlias} /\ UNCHANGED phase
  /\ UNCHANGED <<refs, order, at, colour, hue, height>>

EndAlias ==
  /\ phase = "alias" /\ at > Len(order)
  /\ phase' = "height" /\ at' = 1
  /\ UNCHANGED <<refs, order, stack, offs, aq, colour, hue, height>>
------------------------------------------------------------------------------
(* ort_parse_close(): heights. *)

\* The loop over cfg->sq: structures with a colour are passed over; one with
\* "struct" fields takes this round's.
StartHeight ==
  /\ phase = "height" /\ stack = <<>> /\ at <= Len(order)
  /\ \/ /\ colour[Orig] # 0
        /\ at' = at + 1
        /\ UNCHANGED <<stack, colour>>
     \/ /\ colour[Orig] = 0
        /\ stack' = <<<<Orig, 1>>>>
        /\ colour' = IF refs[Orig] = <<>> THEN colour ELSE [colour EXCEPT ![Orig] = hue]
        /\ UNCHANGED at
  /\ UNCHANGED <<refs, order, phase, offs, aq, hue, height>>

\* Mutant: never leaves the field whose target has the colour already.
AnnotateStuck ==
  /\ phase = "height" /\ HasField
  /\ IF colour[Target] = hue
     THEN UNCHANGED <<stack, colour, height>>
     ELSE /\ stack' = Call(Target)
          /\ colour' = [colour EXCEPT ![Target] = hue]
          /\ height' = [height EXCEPT ![Target] = @ + Len(stack)]
  /\ UNCHANGED <<refs, order, phase, at, offs, aq, hue>>

\* Mutant: all targets are one above the round's first structure.
AnnotateFlat ==
  /\ phase = "height" /\ HasField
  /\ IF colour[Target] = hue
     THEN stack' = NextField /\ UNCHANGED <<colour, height>>
     ELSE /\ stack' = Call(Target)
          /\ colour' = [colour EXCEPT ![Target] = hue]
          /\ height' = [height EXCEPT ![Target] = 1]
  /\ UNCHANGED <<refs, order, phase, at, offs, aq, hue>>

\* annotate(): a target without this round's colour takes it and adds its
\* depth below the round's first structure to its height.
Annotate ==
  /\ phase = "height" /\ HasField
  /\ IF colour[Target] = hue
     THEN stack' = NextField /\ UNCHANGED <<colour, height>>
     ELSE /\ stack' = Call(Target)
          /\ colour' = [colour EXCEPT ![Target] = hue]
          /\ height' = [height EXCEPT ![Target] = @ + Len(stack)]
  /\ UNCHANGED <<refs, order, phase, at, offs, aq, hue>>

EndHeight ==
  /\ phase = "height" /\ at > Len(order)
  /\ phase' = "sort"
  /\ UNCHANGED <<refs, order, at, stack, offs, aq, colour, hue, height>>

\* parse_cmp(), and each element put before the ones already there.
Higher(s, t) == height[s] > height[t] \/ (height[s] = height[t] /\ s > t)

\* The list is emptied into an array, sorted, and made again.
Sort ==
  /\ phase = "sort"
  /\ order' = CHOOSE o \in [1..Cardinality(Strct) -> Strct] :
                \A i, j \in DOMAIN o : i < j => Higher(o[i], o[j])
  /\ phase' = "done"
  /\ UNCHANGED <<refs, at, stack, offs, aq, colour, hue, height>>

Next ==
  \/ StartAlias \/ Alias \/ EndAlias
  \/ StartHeight \/ Annotate \/ EndHeight
  \/ Return
  \/ Sort

\* The program is one thread that runs until ort_parse_close() returns.
Spec == Init /\ [][Next]_vars /\ WF_vars(Next)
------------------------------------------------------------------------------
(* Properties. *)

\* Some structure refers to itself, however indirectly.
Recursive ==
  \E S \in (SUBSET Strct) \ {{}} : \A s \in S : Range(refs[s]) \cap S # {}

\* The third of what ort_parse_close() says it knows after the aliases
\* (linker.c:507): structures "are not recursive".  Every recursion is found,
\* though the check compares only with the structure it started from, and
\* nothing else is refused while there are aliases left.
NoneRecursive ==
  /\ phase \in {"height", "sort", "done"} => ~Recursive
  /\ phase = "fail" => Recursive \/ offs = MaxAlias

\* Linking comes to an end: neither recursion runs for ever.
LinkEnds == <>(phase \in {"done", "fail"})

Position(s) == CHOOSE i \in DOMAIN order : order[i] = s

Embedded(s) == Range(refs[s])

Shared(t) ==
  \/ \E s1, s2 \in Strct : s1 # s2 /\ t \in Embedded(s1) \cap Embedded(s2)
  \/ \E s \in Strct : \E i, j \in DOMAIN refs[s] : i # j /\ refs[s][i] = t /\ refs[s][j] = t

\* Where no structure is referred to twice, each is defined before those that
\* embed it, whatever the order in the file.
TreeOrdered ==
  phase = "done" /\ (\A t \in Strct : ~Shared(t)) =>
    \A s \in Strct : \A t \in Embedded(s) : Position(t) < Position(s)

\* linker.c:555: the height is what "we'll use when ordering our structures in
\* the header file".  A header that compiles defines a structure before those
\* that embed it (lang-c-header.c:75).
EmbeddedFirst ==
  phase = "done" =>
    \A s \in Strct : \A t \in Embedded(s) : Position(t) < Position(s)
==============================================================================
