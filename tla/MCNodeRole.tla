----------------------------- MODULE MCNodeRole -----------------------------
(***************************************************************************)
(* NodeRole with three roles in every tree and one query of each kind of   *)
(* map; Audit with three structures, "a" with two references to "b" and    *)
(* "b" with one to "c".  Role maps are as the linker leaves them: in Mixed *)
(* and Shared, where statements with and without a field meet, those of    *)
(* the fields and that of the structure differ.                            *)
(***************************************************************************)
EXTENDS Audit

CONSTANTS r1, r2, r3

MCRolemap == {{}, {All}, {Default, r2}}

F(name, type, to, noexport, rolemap) ==
  [name |-> name, type |-> type, to |-> to, noexport |-> noexport, rolemap |-> rolemap]

Open == [a |-> {}, b |-> {}, c |-> {}]

\* A model: what the references of "a" are hidden from, and the fields of "b";
\* the roles of the "noexport" of all, with which no other has roles in
\* common here; and what the queries search and return.
M(x, y, flag, w, d, z, all, gives) ==
  [fields |-> [a |-> <<F("x", "struct", "b", FALSE, x \cup all.a), F("d", "data", "a", flag, all.a),
                       F("y", "struct", "b", flag, y \cup all.a)>>,
               b |-> <<F("w", "password", "b", FALSE, w), F("d", "data", "b", FALSE, d),
                       F("z", "struct", "c", FALSE, z)>>,
               c |-> <<F("d", "data", "c", FALSE, all.c)>>],
   hideall |-> all,
   of |-> [get |-> "a", list |-> "b"],
   gives |-> gives]

Plain == [get |-> "a", list |-> "b"]
Distinct == [get |-> "b", list |-> "b"]

\* roles r1 { noexport z; }; roles r1, r2 { noexport; }; in "b": the map of z
\* has r1, so that r2 is not added to it.
Mixed == M({}, {}, FALSE, {r1, r2}, {r1, r2}, {r1}, [Open EXCEPT !.b = {r1, r2}], Plain)

\* The same, then roles r3 { noexport d; };: into the map that d and w share
\* with the "noexport" of all.
Shared == M({}, {}, FALSE, {r1, r2, r3}, {r1, r2, r3}, {r1},
            [Open EXCEPT !.b = {r1, r2, r3}], Plain)

MCModel ==
  {M({}, {r1}, FALSE, {}, {}, {}, Open, Plain),
   M({r2}, {}, FALSE, {}, {All}, {All}, Open, Plain),
   M({r1}, {}, TRUE, {}, {}, {}, Open, Plain),
   M({}, {}, FALSE, {r2}, {Default, r2}, {Default, r2}, [Open EXCEPT !.b = {r2}], Plain),
   M({}, {}, FALSE, {}, {}, {}, [Open EXCEPT !.c = {All}], Plain),
   M({}, {}, FALSE, {}, {r3}, {r3}, [Open EXCEPT !.a = {r1}], Distinct),
   Mixed, Shared}
==============================================================================
