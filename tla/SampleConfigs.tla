---------------------------- MODULE SampleConfigs ----------------------------
(* Elements of configurations, in the form module Diff takes them, for the *)
(* MC modules to build configurations of.                                  *)
EXTENDS Diff

Item(n, v) == [name |-> n, auto |-> FALSE, value |-> v, comment |-> None, labels |-> <<>>]

Group(n, items) ==
  [name |-> n, items |-> items, comment |-> None, labels |-> <<>>, unset |-> <<>>]

\* A label in the language of that number.
Label(lang, text) == <<lang, [text |-> text, loose |-> FALSE]>>

Field(n) ==
  [name |-> n, type |-> "int", rolemap |-> {}, actions |-> {}, flags |-> {}, bitf |-> None,
   enm |-> None, def |-> None, reference |-> None, valids |-> {}, comment |-> None]

Terms(names, default) == [k \in DOMAIN names |-> <<names[k], default>>]

Search(t, n, terms) ==
  [type |-> t, name |-> n, params |-> Terms(terms, "eq"), order |-> <<>>, aggr |-> None, group |-> None,
   distinct |-> None, comment |-> None, limit |-> 0, offset |-> 0, rolemap |-> {}]

Change(t, n, mods, terms) ==
  [type |-> t, name |-> n, modify |-> Terms(mods, "set"), constrain |-> Terms(terms, "eq"), comment |-> None,
   rolemap |-> {}, flags |-> {}]

Strct(n, fields) ==
  [name |-> n, comment |-> None, fields |-> fields, searches |-> <<>>, updates |-> <<>>,
   deletes |-> <<>>, insert |-> <<>>, uniques |-> <<>>]

Role(n, p) == [name |-> n, parent |-> p, comment |-> None]

Roots == <<Role("default", None), Role("none", None), Role("all", None)>>

Id == [Field("id") EXCEPT !.flags = {"rowid"}]
==============================================================================
