---------------------------- MODULE MCConfigDiff ----------------------------
(* ConfigDiff over a configuration with some of everything and some fifty  *)
(* others, each a change or two away from it.                              *)
EXTENDS ConfigDiff, SampleConfigs

X == Field("x")
Y == Field("y")

E1 == Group("e", <<Item("i1", 0), Item("i2", 1)>>)
G1 == Group("g", <<Item("b1", 0)>>)

A ==
  [Strct("a", <<Id, X>>) EXCEPT
     !.searches = <<Search("list", "s", <<"x">>), Search("get", None, <<"id">>)>>,
     !.updates = <<Change("update", "u", <<"x">>, <<"id">>), Change("update", None, <<"x">>, <<"id">>)>>,
     !.deletes = <<Change("delete", None, <<>>, <<"id">>)>>,
     !.insert = <<[name |-> None, rolemap |-> {}, params |-> <<>>]>>,
     !.uniques = <<{"id", "x"}>>]

B == Strct("b", <<Id>>)

Base ==
  [langs |-> <<"">>, enms |-> <<E1>>, bitfs |-> <<G1>>, strcts |-> <<A, B>>,
   roles |-> Roots \o <<Role("r", "all"), Role("s", "r")>>]

WithA(a) == [Base EXCEPT !.strcts = <<a, B>>]
WithX(x) == WithA([A EXCEPT !.fields = <<Id, x>>])
WithE(e) == [Base EXCEPT !.enms = <<e>>]

OtherEnms ==
  {WithE([E1 EXCEPT !.items = <<Item("i1", 0), [Item("i2", 2) EXCEPT !.comment = "c"]>>]),
   WithE([E1 EXCEPT !.items = <<Item("i2", 1), Item("i1", 0)>>]),
   WithE([E1 EXCEPT !.items = <<Item("i1", 0), Item("i3", 1)>>, !.comment = "c"]),
   [Base EXCEPT !.enms = <<Group("f", <<Item("i1", 0)>>), E1>>],
   [Base EXCEPT !.bitfs = <<>>],
   [Base EXCEPT !.bitfs = <<[G1 EXCEPT !.items = <<Item("b1", 1), Item("b2", 0)>>]>>],
   [WithE([E1 EXCEPT !.labels = <<Label(2, "l")>>]) EXCEPT !.langs = <<"", "fr">>],
   [WithE([E1 EXCEPT !.labels = <<Label(2, "l")>>]) EXCEPT !.langs = <<"", "de">>]}

OtherFields ==
  {WithX([X EXCEPT !.type = "text", !.comment = "c"]),
   WithX([X EXCEPT !.valids = {<<"gt", Number(1, 0)>>}]),
   WithX([X EXCEPT !.valids = {<<"gt", Number(1, 0)>>}, !.type = "real"]),
   WithX([X EXCEPT !.flags = {"hasdef"}, !.def = Number(1, 0)]),
   WithX([X EXCEPT !.flags = {"hasdef"}, !.def = Number(2, 0)]),
   WithX([X EXCEPT !.type = "enum", !.enm = "e"]),
   WithX([X EXCEPT !.type = "enum", !.enm = "f"]),
   WithX([X EXCEPT !.reference = <<"b", "id">>, !.actions = {"cascade"}]),
   WithX(Y),
   WithA([A EXCEPT !.fields = <<X, Id>>]),
   WithA([A EXCEPT !.fields = <<X, Id>>, !.insert = <<>>]),
   WithA([A EXCEPT !.insert = <<>>])}

OtherQueries ==
  {WithA([A EXCEPT !.searches = <<Search("get", None, <<"id">>), [@[1] EXCEPT !.limit = 1]>>]),
   WithA([A EXCEPT !.searches = <<Search("get", "s", <<"x">>), Search("get", None, <<"x">>)>>]),
   WithA([A EXCEPT !.updates[1] = Change("update", "u", <<"id">>, <<"x">>)]),
   WithA([A EXCEPT !.updates[2] = Change("update", None, <<"id">>, <<"x">>), !.deletes = <<>>]),
   WithA([A EXCEPT !.updates = @ \o <<[@[1] EXCEPT !.comment = "c"]>>]),
   WithA([A EXCEPT !.updates = @ \o <<@[2]>>]),
   WithA([A EXCEPT !.uniques = <<{"id", "x"}, {"x"}>>]),
   WithA([A EXCEPT !.comment = "c", !.uniques = <<>>])}

OtherRoles ==
  {[Base EXCEPT !.roles = <<>>],
   [Base EXCEPT !.roles = Roots \o <<[Role("r", "all") EXCEPT !.comment = "c"], Role("s", "all")>>],
   [Base EXCEPT !.roles = Roots \o <<Role("r", "all"), Role("t", "all")>>],
   [Base EXCEPT !.strcts = <<B>>]}

RealX(valids, def) ==
  WithX([X EXCEPT !.type = "real", !.valids = valids, !.flags = {"hasdef"}, !.def = def])

Auto(n, v) == [Item(n, v) EXCEPT !.auto = TRUE]

\* What is hard to write or to read again.
OtherTexts ==
  {\* constants: dates, and reals of many digits, large, small, alike in six digits
   WithX([X EXCEPT !.type = "date", !.flags = {"hasdef"}, !.def = Number(9504, 2)]),
   RealX({}, Number(1234567, -6)),
   RealX({}, Number(15, 5)),
   RealX({}, Number(1, -5)),
   RealX({<<"ge", Number(1, 0)>>, <<"le", Number(9999996, -3)>>}, Number(25, -1)),
   RealX({<<"gt", Number(1000000 + 1, -6)>>, <<"gt", Number(1000000 + 2, -6)>>}, Number(0, 0)),
   \* a limit of a bit field, and none
   WithX([X EXCEPT !.type = "bitfield", !.bitf = "g", !.valids = {<<"gt", Number(1, 0)>>}]),
   WithX([X EXCEPT !.type = "bitfield", !.bitf = "g", !.flags = {"hasdef", "noexport"}, !.def = Number(3, 0)]),
   \* a default of an item and one of text; a field that is a structure
   WithX([X EXCEPT !.type = "enum", !.enm = "e", !.flags = {"hasdef", "null"}, !.def = Word("i2")]),
   WithA([A EXCEPT !.fields = <<Id, [X EXCEPT !.type = "text", !.flags = {"hasdef", "unique"}, !.def = Word("t")],
                                [Y EXCEPT !.type = "struct", !.reference = "x"]>>]),
   \* labels in the order of their languages, in another, and with blanks
   [WithE([E1 EXCEPT !.items[1].labels = <<Label(1, "a"), Label(2, "b")>>, !.labels = <<Label(3, "l")>>])
      EXCEPT !.langs = <<"", "fr", "de">>],
   [WithE([E1 EXCEPT !.items[1].labels = <<Label(3, "a"), Label(1, "b")>>, !.labels = <<Label(2, "l")>>])
      EXCEPT !.langs = <<"", "fr", "de">>, !.bitfs = <<[G1 EXCEPT !.unset = <<Label(2, "u")>>]>>],
   WithE([E1 EXCEPT !.labels = <<[Label(1, "l") EXCEPT ![2].loose = TRUE]>>]),
   \* automatic values
   WithE([E1 EXCEPT !.items = <<Auto("i1", 6), Item("i2", 5), Auto("i3", 7)>>]),
   \* updates of all fields, and of two
   WithA([A EXCEPT !.updates = <<[Change("update", "u", <<"x">>, <<>>) EXCEPT !.flags = {"all"}]>>,
                   !.deletes = <<Change("delete", "d", <<>>, <<>>)>>]),
   WithA([A EXCEPT !.fields = <<Id, X, Y>>,
                   !.updates = <<[Change("update", None, <<"x", "y">>, <<>>) EXCEPT !.modify[2] = <<"y", "inc">>],
                                 [Change("update", None, <<"x", "y">>, <<"id">>) EXCEPT !.flags = {"all"}]>>]),
   \* clauses of queries
   WithA([A EXCEPT !.searches =
     <<[Search("list", None, <<>>) EXCEPT !.offset = 5, !.distinct = <<>>],
       [Search("search", "t", <<"x">>) EXCEPT !.group = "x", !.aggr = <<"minrow", "id">>, !.limit = 1,
          !.order = <<<<"x", "desc">>, <<"id", "asc">>>>],
       [Search("count", "n", <<"id">>) EXCEPT !.distinct = <<"y", "z">>, !.params[1] = <<"id", "gt">>,
          !.comment = "c"]>>])}

MCConfigs ==
  {Base} \cup OtherEnms \cup OtherFields \cup OtherQueries \cup OtherRoles \cup OtherTexts
==============================================================================
