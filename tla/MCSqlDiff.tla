------------------------------ MODULE MCSqlDiff ------------------------------
(* SqlDiff over configurations of two or three tables, one referring to    *)
(* the other, each a change or two away from the first.                    *)
EXTENDS SqlDiff, SampleConfigs

Flags(f, fl) == [f EXCEPT !.flags = fl]
X == Field("x")
K == [Field("k") EXCEPT !.type = "enum", !.enm = "e"]
R == [Field("r") EXCEPT !.reference = <<"a", "id">>]

E1 == Group("e", <<Item("i1", 0), Item("i2", 1)>>)

Of(enms, strcts) == [langs |-> <<"">>, enms |-> enms, bitfs |-> <<>>, strcts |-> strcts, roles |-> <<>>]

A == Strct("a", <<Id, X, K>>)
B == Strct("b", <<Id, Flags(X, {"unique"}), R>>)
C == Strct("c", <<Id, Flags(X, {"unique"})>>)

Tables(a, b) == Of(<<E1>>, <<a, b>>)
Fields(s, fields) == [s EXCEPT !.fields = fields]

MCConfigs ==
  {Tables(A, B),
   \* unique moves, goes, comes as a clause
   Tables(Fields(A, <<Id, Flags(X, {"unique"}), K>>), Fields(B, <<Id, X, R>>)),
   Tables(A, Fields(B, <<Id, R>>)),
   Tables(A, [Fields(B, <<Id, X, R>>) EXCEPT !.uniques = <<{"r", "x"}>>]),
   \* fields come, with and without null and default
   Tables(A, Fields(B, B.fields \o <<Field("y")>>)),
   Tables(A, Fields(B, B.fields \o <<Flags(Field("y"), {"null", "unique"})>>)),
   Tables(A, Fields(B, B.fields \o <<[Flags([R EXCEPT !.name = "y"], {"hasdef"}) EXCEPT !.def = "0"]>>)),
   Tables(A, Fields(B, B.fields \o <<[Field("z") EXCEPT !.type = "struct", !.reference = <<"a", "id">>]>>)),
   \* references change
   Tables(A, Fields(B, <<Id, B.fields[2], [R EXCEPT !.actions = {"cascade"}]>>)),
   Tables(A, Fields(B, <<Id, B.fields[2], Field("r")>>)),
   \* a primary key comes
   Tables(A, Fields(B, <<Flags(X, {"unique"}), R>>)),
   \* tables go and come
   Of(<<E1>>, <<A>>),
   Of(<<E1>>, <<C>>),
   Of(<<E1>>, <<A, C>>),
   \* items go, come and change
   Of(<<Group("e", <<Item("i1", 0)>>)>>, <<A, B>>),
   Of(<<Group("e", <<Item("i1", 0), Item("i3", 1)>>)>>, <<A, B>>),
   Of(<<Group("e", <<Item("i1", 0), Item("i2", 2)>>)>>, <<A, B>>),
   Of(<<Group("e", <<Item("i1", 0), Item("i2", 1), Item("i3", 2)>>)>>, <<A, B>>)}
==============================================================================
