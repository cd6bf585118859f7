---------------------------- MODULE MCStructOrder ----------------------------
(* StructOrder and Objects with three structures: with all their graphs, the *)
(* order of the file needs to be given but once, and the names once more the *)
(* other way.                                                                *)
EXTENDS Objects

MCOrders == {<<1, 2, 3>>, <<3, 2, 1>>}
==============================================================================
