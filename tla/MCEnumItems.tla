----------------------------- MODULE MCEnumItems -----------------------------
(* EnumItems and Values with integers of three bits: all that matters of the *)
(* width is that a few items can reach its end.                              *)
EXTENDS Values

MCMinInt == -4
==============================================================================
