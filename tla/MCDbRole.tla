------------------------------ MODULE MCDbRole ------------------------------
(* DbRole with three roles in every tree and two queries. *)
EXTENDS DbRole

CONSTANTS r1, r2, r3

MCRolemap == {{}, {All}, {Default, r2}}
==============================================================================
