------------------------------ MODULE RoleState ------------------------------
(***************************************************************************)
(* What a generated library keeps of roles, in C (DbRole) as in Node.js    *)
(* (NodeRole): the tree and the role maps it was generated from, the role  *)
(* of its context, and the role stored in each object that a query made.   *)
(***************************************************************************)
EXTENDS Roles

CONSTANTS
  Op,       \* queries of the configuration, each returning an object
  Rolemap   \* the role maps a query is given; {} is an unassigned query

ASSUME RolemapAssumption == Rolemap \subseteq SUBSET (AnyRole \ {None})

VARIABLES
  parent,   \* the role tree compiled into the library
  grant,    \* the role map of each query
  role,     \* ctx->role, this.#role
  status,   \* "run", "abort" (abort(3), process.abort()) or "exit" (exit(3))
  call,     \* the last call made of the library
  objs      \* queries that returned, and the role stored in their object

Object == [op : Op, role : AnyRole]

Call == [fn : {"open"}] \cup [fn : {"role"}, arg : AnyRole] \cup [fn : {"query"}, arg : Op]

\* lang-c-header.c:997, printed above db_role(): "The only exceptions are when
\* leaving ROLE_default or when entering ROLE_none."  So no call that asks for
\* ROLE_none aborts.  The comment of the Node.js db_role() says the same.
NoneMayBeEntered == ~(status = "abort" /\ call = [fn |-> "role", arg |-> None])
==============================================================================
