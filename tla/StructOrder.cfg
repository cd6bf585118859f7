SPECIFICATION ObjectSpec
CONSTANTS
  Strct = {1, 2, 3}
  Orders <- MCOrders
  MaxRefs = 2
  Letters = 2
CHECK_DEADLOCK FALSE
INVARIANTS
  NoneRecursive
  TreeOrdered
  FilledExactly
  CallEnds
  DefinedWhereCalled
PROPERTIES
  LinkEnds
