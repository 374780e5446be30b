CONSTANTS
  Capacity = 26
  Requests <- MCRequests
  StoreWidth = 8
SPECIFICATION Spec
INVARIANT LiveDisjoint
CHECK_DEADLOCK FALSE
