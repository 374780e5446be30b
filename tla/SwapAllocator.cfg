CONSTANTS
  Capacity = 26
  Requests <- MCRequests
  StoreWidth = 5
SPECIFICATION FairSpec
INVARIANTS FirstFit LiveDisjoint
PROPERTIES CallsReturn Refinement
