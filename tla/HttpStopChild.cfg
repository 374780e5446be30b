SPECIFICATION Spec
CONSTANTS
  Clients = {c1}
  NoClient = NoClient
  Depth = 2
  RequestLen = 1
  MaxSignals = 1
  MaxChanges = 0
  MaxLeavers = 0
INVARIANT ChildrenEnded
CHECK_DEADLOCK FALSE
