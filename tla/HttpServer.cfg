SPECIFICATION FairSpec
CONSTANTS
  Clients = {c1, c2}
  NoClient = NoClient
  Depth = 3
  RequestLen = 2
  MaxSignals = 1
  MaxChanges = 1
  MaxLeavers = 1
INVARIANTS
  AnswerIsRight
  OneServer
PROPERTIES
  Answered
  StopEndsAll
CHECK_DEADLOCK FALSE
