CONSTANTS
  Clients = {c1, c2}
  MaxSend = 4
  BufSize = 3
SPECIFICATION FairSpec
INVARIANTS EchoIsPrefix NoForgottenWork EventsAreLive
PROPERTY ServedUnlessEdgeLost
CHECK_DEADLOCK FALSE
