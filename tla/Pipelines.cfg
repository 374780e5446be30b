CONSTANTS
  CommandLines <- MCCommandLines
  MaxCommands = 3
  InputLen = 2
  Capacity = 1
  MaxOut = 3
SPECIFICATION FairSpec
INVARIANTS NoStrayWriter ParentLast OutputAsShell
PROPERTY TerminatesUnlessKeptOpen
CHECK_DEADLOCK FALSE
