CONSTANTS
  CommandLines <- MCYesHead
  MaxCommands = 2
  InputLen = 2
  Capacity = 1
  MaxOut = 3
SPECIFICATION FairSpec
PROPERTY Terminates
CHECK_DEADLOCK FALSE
