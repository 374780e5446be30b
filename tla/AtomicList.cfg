CONSTANTS
  N = 3
  K = 2
  Word = 256
SPECIFICATION FairSpec
INVARIANTS NothingLost WalkSafe PrintsAll
PROPERTY Terminates
