SPECIFICATION FairSpec
CONSTANTS
  A = 0
  B = 20
  Wanted = 7
  Limit = 100
  Starts = {1, 2, 3, 50, 97, 98, 99, 100}
  MaxN = 2
  MaxK = 4
INVARIANTS
  NoRace
  EveryPrimeOnce
  OneBall
  Accounted
PROPERTIES
  TerminatesIfQuiet
  PlaysTheGame
  GameEnds
  RingEnds
CHECK_DEADLOCK FALSE
