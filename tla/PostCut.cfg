SPECIFICATION FairSpec
CONSTANTS
  Numbers = 1
  Lengths <- MCLengths
  Uploads <- MCUploads
  BUFSIZ = 6
  Word = 32
INVARIANTS
  AnswerIsPrinted
CHECK_DEADLOCK FALSE
