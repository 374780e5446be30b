SPECIFICATION Spec
CONSTANTS
  p = p
  q = q
  RtMax = 3
  Files = {1, 3}
  Start = 3
  MaxSends = 3
  Questions = 3
  MaxFaults = 2
  Numbers = 3
  Lengths <- MCLengths
  Uploads <- MCUploads
  BUFSIZ = 6
  Word = 32
  N = 2
  Kinds = {"socket", "pipe", "file"}
  Bytes = 3
  BufferSize = 2
  Families = {"limit", "numbers", "words", "gcc", "launch"}
  Size = 3
  Buffer = 2
  Slots = 4
  MaxFailures = 1
INVARIANTS
  SignalsKept
  DatagramsMatch
  StreamsRight
  CountsAll
  ProcessesRight
PROPERTIES
  SignalsEnd
  ClientsEnd
CHECK_DEADLOCK FALSE
