SPECIFICATION AnswersSpec
CONSTANTS
  Images <- MCImages
  SimpleNames <- MCNames
  Page = 2
  WordSize = 64
  Trees <- MCTrees
  Directories = 2
  MergePaths <- MCMergePaths
  Hidden = {".z"}
  Pages = 2
  kMaxNumberOfFiles = 2
  MaxChanges = 1
  Threads = {t1, t2}
  Archives <- MCArchives
  ZipPaths <- MCZipPaths
  BufPages = 2
  MaxAlong = 1
SYMMETRY Symmetry
INVARIANTS
  SimpleAnswers
  MergeAnswers
  ZipAnswers
  AlgorithmsRight
  DebuggerRight
CHECK_DEADLOCK FALSE
