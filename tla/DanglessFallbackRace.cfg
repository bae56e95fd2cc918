CONSTANTS
  t1 = t1
  t2 = t2
  Threads <- MCThreads
  PageSize = 2
  EntryPages = 2
  NumEntries = 1
  ProgramEntries = {0}
  MaxLen = 1
  AutoDedicate = TRUE
  UserRegions <- MCNoRegions
  ReallocToZero = FALSE

SPECIFICATION Spec

PROPERTY FallbackMeansExhausted
