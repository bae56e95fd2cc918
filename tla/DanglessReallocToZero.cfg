CONSTANTS
  t1 = t1
  t2 = t2
  Threads <- MCThread
  PageSize = 2
  EntryPages = 2
  NumEntries = 1
  ProgramEntries = {0}
  MaxLen = 2
  AutoDedicate = TRUE
  UserRegions <- MCNoRegions
  ReallocToZero = TRUE

SPECIFICATION Spec

INVARIANT NoDanglingAlias
