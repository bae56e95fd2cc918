CONSTANTS
  t1 = t1
  t2 = t2
  Threads <- MCThread
  PageSize = 2
  EntryPages = 2
  NumEntries = 2
  ProgramEntries = {0}
  MaxLen = 2
  AutoDedicate = TRUE
  UserRegions <- MCSmallRegion
  ReallocToZero = FALSE

SPECIFICATION Spec

INVARIANT NeverReplacesMapping
