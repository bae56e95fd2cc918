CONSTANTS
  t1 = t1
  t2 = t2
  Threads <- MCThreads
  PageSize = 1
  EntryPages = 2
  NumEntries = 2
  ProgramEntries = {0}
  MaxLen = 2
  AutoDedicate = TRUE
  UserRegions <- MCNoRegions
  ReallocToZero = FALSE

SPECIFICATION FairSpec

INVARIANTS
  NoDanglingAlias
  PagesHaveOneOwner
PROPERTIES
  UsesAddressSpace
  CallsReturn
