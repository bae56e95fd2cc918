CONSTANTS
  t1 = t1
  t2 = t2
  Threads <- MCThread
  PageSize = 2
  EntryPages = 2
  NumEntries = 2
  ProgramEntries = {0, 1}
  MaxLen = 3
  AutoDedicate = TRUE
  UserRegions <- MCOwnRegion
  ReallocToZero = TRUE

SPECIFICATION Spec

INVARIANTS
  TypeOK
  OnlyAbandonedDangle
  LivePointersWork
  PagesHaveOneOwner
  ChunksReachable
  SysFreeGetsChunk
  AssertionsHold

PROPERTIES
  RetiredForEver
  FallbackMeansExhausted
