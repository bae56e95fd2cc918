CONSTANTS
  t1 = t1
  t2 = t2
  NoThread = NoThread
  Threads <- MCThreads
  NumFrames = 5
  FanOut = 2
  RemapPages <- MCRemapPages
  PhysStarts = {1}
  CachedPages = {12}

SPECIFICATION Spec

SYMMETRY MCSymmetry

INVARIANTS
  TypeOK
  TablesFormTree
  AccessesJudgedRight
  MutexReleased
  AssertionsHold
  ListingsTellAll

PROPERTIES
  FlushesWhatItChanges
  ImplementsAddressSpace

CHECK_DEADLOCK FALSE
