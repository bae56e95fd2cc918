CONSTANTS
  Pages <- MCPages
  MaxRequest = 4
  Elems = {s1, s2, s3, s4, s5}
  ListHead = ListHead
  Null = Null
  Wild = Wild
SPECIFICATION LinkedSpec
SYMMETRY MCSymmetry
INVARIANTS
  TypeOK
  FreelistCoalesced
  PagesConserved
  FreelistChained
PROPERTY
  ImplementsPagePool
