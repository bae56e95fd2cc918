CONSTANTS
  Alphabet <- MCAlphabet
  MaxFormat = 4
  MaxWidth = 13
  IntBits = 3
  LongBits = 5
  Strings <- MCStrings
  Widths <- MCWidths

SPECIFICATION Spec

INVARIANT ZerosBehindSign

CHECK_DEADLOCK FALSE
