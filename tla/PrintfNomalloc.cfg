CONSTANTS
  Alphabet <- MCAlphabet
  MaxFormat = 6
  MaxWidth = 13
  IntBits = 3
  LongBits = 5
  Strings <- MCStrings
  Widths <- MCWidths

SPECIFICATION Spec

INVARIANTS
  PrintsAsC
  StopsOnlyAtLimits

CHECK_DEADLOCK FALSE
