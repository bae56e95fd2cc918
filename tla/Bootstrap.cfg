CONSTANTS
  DuneInitAllocates = TRUE
  DlsymSize = 32
  SpecialSize = 32

SPECIFICATION FairSpec

INVARIANTS
  TypeOK
  SpecialStaysInDlsym
  StartupSurvives
  HooksBalanced
  RemapsAfterHooks

PROPERTY CallsReturn

CHECK_DEADLOCK FALSE
