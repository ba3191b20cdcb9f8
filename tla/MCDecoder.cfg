SPECIFICATION Spec
CONSTANTS
  Base = 3
  MAX_U24 = 26
  MAX_U32 = 80
  USIZE_MAX = 80
  MaxTail = 7
  Files <- MCFiles
INVARIANTS
  AcceptsExactly
  ViewIsValid
  Inv
PROPERTY ParseEnds
CHECK_DEADLOCK FALSE
