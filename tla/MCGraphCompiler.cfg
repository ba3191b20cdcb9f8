SPECIFICATION Spec
CONSTANTS
  MAX_U24 = 6
  MAX_U32 = 24
  USIZE_MAX = 104
  Graphs <- MCGraphs
INVARIANTS
  Inv
  IsCanonical
  RefusesExactly
  SameMachine
PROPERTY CompileEnds
CHECK_DEADLOCK FALSE
