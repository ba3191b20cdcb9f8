SPECIFICATION Spec
CONSTANTS
  MAX_U24 = 6
  MAX_U32 = 24
  USIZE_MAX = 104
  Graphs <- MCGraphs
INVARIANT SourcePortsAreOut
CHECK_DEADLOCK FALSE
