SPECIFICATION Page
CONSTANTS
  Base = 3
  MAX_U24 = 26
  MAX_U32 = 80
  USIZE_MAX = 90
  ByteBits = 2
  Netlists <- MCNetlists
  InputArrays <- MCInputs
  StateArrays <- MCStates
INVARIANTS
  DescribesWhatWasCompiled
  StateComesBack
PROPERTIES
  ImplementsMachine
CHECK_DEADLOCK FALSE
