SPECIFICATION Spec
CONSTANTS
  W = 4
  ResetState <- ResetCpu
  Tick <- Execute
  Pc <- MCPc
  Halted <- MCHalted
  Out <- MCOut
  Sessions <- MCSessions
INVARIANTS
  TypeOK
  HaltRunIsExact
  OutputsRunIsExact
  NothingLost
  ProgramsCompute
PROPERTIES
  CallReturns
CHECK_DEADLOCK FALSE
