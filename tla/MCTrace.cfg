SPECIFICATION Spec
CONSTANTS
  MAX_U8 = 2
  MAX_U32 = 2
  Hosts = {g, h}
  Specs <- MCSpecs
  Inputs <- MCInputs
  Observed <- MCObserved
INVARIANTS
  RootsBind
  FinishedRootsNameRuns
  OutputsBind
  Inv
SYMMETRY Alike
CHECK_DEADLOCK FALSE
