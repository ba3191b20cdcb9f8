SPECIFICATION Spec
CONSTANTS
  MAX_U24 = 13
  MAX_U32 = 15
  USIZE_MAX = 45
  Builders = {p, q}
  InputCounts = {9, 12, 13}
  Wires <- SomeWires
  Inputs = {2, 12}
  OutputLists <- SomeOutputs
  MaxGates = 3
SYMMETRY Alike
INVARIANTS
  HandlesHold
  FinishIsExact
  BuildsWhatWasMeant
  CarefulBuildSucceeds
  SignalsAreTheirOwn
CHECK_DEADLOCK FALSE
