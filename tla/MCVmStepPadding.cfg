SPECIFICATION Spec
CONSTANTS
  ByteBits = 2
  Circuits <- Picked
  Inputs <- PickedInputs
  States <- PickedStates
  Dirty <- PickedDirty
  Scratches <- PickedScratches
INVARIANT PaddingIsZero
