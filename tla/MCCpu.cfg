SPECIFICATION FreeRunning
CONSTANTS
  W = 1
  Inputs <- AllWords
INVARIANTS
  TickIsExecute
PROPERTIES
  HaltStays
