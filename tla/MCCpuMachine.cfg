SPECIFICATION Spec
CONSTANTS
  W = 8
  ResetState <- ResetLatches
  Tick <- tick
  Pc <- pc_of
  Halted <- halted
  Out <- output_of
  Sessions <- TestSessions
INVARIANTS
  ArithmeticIsExact
PROPERTIES
  ImplementsIsa
CHECK_DEADLOCK FALSE
