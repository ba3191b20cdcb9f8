SPECIFICATION Spec
CONSTANTS
  Base = 3
  MAX_U24 = 26
  MAX_U32 = 80
  USIZE_MAX = 90
  Netlists <- MCNetlists
INVARIANTS
  RoundTrip
  RefusesExactly
  ReturnsAsTheRules
CHECK_DEADLOCK FALSE
