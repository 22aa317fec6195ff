SPECIFICATION Spec
CONSTANTS
  NumTurns = 3
  MaxTurns = 2
INVARIANT NothingForgotten
CHECK_DEADLOCK FALSE
