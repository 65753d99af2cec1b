SPECIFICATION Spec
CONSTANTS
  MaxStates = 3
  MergePoint = {1, 2}
  Config <- Working
  RandomizeFork = TRUE
  NoState = NoState
  NoPoint = NoPoint
  Invalid = Invalid
INVARIANTS SearcherOK HeldOnce
PROPERTIES ExecutesOpen SelectReturns
CHECK_DEADLOCK FALSE
