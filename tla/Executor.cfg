SPECIFICATION Spec
CONSTANTS
  Seed = {d, e}
  MaxStates = 3
  MaxBranch = 2
  NoState = NoState
  NoSearcher = NoSearcher
CONSTRAINT Bounded
INVARIANTS StepSets NoDangling TreeOfStates SeedsHeld
PROPERTIES PathSpec HaltStops
CHECK_DEADLOCK FALSE
