SPECIFICATION Spec
CONSTANTS
  Seed = {d, e}
  MaxStates = 3
  MaxBranch = 2
  NoState = NoState
  NoSearcher = NoSearcher
INVARIANT SeedingWithoutSearcher
CHECK_DEADLOCK FALSE
