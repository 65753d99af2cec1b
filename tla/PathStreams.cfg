SPECIFICATION Spec
CONSTANTS
  x = x
  y = y
  Bit = {x, y}
  Length = 3
  Kind = {"branch", "switch", "seeded"}
  BufferSize = 2
CONSTRAINT SomePrograms
INVARIANTS ReadsBack ReplayReaches
CHECK_DEADLOCK FALSE
