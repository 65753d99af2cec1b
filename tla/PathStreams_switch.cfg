SPECIFICATION Spec
CONSTANTS
  x = x
  y = y
  Bit = {x, y}
  Length = 3
  Kind = {"branch", "switch", "seeded"}
  BufferSize = 2
CONSTRAINT SomePrograms
INVARIANT NoInvalidBranch
CHECK_DEADLOCK FALSE
