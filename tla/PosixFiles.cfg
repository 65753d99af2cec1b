SPECIFICATION Spec
CONSTANTS
  Path = {p, q}
  First = p
  SymFile = {A}
  Stdin = stdin
  Stdout = stdout
  Concolic = png
  Size <- Sizes
  SymStat <- Stats
  Mode <- Modes
  MaxFds = 3
  OsFd = {0, 1, 2, 3}
  MaxFailures = 1
  SaveAllWrites = FALSE
  Half = 8
  Count = {1, 2}
  Offset <- SmallOffsets
  DirBase = 2
  EntrySize = 1
  MaxCalls = 3
  NoFile = NoFile
INVARIANTS HostFilesOpen FailuresBounded CopiesWithin
PROPERTY RemovedFilesGone
CHECK_DEADLOCK FALSE
