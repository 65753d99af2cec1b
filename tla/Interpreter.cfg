SPECIFICATION MCSpec
CONSTANTS
  Assignment <- Inputs3
  Word = 16
  Unsigned = 8
  Octet <- Four
  Reg = {rx, ry, rz, rp}
  NoReg = NoReg
  rx = rx
  ry = ry
  rz = rz
  rp = rp
  Block = {"A", "B", "C", "D", "E", "F", "G", "H", "I", "J"}
  NoBlock = "noblock"
  Code <- MCCode
  Function <- MCFunction
  FunctionAt <- MCFunctionAt
  Mains <- MCMains
  Arguments <- MCArguments
  Globals <- MCGlobals
  Widths = {1, 2}
  Join <- JoinOf
  Part <- PartOf
  Given <- GivenBy
  HugeSize = 3
  MaxArrays = 2
  Junk = 0
  AllowExternalSymCalls = FALSE
  Size = 2
  Byte = {0, 1}
  Valuation <- Valuations
  SymbolicByte <- Symbolics
  SymbolicOffset <- OffsetExprs
  Input <- Inputs
  External = {1}
  Null = Null
  MaxUpdates = 2
VIEW MCView
INVARIANTS PathsPartition CacheOK
PROPERTIES EveryInputRuns ArrayOfBytes
CHECK_DEADLOCK FALSE
