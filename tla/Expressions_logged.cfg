CONSTANTS
  ByteWidth = 2
  IntWidth = 4
  ArrayBytes = 2
  ConstantArrays <- MCConstantArrays
  SymbolicArrays <- MCArrays
  ConstArrayOpt = TRUE
  optimizeDivides = TRUE
  PCAllConstWidths = FALSE
  Programs <- MCPrograms
SPECIFICATION Spec
CHECK_DEADLOCK FALSE
INVARIANT PrintedReadsBack
