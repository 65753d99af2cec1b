CONSTANTS
  ByteWidth = 2
  IntWidth = 4
  ArrayBytes = 2
  ConstantArrays <- MCConstantArrays
  SymbolicArrays <- MCArrays
  ConstArrayOpt = TRUE
  optimizeDivides = TRUE
  PCAllConstWidths = TRUE
  Programs <- MCPrograms
SPECIFICATION Spec
CHECK_DEADLOCK FALSE
INVARIANTS TermMeans PathMeans SimplifiedMeans RequiredSuffice FastAnswers PrintedReadsBack BuildersMean SMTLIBMeans
