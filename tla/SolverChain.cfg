SPECIFICATION Spec
CONSTANTS
  a = a
  b = b
  Array = {a, b}
  Cell <- Cells
  Byte = {0, 1}
  Zero = 0
  Expr <- Exprs
  Canonical <- Smaller
  Constraints <- Paths
  Options <- CommandLines
  MaxQueries = 3
INVARIANTS CachesTrue AnswersCorrect FailsWithCore
PROPERTY AnswersKept
CHECK_DEADLOCK FALSE
