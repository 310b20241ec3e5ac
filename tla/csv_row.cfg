SPECIFICATION Spec
CONSTANTS
  MaxPower = 8
  Letters <- MCLetters
  Jobs <- MCJobs
INVARIANTS
  ColumnsComeBack
  NumbersAreExact
  BadColumnSplitsTheRow
PROPERTIES
  ExponentLoopEnds
CHECK_DEADLOCK FALSE
