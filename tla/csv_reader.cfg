SPECIFICATION Spec
CONSTANTS
  Cells <- MCCells
  Files <- MCFiles
  DefaultNames <- MCDefaultNames
  NameLists <- MCNameLists
  Unclosed = "quote"
  Bad = {"bad", "A", "B", "X"}
  MaxCalls = 4
INVARIANTS
  RowsAreUnderTheirHeader
  StaleColumnsAreNotInTheOrder
  ErrorsSayWhere
CHECK_DEADLOCK FALSE
