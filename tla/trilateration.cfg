SPECIFICATION Spec
CONSTANTS
  Ids = {1, 2, 7, 16}
  Positions <- MCPositions
  Places <- MCPlaces
  Radius = 1
  Unit = 3
  IntMax = 7
  Junk <- MCJunk
INVARIANTS
  ThreeStayInside
  RowsDescribeAntipode
  NormalEquations
  SmallIsSingular
CHECK_DEADLOCK FALSE
