SPECIFICATION Spec
CONSTANTS
  Ids = {1, 2, 16}
  Positions <- MCPositions
  Places <- MCPlaces
  Radius = 1
  Unit = 3
  IntMax = 2000000
  Junk <- MCJunk
INVARIANT DeterminantFound
CHECK_DEADLOCK FALSE
