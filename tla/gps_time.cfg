SPECIFICATION Spec
CONSTANTS
  HalfWeek = 4
  MaxTime = 20
  MaxLead = 6
INVARIANTS
  AgeCorrect
