SPECIFICATION FairSpec
CONSTANTS
  BlockLen = 3
  LF = "LF"
  CR = "CR"
  Mark <- MCMark
  MaxFile = 6
  Files <- MCFiles
  MaxCalls = 12
INVARIANTS
  TypeOK
  AssertsHold
  BlocksAreApart
  WorkerAnswers
PROPERTIES
  GivesTheLines
  CallsReturn
CHECK_DEADLOCK FALSE
