SPECIFICATION FairSpec
CONSTANTS
  PosLen = 2
  LureLen = 3
  BufSize = 1
  OutLen = 2
  Pieces <- MCPieces
  MaxPieces = 1
  MaxPolls = 3
  MaxFaults = 1
  MaxStarts = 1
  MaxRestarts = 1
PROPERTIES
  PollsKeepComing
  LineDrains
