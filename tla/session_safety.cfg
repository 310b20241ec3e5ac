SPECIFICATION Spec
CONSTANTS
  PosLen = 3
  LureLen = 4
  BufSize = 2
  OutLen = 2
  Pieces <- MCPieces
  MaxPieces = 2
  MaxPolls = 3
  MaxFaults = 1
  MaxStarts = 2
  MaxRestarts = 1
INVARIANTS
  TypeOK
  OneRead
  OneTimer
  NeverDeaf
  NeverMute
  StreamIntact
  HandledExactly
  LeftoverIsOneFrame
  WireFramed
  DanglesOnlyIfStale
PROPERTIES
  QuietAfterStop
  FailedStartIsFinal
  ImplementsFeed
