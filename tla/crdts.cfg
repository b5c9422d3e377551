SPECIFICATION Spec
CONSTANTS
  e1 = e1
  Nodes <- TwoNodes
  Elements <- OneElement
  Times <- TwoTimes
  MaxHistory = 1
  MaxOps <- TwoAndOne
  MaxVersion = 4
  MaxNet = 1
INVARIANTS TypeOK LatestWriteWins NothingCountedTwice AdditionsWin DeltaCovers
CHECK_DEADLOCK FALSE
