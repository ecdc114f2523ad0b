CONSTANTS
  Rows <- MCRows
  SessionOf <- MCSessionOf
  Poison <- MCPoison
  Broken <- MCPoison
  Drainers = {d1, d2}
  BatchSize = 2
  Concurrency = 2
  BreakerMin = 2
  Quiet = 2
  Lag = 1
  Gap = 1
  LastWrite = 2
  MaxFaults = 1
SPECIFICATION FairSpec
INVARIANTS
  TypeOK
  NothingBehindCursor
  StoredIsFinal
  BookmarkSettles
  SessionInOrder
PROPERTIES
  CursorNeverRegresses
  EveryRowLands
CHECK_DEADLOCK FALSE
