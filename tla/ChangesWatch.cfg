\* Three rows two to a page, transactions as long as settle_ms, one restart.
SPECIFICATION FairSpec
CONSTANTS
  MaxRow = 3
  MaxTime = 5
  MaxRestarts = 1
  MaxLag = 2
  TicksPerSecond = 2
  Settle = 2
  Latest = TRUE
  BatchSize = 2
  MaxPerTick = 2
  MaxAttempts = 1
  Kinds <- OddRows
INVARIANTS
  NothingPassedOver
PROPERTIES
  RowsArrive
  CancelEnds
CHECK_DEADLOCK FALSE
