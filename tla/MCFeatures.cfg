SPECIFICATION MCSpec
CONSTANTS
  Unit = 10
  MaxExcerpt = 2
  MaxText = 6
  TradeIds = {"t1", "t2", "t3", "t4", "t5", "t6", "t7", "t8"}
  DayLength = 40
  HourLength = 4
  PremarketStart = 8
  BucketTicks = 4
  RvolSessions = 2
  AtrPeriod = 2
  MinHistory = 4
  Lookback = 6
  PivotWidth = 1
  Recency = 2
  Capacity = 2
INVARIANTS
  SnapshotIsComplete
  PayloadPassesGates
  RoomIsNotOverstated
  LedgerCountsOnce
  SnapshotOfItsTime
  LaterTradesStayOut
CHECK_DEADLOCK FALSE
