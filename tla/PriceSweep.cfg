CONSTANTS
  Traces <- MCTraces
  DateOf <- MCDateOf
  UsedOf <- MCUsedOf
  MonthOf <- MCMonthOf
  CurrentMonth = 2
  Models = {"a", "b"}
  TokenTypes = {"in", "out"}
  Says <- MCSays
  Corrections <- MCCorrections
  Seed <- MCSeed
  Computed <- MCComputed
  OnSale <- MCOnSale
  PageSize = 2
  ChunkSize = 1
  TargetSize = 1
  MaxSlips = 1
SPECIFICATION FairSpec
INVARIANTS TypeOK StampedAsOf
PROPERTIES StampIsFinal PricedIsStamped
CHECK_DEADLOCK FALSE
