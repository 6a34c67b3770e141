SPECIFICATION LifeSpec
CONSTANTS
  AggregationIntervals <- Intervals2
  HarvestDelay = 1
  IDs = {"a"}
  Partitions = {0}
  Events = {"e1", "e2"}
  PartsOf <- AllParts
  Runner = "run"
  Closers = {"c1", "c2"}
  CancelClose = {"c1"}
  CancelRun = FALSE
  Faults = {"delete"}
  StartTimes = {0}
  MaxNow = 3
  MaxLag = 0
  InMemory = {TRUE, FALSE}
  MaxCrashes = 1
INVARIANTS
  LostOnlyBuffered
  RedeliveredOnlyUndeleted
  StrandedOnly
  TotalCoversLife
CHECK_DEADLOCK FALSE
