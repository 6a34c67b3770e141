SPECIFICATION L1FairSpec
CONSTANTS
  AggregationIntervals <- Intervals2
  HarvestDelay = 0
  IDs = {"a"}
  Partitions = {0, 1}
  Events = {"e2"}
  PartsOf <- Parts2
  Runner = "run"
  Closers = {"c1"}
  CancelClose = {}
  CancelRun = FALSE
  Faults = {}
  StartTimes = {0}
  MaxNow = 2
  MaxLag = 0
PROPERTY CloseReturns
CHECK_DEADLOCK FALSE
