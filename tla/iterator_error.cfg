SPECIFICATION L1Spec
CONSTANTS
  AggregationIntervals <- Intervals2
  HarvestDelay = 0
  IDs = {"a"}
  Partitions = {0, 1}
  Events = {"e1"}
  PartsOf <- Parts2
  Runner = "run"
  Closers = {"c1"}
  CancelClose = {}
  CancelRun = FALSE
  Faults = {"iterate"}
  StartTimes = {0}
  MaxNow = 2
  MaxLag = 0
INVARIANT Accounted
CHECK_DEADLOCK FALSE
