SPECIFICATION L1FairSpec
CONSTANTS
  AggregationIntervals <- Intervals3
  HarvestDelay = 0
  IDs = {"a"}
  Partitions = {0, 1}
  Events = {"e1"}
  PartsOf <- Parts2
  Runner = "run"
  Closers = {"c1", "c2"}
  CancelClose = {"c1", "c2"}
  CancelRun = FALSE
  Faults = {}
  StartTimes = {0, 1}
  MaxNow = 5
  MaxLag = 0
INVARIANTS
  Accounted
  OneHarvestCandidate
PROPERTIES
  EventuallySettled
  CloseReturns
  
CHECK_DEADLOCK FALSE
