SPECIFICATION L1Spec
CONSTANTS
  AggregationIntervals <- Intervals2
  HarvestDelay = 0
  IDs = {"a"}
  Partitions = {0, 1}
  Events = {"e1", "e2"}
  PartsOf <- Parts2
  Runner = "run"
  Closers = {"c1", "c2"}
  CancelClose = {"c1"}
  CancelRun = TRUE
  Faults = {"commit", "process"}
  StartTimes = {0, 1}
  MaxNow = 3
  MaxLag = 0
INVARIANTS
  TypeOK
  OneHarvester
  AtMostOnce
  CountsConserved
  Harvestable
  FinalHarvestComplete
PROPERTIES
  OneReportPerKey
  DeliveryContract
CHECK_DEADLOCK FALSE
