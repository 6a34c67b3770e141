SPECIFICATION Spec
CONSTANTS
  SubBucketHalfCountMagnitude = 1
  HighestTrackableValue = 40
  CountScale = 10
  Values <- SomeValues
  Counts = {4, 25}
  MaxRecords = 4
  Nil = Nil
INVARIANTS
  RecordsExact
  MergeExact
  TrackableRecorded
  ValuesPrecise
CHECK_DEADLOCK FALSE
