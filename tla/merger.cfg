SPECIFICATION Spec
CONSTANTS
  Inputs <- SomeInputs
  LimitsSet <- SomeLimits
  NoName = NoName
  NoInst = NoInst
  All = All
INVARIANTS
  NothingLost
  NothingTwice
  
  InstancesEstimated
  OverflowOnlyWhenFull
  PublishedOnce
  Summarised
CHECK_DEADLOCK FALSE
