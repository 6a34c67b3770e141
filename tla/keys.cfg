SPECIFICATION Spec
CONSTANTS
  TicksPerSecond = 2
  IvlFieldSize = 4
  MaxInterval = 7
  Configs <- SomeConfigs
  IDs = {0}
  Starts = {0, 3}
  MaxNow = 12
INVARIANTS
  RangesAreWindows
  KeysDecoded
  WindowsApart
CHECK_DEADLOCK FALSE
