SPECIFICATION Spec
CONSTANTS
  Procs = {p1, p2}
  Events <- SomeEvents
  Hashes <- AllHashes
  Builders = {b1, b2, b3, b4}
  Pmbs = {m1, m2}
  MaxSpans = 2
  MaxEvents = 3
  Summary = "s"
  None = None
SYMMETRY Symmetric
INVARIANTS
  CallbacksExact
  
  BuildersOwned
CHECK_DEADLOCK FALSE
