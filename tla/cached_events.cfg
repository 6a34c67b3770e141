SPECIFICATION Spec
CONSTANTS
  Intervals = {1, 2}
  IDs = {"a"}
  Adders = {a1, a2}
  Ptrs = {p1, p2, p3, p4}
  NoPtr = NoPtr
  Scale = 65535
  Den = 6
  Amounts = {2, 3, 12}
  Ends = {1, 2}
  MaxAdds = 4
INVARIANTS
  StoredExact
  CountBounded
SYMMETRY Symmetry
CHECK_DEADLOCK FALSE
