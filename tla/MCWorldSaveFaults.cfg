SPECIFICATION Spec
CONSTANTS
  c1 = c1
  c2 = c2
  i1 = i1
  SectorsQty = 2
  Chars = {c1}
  Items = {i1}
  Background = TRUE
  SectorsPerTick = 1
  Ships = TRUE
  Reach = TRUE
  GarbageCollect = TRUE
  Faults = {"open", "throw", "accounts", "space"}
  MaxSaves = 2
INVARIANTS
  NoCharTwice
SYMMETRY Symmetry
