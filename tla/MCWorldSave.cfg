SPECIFICATION FairSpec
CONSTANTS
  c1 = c1
  c2 = c2
  i1 = i1
  SectorsQty = 2
  Chars = {c1, c2}
  Items = {i1}
  Background = TRUE
  SectorsPerTick = 1
  Ships = FALSE
  Reach = FALSE
  GarbageCollect = FALSE
  Faults = {}
  MaxSaves = 2
PROPERTIES
  SaveCompletes
  CompleteSaveHoldsChars
  CompleteSaveHoldsItems
