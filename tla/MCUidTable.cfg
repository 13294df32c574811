SPECIFICATION FairSpec
CONSTANTS
  o1 = o1
  o2 = o2
  Null = Null
  Held = Held
  Objs = {o1, o2}
  FirstSize = 3
  Block = 2
  FreeUidsSize = 2
  MaxSize = 6
  MaxBroken = 1
INVARIANTS
  LinkedBothWays
PROPERTIES
  UidsLastForTheSave
  GrowsOnlyWhenFull
  HeldGoes
