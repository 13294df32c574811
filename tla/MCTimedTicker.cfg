SPECIFICATION FairSpec
CONSTANTS
  i1 = i1
  c1 = c1
  Items = {i1}
  Chars = {c1}
  Npcs = {c1}
  Delays = {0, 1}
  NpcDelay = 2
  Horizon = 4
INVARIANTS
  FlagsTellLists
  NoDanglingEntry
  ArmedIsScheduled
PROPERTIES
  ImplementsRegistry
  ArmedTicks
