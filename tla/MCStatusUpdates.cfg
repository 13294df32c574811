SPECIFICATION UpdatesFairSpec
CONSTANTS
  o1 = o1
  o2 = o2
  Objs = {o1, o2}
  MaxFailedLoads = 1
INVARIANTS
  FlagTellsQueue
  NoDanglingUpdate
PROPERTIES
  RequestsAreServed
