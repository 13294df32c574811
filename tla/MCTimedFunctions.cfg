SPECIFICATION FairSpec
CONSTANTS
  o1 = o1
  o2 = o2
  f1 = f1
  NoObj = NoObj
  NoUid = NoUid
  Objs = {o1, o2}
  Funcs = {f1}
  Uids = {1, 2}
  MaxDelay = 1
  MaxSaves = 1
  MaxRestarts = 1
PROPERTIES
  RunsOnItsObject
  EveryFunctionEnds
