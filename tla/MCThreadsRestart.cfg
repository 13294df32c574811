SPECIFICATION ThreadsSpec
CONSTANTS
  main = main
  net = net
  NoThread = NoThread
  NoObject = NoObject
  Objects = {main, net}
  MaxThreads = 3
  Timed = {main}
  Hangers = {main}
INVARIANTS
  RestartedRuns
CHECK_DEADLOCK FALSE
