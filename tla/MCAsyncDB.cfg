SPECIFICATION FairSpec
CONSTANTS
  helper = helper
  net = net
  NoThread = NoThread
  NoObject = NoObject
  Objects = {helper, net}
  MaxThreads = 3
  Timed = {helper}
  Hangers = {}
  Helper = helper
  MaxQueries = 2
  MaxLosses = 1
INVARIANTS
  QueriesKept
  OneThreadEach
  NoThreadIsCancelled
PROPERTIES
  ImplementsQueryService
  QueriesAnswered
  ThreadsEnd
CHECK_DEADLOCK FALSE
