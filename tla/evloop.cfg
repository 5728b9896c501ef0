SPECIFICATION FairSpec
CONSTANTS
  main = main
  u1 = u1
  e1 = e1
  e2 = e2
  f1 = f1
  f2 = f2
  None = None
  Loop <- LoopThread
  Events <- TwoEvents
  Fds <- OneFd
  Users <- OneUser
  Adders <- OnlyLoop
  Chunk = 1
  MaxEdges = 2
  MaxStarts = 2
  MaxStops = 1
  MayFail = TRUE
  MayBreak = FALSE
PROPERTY EdgesReachCallbacks
PROPERTY DeletedIsFreed
PROPERTY StopReturns
