SPECIFICATION Spec
CONSTANTS
  main = main
  u1 = u1
  e1 = e1
  e2 = e2
  f1 = f1
  f2 = f2
  None = None
  Loop <- LoopThread
  Events <- TwoEvents
  Fds <- TwoFds
  Users <- OneUser
  Adders <- TwoAdders
  Chunk = 1
  MaxEdges = 2
  MaxStarts = 1
  MaxStops = 0
  MayFail = FALSE
  MayBreak = TRUE
INVARIANT ArraySound
INVARIANT NoUseAfterFree
INVARIANT ListsAgree
INVARIANT OwnDescriptor
PROPERTY ImplementsEventSource
CHECK_DEADLOCK FALSE
SYMMETRY Alike
