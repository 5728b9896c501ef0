SPECIFICATION FairSpec
CONSTANTS
  w1 = w1
  w2 = w2
  w3 = w3
  c1 = c1
  f1 = f1
  f2 = f2
  None = None
  Workers <- TwoWorkers
  Callers <- WithFunctions
  ThreadNum = 2
  NumMax = 2
  LateAdds = 0
  MaxJobs = 3
  PipeCap = 1
  WorkersSubmit = TRUE
  Inner <- FunctionsCall
  MayRefuse = TRUE
  MaxAddFails = 1
  MaxSilentFails = 1
  MaxWriteFails = 0
  MaxReadFails = 0
INVARIANT NoLostWakeup
INVARIANT ReadReturns
PROPERTY ImplementsWorkPool
PROPERTY EveryJobRuns
PROPERTY CallsReturn
