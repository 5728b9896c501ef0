SPECIFICATION Spec
CONSTANTS
  w1 = w1
  w2 = w2
  w3 = w3
  c1 = c1
  f1 = f1
  f2 = f2
  None = None
  Workers <- ThreeWorkers
  Callers <- OneCaller
  ThreadNum = 2
  NumMax = 2
  LateAdds = 1
  MaxJobs = 3
  PipeCap = 4
  WorkersSubmit = FALSE
  Inner <- FunctionsDoNot
  MayRefuse = TRUE
  MaxAddFails = 1
  MaxSilentFails = 1
  MaxWriteFails = 1
  MaxReadFails = 1
INVARIANT ByteAccounting
INVARIANT NoJobLost
INVARIANT ReadyIsComplete
CHECK_DEADLOCK FALSE
