SPECIFICATION Spec
CONSTANTS
  acc = acc
  tick = tick
  w1 = w1
  w2 = w2
  r1 = r1
  r2 = r2
  f1 = f1
  f2 = f2
  None = None
  Ticker <- TickThread
  Workers <- OneWorker
  Openers <- OneOpener
  Records <- TwoRecords
  Fds <- TwoFds
  Closers <- ByTheLot
  MaxConns = 2
  MaxSends = 1
  MaxTicks = 1
  MayFail = TRUE
  MayTrim = TRUE
INVARIANT NoStaleRecord
INVARIANT RecordsAccounted
INVARIANT NoDescriptorLost
