SPECIFICATION FairSpec
CONSTANTS
  acc = acc
  tick = tick
  w1 = w1
  w2 = w2
  r1 = r1
  r2 = r2
  f1 = f1
  f2 = f2
  None = None
  Ticker <- TickThread
  Workers <- TwoWorkers
  Openers <- OneOpener
  Records <- TwoRecords
  Fds <- OneFd
  Closers <- ByPeer
  MaxConns = 2
  MaxSends = 2
  MaxTicks = 0
  MayFail = FALSE
  MayTrim = FALSE
PROPERTY ConnectFirst
PROPERTY CloseComes
PROPERTY NoDataStranded
