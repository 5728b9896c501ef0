SPECIFICATION FairSpec
CONSTANTS
  c1 = c1
  c2 = c2
  Conns <- TwoConns
  Segments <- TwoSegments
  MaxSends = 2
  Manners <- AnyWholeOrMute
  MayFail = TRUE
INVARIANT NoUseAfterFree
INVARIANT SessionsAccounted
INVARIANT FreshRequest
INVARIANT AnsweredOnce
PROPERTY RequestsServed
CHECK_DEADLOCK FALSE
