SPECIFICATION Spec
CONSTANTS
  c1 = c1
  c2 = c2
  c3 = c3
  l1 = l1
  l2 = l2
  l3 = l3
  l4 = l4
  s1 = s1
  s2 = s2
  s3 = s3
  None = None
  Clients <- ThreeClients
  Links <- FourLinks
  Recs <- ThreeRecs
  MaxFailed = 1
SYMMETRY Symmetry
INVARIANT HeldByOne
INVARIANT StatementsAccounted
