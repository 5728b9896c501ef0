SPECIFICATION Spec
CONSTANTS
  k1 = k1
  k2 = k2
  k3 = k3
  k4 = k4
  n1 = n1
  n2 = n2
  n3 = n3
  v1 = v1
  v2 = v2
  v3 = v3
  v4 = v4
  None = None
  Keys <- FourKeys
  NumKey <- Hashes
  Values <- FourValues
  Nodes <- ThreeNodes
  Size0 = 1
  MaxSize = 4
  MaxRefs = 1
  MayFail = TRUE
SYMMETRY Symmetry
INVARIANT LinksAgree
INVARIANT ValuesAccounted
PROPERTY ImplementsOrderedMap
