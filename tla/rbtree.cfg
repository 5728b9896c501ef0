SPECIFICATION Spec
CONSTANTS
  Leaf = Leaf
  None = None
  Nodes <- TenNodes
  MaxWalked = 5
INVARIANT RedBlack
INVARIANT Threaded
PROPERTY ImplementsSortedBag
