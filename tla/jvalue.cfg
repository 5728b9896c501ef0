SPECIFICATION MCSpec
CONSTANTS
  Room = 8
  None = None
  Values <- Memory
  Names <- ThreeNames
  Sizes <- OneSize
  MaxMade = 4
  MaxContainers = 2
  MaxRoots = 2
  MaxClones = 1
  FailsAt <- TwoFails
  MaxNulls = 2
  Alphabets <- TextKinds
  MaxLen = 6
  Docs <- SmallDocs
  MayFail = TRUE
INVARIANT SearchFinds
INVARIANT OwnedOnce
INVARIANT CloneCopies
INVARIANT PassesAgree
INVARIANT ReadsBack
CHECK_DEADLOCK FALSE
