SPECIFICATION Spec
CONSTANTS
  Threads = {8, 12}
  WordBits = 8
  Start = 8
  BlockSize = 6
  Reserved = 3
  MaxExtend = 2
  Align = 4
  K0s = {0, 3}
  K1s = {85}
  UserWord = 1
CHECK_DEADLOCK FALSE
INVARIANTS
  ListsAreSound
  PointersResolve
  ContentsAreKept
  LegalFreesPass
