SPECIFICATION SliceSpec
CONSTANTS
  SliceThreads = {t1, t2, t3}
  Bins = {b1, b2}
  MaxLives = 3
  NoBin = NoBin
  NoOwner = NoOwner
INVARIANTS
  SliceStateIsSound
  ClaimedPageIsTheOneSought
CHECK_DEADLOCK FALSE
