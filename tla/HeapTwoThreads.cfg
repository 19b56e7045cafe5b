CONSTANTS
  Pages = {p1, p2, p3}
  None = None
  NBins = 2
  Sizes <- MCSizes
  SizeBin <- MCSizeBin
  SmallSizes <- MCSmallSizes
  CyclesOf <- MCCyclesOf
  Cap = 2
  MaxExits = 1
SYMMETRY PageSymmetry
SPECIFICATION Spec
INVARIANTS
  QueuesAreSound
  KeepsOneEmptyPage
PROPERTY
  OnlyFreesEndLives
