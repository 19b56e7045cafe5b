SPECIFICATION FairSpec
CONSTANTS
  Threads = {t1, t2, t3}
  Reserved = 3
  MaxExtend = 2
  Small = TRUE
  RegistryMayFail = TRUE
  Abandoned = Abandoned
  Mapped = Mapped
  None = None
INVARIANTS
  IndInv
  ExclusiveOwner
  DispatchSound
  UsedIsExact
  ReleaseIsSafe
  HiddenRoomIsQueued
PROPERTIES
  StoreRefined
  OperationsEnd
CHECK_DEADLOCK FALSE
