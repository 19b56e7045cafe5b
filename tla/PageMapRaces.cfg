CONSTANTS
  Threads = {t1, t2}
  NSlices = 4
  SubCount = 2
  MaxSubmaps = 2
  MaxRegisters = 4
  None = None
SPECIFICATION Spec
INVARIANTS
  RegisteredIsFound
  FreeSlicesAreUnmapped
CHECK_DEADLOCK FALSE
