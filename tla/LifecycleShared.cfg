CONSTANTS
  Threads = {t1, t2}
  Heaps = {h1, h2}
  Pages = {p1, p2}
  Blocks = {b1, b2}
  BlocksPerPage = 2
  MaxHeaps = 2
  Default = Default
  None = None
SPECIFICATION Spec
CHECK_DEADLOCK FALSE
INVARIANTS
  HeapsAreSound
  ValidBlocksHavePages
