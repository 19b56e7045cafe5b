CONSTANTS
  Threads = {t1, t2, t3}
  NBits = 4
  FieldBits = 2
SPECIFICATION Spec
CHECK_DEADLOCK FALSE
INVARIANTS
  BitsAreSound
  ChunkmapIsConservative
