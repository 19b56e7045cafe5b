CONSTANTS
  Threads = {t1, t2}
  NSlices = 2
  Configs <- MCConfigs
  MaxAllocs = 4
SPECIFICATION Spec
CHECK_DEADLOCK FALSE
INVARIANTS
  SlicesAreSound
  HandedOutIsAccessible
  ZeroClaimsAreTrue
  ScheduledIsArmed
