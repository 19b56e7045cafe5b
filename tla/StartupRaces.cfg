SPECIFICATION FairSpec
CONSTANTS
  Threads = {t1, t2}
  NOpts = 2
  Env <- MCEnv
  NewValues = {3}
  KeyValues = {k1, k2}
  MaxCalls = 5
  None = None
INVARIANTS
  StartIsSound
  OptionsAreSeeded
  NoStaleArgument
  RecursionGuard
PROPERTY CallsReturn
CHECK_DEADLOCK FALSE
