SPECIFICATION RuntimeFairSpec
CONSTANTS
  p1 = p1
  p2 = p2
  intr = intr
  NoExit = none
  Procs = {p1, p2}
  ExitCodes = {intr}
  Hosts = {"amd", "amd_bare", "intel", "other"}
INVARIANT RuntimeTypeOK
INVARIANT StrictNeverDegrades
INVARIANT ClientAgrees
PROPERTY CleanExitDestroys
PROPERTY VmrunOptIn
PROPERTY EveryRunEnds
CHECK_DEADLOCK FALSE
