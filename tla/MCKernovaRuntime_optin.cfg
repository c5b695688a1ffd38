SPECIFICATION RuntimeSpec
CONSTANTS
  p1 = p1
  intr = intr
  NoExit = none
  Procs = {p1}
  ExitCodes = {intr}
  Hosts = {"amd"}
INVARIANT ValidatedOptIn
CHECK_DEADLOCK FALSE
