SPECIFICATION FairSpec
CONSTANTS
  p1 = p1
  p2 = p2
  c1 = c1
  c2 = c2
  g1 = g1
  g2 = g2
  g3 = g3
  kvm = kvm
  HLT = HLT
  INVALID = INVALID
  Admin = admin
  NULL = null
  Nobody = nobody
  NoExit = noexit
  Procs <- MCProcs
  Cpus <- MCCpus
  Pages <- MCPages
  ExitCodes <- MCExitCodes
  GuestSizes <- MCGuestSizes
  BootSvme <- MCUsedSvme
  BootHsave <- MCUsedHsave
  Affinity <- MCPinned
INVARIANT PinnedInv
INVARIANT HostRestored
INVARIANT HsaveNeverDangles
INVARIANT VmrunReady
PROPERTY EveryCallReturns
