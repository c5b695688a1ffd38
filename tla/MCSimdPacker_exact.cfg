SPECIFICATION FairSpec
CONSTANTS
  Sizes <- MCSizes
  Capacity = 132
  Avx512 = {TRUE, FALSE}
INVARIANT TransferInv
INVARIANT TransferExact
INVARIANT NoOverrun
INVARIANT Avx2KeepsPromise
PROPERTY ImplementsContract
PROPERTY CallEnds
CHECK_DEADLOCK FALSE
