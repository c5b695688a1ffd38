SPECIFICATION Spec
CONSTANTS
  Sizes <- MCSizes
  Capacity = 132
  Avx512 = {TRUE}
INVARIANT ReturnsBytes
CHECK_DEADLOCK FALSE
