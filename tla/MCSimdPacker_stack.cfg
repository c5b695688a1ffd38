SPECIFICATION Spec
CONSTANTS
  Sizes <- MCSizes
  Capacity = 132
  Avx512 = {TRUE}
INVARIANT ReturnsToCaller
CHECK_DEADLOCK FALSE
