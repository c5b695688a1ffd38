SPECIFICATION Spec
CONSTANTS
  TRACE_MAX_EVENTS = 3
  Types <- MCTypes
  Data = {0}
  Addresses <- MCAddresses
  WatchSizes <- MCWatchSizes
  MaxChecks = 2
INVARIANT ModificationReported
