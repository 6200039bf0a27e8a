CONSTANTS
  HEAP_UNITS = 7
  Sizes <- MCSizes
  Stored = {0}
SPECIFICATION AnyCallerSpec
PROPERTIES BadFreeStops
CHECK_DEADLOCK FALSE
