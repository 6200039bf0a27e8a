CONSTANTS
  HEAP_UNITS = 7
  Sizes <- MCSizes
  Stored = {0}
SPECIFICATION HeapSpec
INVARIANTS Tiling InUseIsLive Coalesced WrongFreeCaught
PROPERTIES PanicDeserved NullOnlyWhenFull CallsReturn
CHECK_DEADLOCK FALSE
