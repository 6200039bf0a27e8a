CONSTANTS
  PMM_FRAME_COUNT = 12
  WORD = 131072
  FRAMES_PER_2MB = 4
  PMM_LOW_RESERVED = 8192
  PMM_SELF_TEST_FRAMES = 4
  INFO_SIZE_MAX = 8192
  MB2_MAX_RANGES = 2
  BootEnvs <- MCBootEnvs
  PhysAddrs <- MCPhysAddrs
SPECIFICATION BootSpec
INVARIANTS ReadsMapped HaltsForCause PoolExact PoolMapped
INVARIANTS CounterExact HintNeverHigh HeldStaysUsed
PROPERTIES HandsOver SelfTestNeutral BootEnds BootImplementsPool
CHECK_DEADLOCK FALSE
