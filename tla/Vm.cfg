CONSTANTS
  PMM_FRAME_COUNT = 22
  PhysAddrs = {}
  ENTRIES = 4
  HALF = 2
  HeapPages <- MCHeapPages
  FirstHeapPage <- MCFirst
  ClientPages <- MCPages
  Memories <- MCMemories
  MAX_HELD = 1
  MAX_SPACES = 2
  VM_SCRATCH_BASE <- ScratchPage
  VM_SPACE_TEST_BASE <- SpaceTestPage
  LowPage <- Identity
  LastHeapPage <- MCLast
  MAX_CLIENT_FRAMES = 9
SPECIFICATION TestSpec
INVARIANTS FramesAccounted TlbCoherent KernelHalfShared SelfTestTidy
PROPERTIES FreshPageZero HaltDeserved
CHECK_DEADLOCK FALSE
