CONSTANTS
  PMM_FRAME_COUNT = 13
  PhysAddrs = {}
  ENTRIES = 4
  HALF = 2
  HeapPages <- MCHeapPages
  FirstHeapPage <- MCFirst
  ClientPages <- MCFarPages
  Memories <- MCMemories
  MAX_HELD = 1
  MAX_SPACES = 2
SPECIFICATION VmSpec
INVARIANT KernelHalfShared
CHECK_DEADLOCK FALSE
