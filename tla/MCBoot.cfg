SPECIFICATION Spec
CONSTANTS
  TableSize = 6
  KernelDir = 2
  LowFrames = 4
  VgaFrame = 2
  PageBytes = 2
  MaxEntries = 2
  MemoryMaps <- MCMaps
  InfoFrames = {1, 3}
INVARIANTS TablesReachable HandsOver
PROPERTIES KernelStays
CHECK_DEADLOCK FALSE
