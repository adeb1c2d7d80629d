SPECIFICATION SpacesSpec
CONSTANTS
  NFrames = 7
  FirstFrame = 2
  FirstSequential = 3
  NPages = 5
  KernelBase = 2
  MaxPages = 1
  TablePages = 2
  MaxMisuse = 1
  Reserved <- MCReserved
  BootMap <- MCBootMap
INVARIANTS
  SharedOnlyInherited
  ForkIsolates
  SpacesAccounted
  CopyReachable
