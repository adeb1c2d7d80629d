SPECIFICATION Spec
CONSTANTS
  NFrames = 6
  FirstFrame = 2
  NPages = 5
  KernelBase = 1
  MaxPages = 2
  Reserved <- MCReserved
  BootMap <- MCBootMap
INVARIANTS FramesExclusive HeldMapped BitmapExact
PROPERTIES StrandsOnlyWhenFull ImplementsPool
